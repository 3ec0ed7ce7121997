CONSTANTS
    drv = drv
    a = a
    b = b
    c = c
    Driver = drv
    AllFollowers = {a, b, c}
    Loops = {"loop0", "loop1", "loop2"}
    Polling = {drv}
    PollDriver = TRUE
    Setups <- ParallelOnly
SPECIFICATION FairSpec
PROPERTIES
    CycleCompletes
CHECK_DEADLOCK FALSE
