CONSTANTS
    drv = drv
    a = a
    b = b
    c = c
    Driver = drv
    AllFollowers = {a, b, c}
    Loops = {"loop0", "loop1", "loop2"}
    Polling = {drv}
    PollDriver = TRUE
    Setups <- BothGraphs
SPECIFICATION FairSpec
INVARIANTS
    TypeOK
    RequiredIsActive
    DependencyOrder
    DriverFinishesLast
    ProcessedOnce
    NoLostWake
PROPERTIES
    OneLoopCycleCompletes
CHECK_DEADLOCK FALSE
