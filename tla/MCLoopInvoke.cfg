CONSTANTS
    Threads = {"t1", "t2"}
    MaxQueues = 2
    Made = {0, 2}
    Slots = 1
    MaxCalls = 3
    MaxLeaves = 1
    YieldMax = 1
SPECIFICATION Spec
INVARIANTS
    QueueExclusive
    RunOnce
    NoCallForgotten
CHECK_DEADLOCK FALSE
