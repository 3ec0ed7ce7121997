CONSTANTS
    NHelpers = 2
    GenMod = 3
    Errors = {e1, e2}
    EINVAL = EINVAL
SPECIFICATION FairSpec
INVARIANTS
    TypeOK
    TaskBorrowedOnlyDuringCall
    EachLaneRunsOnce
    NoSlotRace
    NoHelperLeaks
    IInv
PROPERTIES
    CallsReturn
    ImplementsForkJoin
