CONSTANTS
    Ids = {row1, row2}
    Consumers = {"exported"}
    OneInFlight = FALSE
    MayFail = TRUE
    MaxStops = 1
SPECIFICATION Spec
INVARIANTS
    TypeOK
    
    OneRowLent
    ReturnsAreExact
CHECK_DEADLOCK FALSE
