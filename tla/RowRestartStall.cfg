CONSTANTS
    Ids = {row1, row2}
    Consumers = {"exported"}
    OneInFlight = TRUE
    MayFail = FALSE
    MaxStops = 1
SPECIFICATION FairSpec
PROPERTIES
    RowsComeBack
CHECK_DEADLOCK FALSE
