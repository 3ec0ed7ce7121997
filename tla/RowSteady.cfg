CONSTANTS
    Ids = {row1, row2}
    Consumers = {"local", "exported"}
    OneInFlight = TRUE
    MayFail = FALSE
    MaxStops = 0
SPECIFICATION FairSpec
INVARIANTS
    Custody
    IoNotShared
PROPERTIES
    RowsComeBack
    OffersAccepted
CHECK_DEADLOCK FALSE
