SPECIFICATION FairSpec
CONSTANTS
    ParamPorts = {1, 2}
    DataInputs = {"x", "y"}
    Buffers = {"b1", "b2"}
    OutPool = 2
    MaxToken = 2
    Setups <- MCSetups
INVARIANTS
    IInv  InputsInOrder OwnerSerialized StatusMatchesOwner
PROPERTIES
    RequestsComplete BacklogServed ParameterReturns
CHECK_DEADLOCK FALSE
