CONSTANTS
    o = o  i1 = i1  i2 = i2  l1 = l1  l2 = l2
    Ports <- MCPorts
    LinkOrder <- MCLinkOrder
    OutPort <- MCOutPort
    InPort <- MCInPort
    Setups <- MCLocal
    Formats = {"f", "g"}
    MaxFaults = 1
SPECIFICATION Spec
INVARIANT
    PreparedLinkAgrees
