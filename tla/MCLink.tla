------------------------------- MODULE MCLink --------------------------------
(* Two links from one output port to two input ports; the output port or one *)
(* of the inputs is a client's.                                              *)
EXTENDS Link

CONSTANTS o, i1, i2, l1, l2

MCPorts == {o, i1, i2}
MCLinkOrder == <<l1, l2>>
MCOutPort == [l \in {l1, l2} |-> o]
MCInPort == [l \in {l1, l2} |-> IF l = l1 THEN i1 ELSE i2]

MCSetups == {[remote |-> {o}, alloc |-> {}, driver |-> {}],
             [remote |-> {o}, alloc |-> {o}, driver |-> {o}],
             [remote |-> {i1}, alloc |-> {}, driver |-> {}]}
MCLocal == {[remote |-> {}, alloc |-> {}, driver |-> {}]}
=============================================================================
