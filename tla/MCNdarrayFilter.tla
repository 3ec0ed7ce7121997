--------------------------- MODULE MCNdarrayFilter ----------------------------
(* Small instances of the ndarray filter: each configuration has the parts *)
(* that one of its mechanisms needs.                                       *)
EXTENDS NdarrayFilter

Plain ==
    [rt |-> TRUE, run |-> FALSE, reset |-> FALSE, fifo |-> FALSE, independent |-> FALSE,
     params |-> {}, inputs |-> {}, outputs |-> 0, pool |-> 2, frames |-> 2, busy |-> 0, faults |-> 1]

Parameter == [Plain EXCEPT !.params = {1}, !.busy = 2, !.faults = 2]
TwoParameters == [Plain EXCEPT !.params = {1, 2}, !.busy = 1, !.faults = 0]
Fifo == [Plain EXCEPT !.fifo = TRUE, !.inputs = {"x"}, !.outputs = 1, !.pool = 3, !.frames = 6]
FifoPeers == [Plain EXCEPT !.fifo = TRUE, !.inputs = {"x", "y"}, !.outputs = 1, !.frames = 3]
FifoIndependent == [FifoPeers EXCEPT !.independent = TRUE, !.frames = 2, !.faults = 0]
Latest == [Plain EXCEPT !.independent = TRUE, !.inputs = {"x"}, !.outputs = 1]
Control == [Plain EXCEPT !.run = TRUE, !.reset = TRUE, !.outputs = 1]
ControlMainLoop == [Control EXCEPT !.rt = FALSE]

MCSetups == {Parameter, TwoParameters, Fifo, FifoPeers, FifoIndependent, Latest, Control, ControlMainLoop}
=============================================================================
