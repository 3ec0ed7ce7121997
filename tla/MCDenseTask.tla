----------------------------- MODULE MCDenseTask -----------------------------
(* Cache lines of four floats, so that tasks with fewer rows than lanes,    *)
(* fewer than a line, and several lines per lane are all among the inputs.   *)
EXTENDS DenseTask
=============================================================================
