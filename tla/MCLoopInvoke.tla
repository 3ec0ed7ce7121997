---------------------------- MODULE MCLoopInvoke ------------------------------
(* Two threads and the functions they have called share two queues. *)
EXTENDS LoopInvoke
=============================================================================
