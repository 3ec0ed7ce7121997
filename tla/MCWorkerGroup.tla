---------------------------- MODULE MCWorkerGroup ----------------------------
(* Small instances of WorkerGroup.  GenMod is small so that the generation  *)
(* of a slot wraps, which takes 2^32 tasks in the code.                     *)
EXTENDS WorkerGroup
=============================================================================
