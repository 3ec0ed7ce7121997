---------------------------- MODULE MCGraphCycle -----------------------------
(* Small graphs: a driver, a chain of two synchronous followers a -> b and,  *)
(* in the larger one, an asynchronous follower c that a also feeds; all on   *)
(* one data loop, or each on its own.                                        *)
EXTENDS GraphCycle, TLC

CONSTANTS drv, a, b, c

Chain == {<<a, b>>}
Fork == {<<a, b>>, <<a, c>>}

OneLoop(nodes) == [n \in nodes |-> "loop0"]
OwnLoop == (drv :> "loop0") @@ (a :> "loop1") @@ (b :> "loop2")

\* Followers come and go, and links are made and undone, on one data loop.
Changing ==
    [followers |-> {a, b, c}, links |-> Fork, async |-> {c}, loopOf |-> OneLoop({drv, a, b, c}),
     ops |-> {"start", "stop", "link", "unlink"}, maxOps |-> 2]

\* A follower is stopped while each node is on a loop of its own.
Parallel ==
    [followers |-> {a, b}, links |-> Chain, async |-> {}, loopOf |-> OwnLoop,
     ops |-> {"stop"}, maxOps |-> 1]

StopDriver == [Parallel EXCEPT !.loopOf = OneLoop({drv, a, b}), !.ops = {"stop_driver"}]

BothGraphs == {Changing, Parallel}
ParallelOnly == {Parallel}
StopDriverOnly == {StopDriver}
=============================================================================
