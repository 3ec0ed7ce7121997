----------------------------- MODULE GraphCycle ------------------------------
(***************************************************************************)
(* How a driver runs its graph: the activation records of                  *)
(* src/pipewire/private.h and their users in src/pipewire/impl-node.c.     *)
(* The driver's node_ready rearms every node and triggers its targets; a   *)
(* node whose last dependency arrives is woken on its own data loop,       *)
(* processes, and triggers its targets in turn; the last trigger the       *)
(* driver gets ends the cycle.  Meanwhile the main thread starts and stops *)
(* nodes and adds and removes links, holding the lock of one data loop.    *)
(*                                                                         *)
(* Every step is one atomic access to an activation record.  Each node is  *)
(* local to the process (neither remote nor exported) and keeps its one    *)
(* driver; its targets are called in any order.                            *)
(***************************************************************************)
EXTENDS Integers, FiniteSets

CONSTANTS
    Driver,
    AllFollowers,
    Loops,        \* the data loops
    Polling,      \* the nodes whose data loop is busy-spin: they get no eventfd write
    PollDriver,   \* the driver is a SPA_NODE_FLAG_POLL_DRIVER source
    Setups        \* the graphs, see GraphAssumption

Main == "main"
Threads == Loops \cup {Main}
None == "none"
AllNodes == AllFollowers \cup {Driver}

\* A graph: its followers; the pairs <<output node, input node>> there may be a
\* link between; the followers with node.async; the data loop each node is on;
\* what the main thread does while the driver runs, and how often.
ASSUME GraphAssumption ==
    /\ Driver \notin AllFollowers /\ Main \notin Loops
    /\ Polling \subseteq AllNodes
    /\ PollDriver \in BOOLEAN /\ (PollDriver => Driver \in Polling)
    /\ \A g \in Setups :
          /\ g.followers \subseteq AllFollowers
          /\ g.links \subseteq g.followers \X g.followers
          /\ g.async \subseteq g.followers
          /\ g.loopOf \in [g.followers \cup {Driver} -> Loops]
          /\ g.ops \subseteq {"start", "stop", "stop_driver", "link", "unlink"}
          /\ g.maxOps \in Nat

VARIABLES
    \* struct pw_node_activation, per node
    status, required, pending,
    claimed,      \* signal_time_seq is odd
    wake,         \* the node's eventfd has been written
    \* struct pw_impl_node.rt
    prepared,     \* rt.prepared
    linked,       \* links whose target is in the output node's target_list
    active,       \* pairs <<node, target>> with target->active
    \* the threads
    pc, op, node, todo, tgt,
    trig,         \* the main thread's trigger flag
    loaded,       \* node_ready's copy of required, and
    oldStatus,    \* its old_status,
    count,        \* and its pending
    setup,        \* the graph
    ops,          \* operations done while the driver runs
    \* history of the cycle
    ran,          \* how often each node was processed
    fresh         \* the pairs <<node, target>> activated since it began

recordVars == <<status, required, pending, claimed, wake>>
graphVars == <<prepared, linked, active>>
locals == <<trig, loaded, oldStatus, count>>
choice == <<setup, ops>>
threadVars == <<pc, op, node, todo, tgt, locals, choice>>
history == <<ran, fresh>>
vars == <<recordVars, graphVars, threadVars, history>>

Followers == setup.followers
Nodes == Followers \cup {Driver}
Links == setup.links
Async == setup.async
LoopOf == setup.loopOf
Ops == setup.ops
MaxOps == setup.maxOps

\* node->rt.target_list: the links, and the peers pw_impl_node_set_driver makes.
Targets(n) ==
    {l[2] : l \in {k \in linked : k[1] = n}} \cup
    (IF n = Driver THEN Nodes ELSE {Driver})

PendingTrigger(s) == s \in {"not_triggered", "triggered", "awake"}

Init ==
    /\ setup \in Setups
    /\ status = [n \in Nodes |-> "inactive"]
    /\ required = [n \in Nodes |-> 0] /\ pending = [n \in Nodes |-> 0]
    /\ claimed = [n \in Nodes |-> FALSE] /\ wake = [n \in Nodes |-> FALSE]
    /\ prepared = [n \in Nodes |-> FALSE]
    /\ linked = Links /\ active = {}
    /\ pc = [t \in Threads |-> "idle"] /\ op = [t \in Threads |-> None]
    /\ node = [t \in Threads |-> Driver] /\ tgt = [t \in Threads |-> Driver]
    /\ todo = [t \in Threads |-> {}]
    /\ trig = FALSE /\ loaded = 0 /\ oldStatus = "inactive" /\ count = 0 /\ ops = 0
    /\ ran = [n \in Nodes |-> 0] /\ fresh = {}

-----------------------------------------------------------------------------
\* A data loop holds its lock while it handles an event; pw_loop_locked takes it.
Unlocked(l) == pc[l] = "idle" /\ (pc[Main] = "idle" \/ LoopOf[node[Main]] # l)

Goto(t, label) == pc' = [pc EXCEPT ![t] = label]

Enter(t, label, o, n, targets) ==
    /\ pc' = [pc EXCEPT ![t] = label]
    /\ op' = [op EXCEPT ![t] = o]
    /\ node' = [node EXCEPT ![t] = n]
    /\ todo' = [todo EXCEPT ![t] = targets]

(* t->trigger(t, nsec), which is trigger_target_v2, for a target in todo *)

\* deactivate_target triggers the target if it was asked to.
DeactivateTriggers == trig /\ node[Main] \notin Async

\* Where the thread goes when the call is over.
AfterTrigger(t) == IF t = Main THEN "unrequire" ELSE "trigger"

\* Bug: the target is triggered one dependency early.
Bug_TriggerEarly(t, g) ==
    /\ pc[t] = "trigger" \/ (pc[t] = "deactivate" /\ DeactivateTriggers)
    /\ g \in todo[t]
    /\ pending' = [pending EXCEPT ![g] = @ - 1]
    /\ tgt' = [tgt EXCEPT ![t] = g]
    /\ todo' = [todo EXCEPT ![t] = @ \ {g}]
    /\ Goto(t, IF pending[g] <= 2 THEN "seq_read" ELSE AfterTrigger(t))
    /\ UNCHANGED <<status, required, claimed, wake, graphVars, op, node, locals, choice, history>>

Trigger(t, g) ==
    /\ pc[t] = "trigger" \/ (pc[t] = "deactivate" /\ DeactivateTriggers)
    /\ g \in todo[t]
    /\ pending' = [pending EXCEPT ![g] = @ - 1]
    /\ tgt' = [tgt EXCEPT ![t] = g]
    /\ todo' = [todo EXCEPT ![t] = @ \ {g}]
    /\ Goto(t, IF pending[g] = 1 THEN "seq_read" ELSE AfterTrigger(t))
    /\ UNCHANGED <<status, required, claimed, wake, graphVars, op, node, locals, choice, history>>

SeqRead(t) ==
    /\ pc[t] = "seq_read"
    /\ Goto(t, IF claimed[tgt[t]] THEN AfterTrigger(t) ELSE "seq_cas")
    /\ UNCHANGED <<recordVars, graphVars, op, node, todo, tgt, locals, choice, history>>

\* The thread whose CAS succeeds makes the CAS of every other reader fail.
SeqCas(t) ==
    /\ pc[t] = "seq_cas"
    /\ claimed' = [claimed EXCEPT ![tgt[t]] = TRUE]
    /\ pc' = [u \in Threads |->
                IF u = t THEN "status_cas"
                ELSE IF pc[u] = "seq_cas" /\ tgt[u] = tgt[t] THEN AfterTrigger(u) ELSE pc[u]]
    /\ UNCHANGED <<status, required, pending, wake, graphVars, op, node, todo, tgt, locals,
                   choice, history>>

StatusCas(t) ==
    /\ pc[t] = "status_cas"
    /\ IF status[tgt[t]] = "not_triggered"
       THEN /\ status' = [status EXCEPT ![tgt[t]] = "triggered"]
            /\ Goto(t, "seq_write_hit")
       ELSE Goto(t, "seq_write_miss") /\ UNCHANGED status
    /\ UNCHANGED <<required, pending, claimed, wake, graphVars, op, node, todo, tgt, locals,
                   choice, history>>

\* Bug: the wake policy is read the wrong way round.
Bug_WakePolling(t) ==
    /\ pc[t] \in {"seq_write_hit", "seq_write_miss"}
    /\ claimed' = [claimed EXCEPT ![tgt[t]] = FALSE]
    /\ Goto(t, IF pc[t] = "seq_write_hit" /\ tgt[t] \in Polling
               THEN "eventfd_write" ELSE AfterTrigger(t))
    /\ UNCHANGED <<status, required, pending, wake, graphVars, op, node, todo, tgt, locals,
                   choice, history>>

SeqWrite(t) ==
    /\ pc[t] \in {"seq_write_hit", "seq_write_miss"}
    /\ claimed' = [claimed EXCEPT ![tgt[t]] = FALSE]
    /\ Goto(t, IF pc[t] = "seq_write_hit" /\ tgt[t] \notin Polling
               THEN "eventfd_write" ELSE AfterTrigger(t))
    /\ UNCHANGED <<status, required, pending, wake, graphVars, op, node, todo, tgt, locals,
                   choice, history>>

EventfdWrite(t) ==
    /\ pc[t] = "eventfd_write"
    /\ wake' = [wake EXCEPT ![tgt[t]] = TRUE]
    /\ Goto(t, AfterTrigger(t))
    /\ UNCHANGED <<status, required, pending, claimed, graphVars, op, node, todo, tgt, locals,
                   choice, history>>

TriggerTargets(t) ==
    \/ \E g \in Nodes : Trigger(t, g)
    \/ SeqRead(t) \/ SeqCas(t) \/ StatusCas(t) \/ SeqWrite(t) \/ EventfdWrite(t)

-----------------------------------------------------------------------------
(* process_node, called from poll_process_node and from node_on_fd_events *)

Woken(n) == IF n \in Polling THEN status[n] = "triggered" ELSE wake[n]

\* Bug: process_node does not claim the activation.
Bug_NoClaim(n) ==
    LET t == LoopOf[n] IN
    /\ Unlocked(t) /\ prepared[n] /\ Woken(n)
    /\ wake' = [wake EXCEPT ![n] = FALSE]
    /\ IF ~claimed[n] /\ status[n] = "triggered"
       THEN /\ status' = status
            /\ ran' = [ran EXCEPT ![n] = @ + 1]
            /\ Enter(t, "processing", "process", n, {})
       ELSE UNCHANGED <<status, ran, pc, op, node, todo>>
    /\ UNCHANGED <<required, pending, claimed, graphVars, tgt, locals, choice, fresh>>

ProcessNode(n) ==
    LET t == LoopOf[n] IN
    /\ Unlocked(t) /\ prepared[n] /\ Woken(n)
    /\ wake' = [wake EXCEPT ![n] = FALSE]
    /\ IF ~claimed[n] /\ status[n] = "triggered"
       THEN /\ status' = [status EXCEPT ![n] = "awake"]
            /\ ran' = [ran EXCEPT ![n] = @ + 1]
            /\ Enter(t, "processing", "process", n, {})
       ELSE UNCHANGED <<status, ran, pc, op, node, todo>>
    /\ UNCHANGED <<required, pending, claimed, graphVars, tgt, locals, choice, fresh>>

\* was_awake, and trigger_targets of a node that does not drive
ProcessDone(t) ==
    /\ pc[t] = "processing"
    /\ IF status[node[t]] = "awake"
       THEN /\ status' = [status EXCEPT ![node[t]] = "finished"]
            /\ IF node[t] # Driver /\ node[t] \notin Async
               THEN Enter(t, "trigger", "process", node[t], Targets(node[t]))
               ELSE Goto(t, "idle") /\ UNCHANGED <<op, node, todo>>
       ELSE Goto(t, "idle") /\ UNCHANGED <<status, op, node, todo>>
    /\ UNCHANGED <<required, pending, claimed, wake, graphVars, tgt, locals, choice, history>>

(* node_ready of the driver.  A poll driver polls its source, and so gets   *)
(* here, only when its activation is FINISHED; any other driver may be      *)
(* ready at any time, and runs process_node to end a cycle that is not over *)

NodeReady ==
    LET t == LoopOf[Driver] IN
    /\ Unlocked(t) /\ prepared[Driver]
    /\ PollDriver => status[Driver] = "finished"
    /\ status' = [status EXCEPT ![Driver] =
                    IF @ # "finished" /\ claimed[Driver] THEN "triggered" ELSE "finished"]
    /\ Enter(t, "reset_load", "ready", Driver, Nodes)
    /\ count' = 0
    /\ ran' = [n \in Nodes |-> 0] /\ fresh' = {}
    /\ UNCHANGED <<required, pending, claimed, wake, graphVars, tgt, trig, loaded, oldStatus, choice>>

\* pw_node_activation_state_reset: a load and a store
ResetLoad(t, g) ==
    /\ pc[t] = "reset_load" /\ g \in todo[t]
    /\ tgt' = [tgt EXCEPT ![t] = g]
    /\ todo' = [todo EXCEPT ![t] = @ \ {g}]
    /\ loaded' = required[g]
    /\ Goto(t, "reset_store")
    /\ UNCHANGED <<recordVars, graphVars, op, node, trig, oldStatus, count, choice, history>>

ResetStore(t) ==
    /\ pc[t] = "reset_store"
    /\ pending' = [pending EXCEPT ![tgt[t]] = loaded]
    /\ Goto(t, "status_load")
    /\ UNCHANGED <<status, required, claimed, wake, graphVars, op, node, todo, tgt, locals,
                   choice, history>>

StatusLoad(t) ==
    /\ pc[t] = "status_load"
    /\ oldStatus' = status[tgt[t]]
    /\ Goto(t, IF status[tgt[t]] = "inactive" THEN "reset_load" ELSE "rearm")
    /\ UNCHANGED <<recordVars, graphVars, op, node, todo, tgt, trig, loaded, count, choice, history>>

\* A CAS that fails goes back to retry_status.
Rearm(t) ==
    LET g == tgt[t] IN
    /\ pc[t] = "rearm"
    /\ Goto(t, "reset_load")
    /\ IF status[g] = oldStatus
       THEN /\ status' = [status EXCEPT ![g] = "not_triggered"]
            /\ count' = IF g \in Async THEN count ELSE count + 1
            /\ UNCHANGED todo
       ELSE /\ todo' = [todo EXCEPT ![t] = @ \cup {g}]
            /\ UNCHANGED <<status, count>>
    /\ UNCHANGED <<required, pending, claimed, wake, graphVars, op, node, tgt, trig, loaded,
                   oldStatus, choice, history>>

\* Bug: the driver does not count itself.
Bug_CountShort(t) ==
    /\ pc[t] = "reset_load" /\ todo[t] = {}
    /\ pending' = [pending EXCEPT ![Driver] = count - 1]
    /\ Enter(t, "trigger", "ready", Driver, Nodes)
    /\ UNCHANGED <<status, required, claimed, wake, graphVars, tgt, locals, choice, history>>

\* state->pending = pending, and trigger_targets
StartGraph(t) ==
    /\ pc[t] = "reset_load" /\ todo[t] = {}
    /\ pending' = [pending EXCEPT ![Driver] = count]
    /\ Enter(t, "trigger", "ready", Driver, Nodes)
    /\ UNCHANGED <<status, required, claimed, wake, graphVars, tgt, locals, choice, history>>

-----------------------------------------------------------------------------
(* What the main thread does, in pw_loop_locked *)

Free(n) == pc[Main] = "idle" /\ Unlocked(LoopOf[n])

Allowed(o) == o \in Ops /\ ops < MaxOps /\ ops' = ops + 1 /\ UNCHANGED setup

\* do_node_prepare
Prepare(n) ==
    /\ Free(n) /\ ~prepared[n]
    /\ (~prepared[Driver] /\ UNCHANGED choice) \/ (prepared[Driver] /\ Allowed("start"))
    /\ wake' = [wake EXCEPT ![n] = FALSE]
    /\ status' = [status EXCEPT ![n] = "finished"]
    /\ Enter(Main, "require", "prepare", n, Targets(n))
    /\ UNCHANGED <<required, pending, claimed, graphVars, tgt, locals, history>>

\* activate_target
Require(g) ==
    /\ pc[Main] = "require" /\ g \in todo[Main]
    /\ tgt' = [tgt EXCEPT ![Main] = g]
    /\ todo' = [todo EXCEPT ![Main] = @ \ {g}]
    /\ required' = IF node[Main] \in Async THEN required ELSE [required EXCEPT ![g] = @ + 1]
    /\ Goto(Main, "expect")
    /\ UNCHANGED <<status, pending, claimed, wake, graphVars, op, node, locals, choice, history>>

Expect ==
    LET n == node[Main] g == tgt[Main] IN
    /\ pc[Main] = "expect"
    /\ pending' = IF n \in Async THEN pending ELSE [pending EXCEPT ![g] = @ + 1]
    /\ active' = active \cup {<<n, g>>}
    /\ fresh' = fresh \cup {<<n, g>>}
    /\ Goto(Main, "require")
    /\ UNCHANGED <<status, required, claimed, wake, prepared, linked, op, node, todo, tgt,
                   locals, choice, ran>>

\* Bug: a node that is stopped does not trigger its targets.
Bug_StopSilently(n) ==
    /\ Free(n) /\ prepared[n]
    /\ Allowed(IF n = Driver THEN "stop_driver" ELSE "stop")
    /\ status' = [status EXCEPT ![n] = "inactive"]
    /\ trig' = FALSE
    /\ Enter(Main, "deactivate", "unprepare", n, Targets(n))
    /\ UNCHANGED <<required, pending, claimed, wake, graphVars, tgt, loaded, oldStatus, count,
                   history>>

\* do_node_unprepare
Unprepare(n) ==
    /\ Free(n) /\ prepared[n]
    /\ Allowed(IF n = Driver THEN "stop_driver" ELSE "stop")
    /\ status' = [status EXCEPT ![n] = "inactive"]
    /\ trig' = PendingTrigger(status[n])
    /\ Enter(Main, "deactivate", "unprepare", n, Targets(n))
    /\ UNCHANGED <<required, pending, claimed, wake, graphVars, tgt, loaded, oldStatus, count,
                   history>>

\* do_add_target
AddTarget(f, g) ==
    /\ Free(f) /\ <<f, g>> \in Links \ linked
    /\ Allowed("link")
    /\ linked' = linked \cup {<<f, g>>}
    /\ IF prepared[f]
       THEN Enter(Main, "require", "link", f, {g})
       ELSE UNCHANGED <<pc, op, node, todo>>
    /\ UNCHANGED <<recordVars, prepared, active, tgt, locals, history>>

\* do_remove_target
RemoveTarget(f, g) ==
    /\ Free(f) /\ <<f, g>> \in linked
    /\ Allowed("unlink")
    /\ linked' = linked \ {<<f, g>>}
    /\ IF prepared[f]
       THEN /\ trig' = PendingTrigger(status[f])
            /\ Enter(Main, "deactivate", "unlink", f, {g})
       ELSE UNCHANGED <<trig, pc, op, node, todo>>
    /\ UNCHANGED <<recordVars, prepared, active, tgt, loaded, oldStatus, count, history>>

\* Bug: async nodes are not told apart.
Bug_AsyncUnrequire(g) ==
    LET n == node[Main] IN
    /\ \/ pc[Main] = "unrequire" /\ g = tgt[Main]
       \/ pc[Main] = "deactivate" /\ ~DeactivateTriggers /\ g \in todo[Main]
    /\ required' = [required EXCEPT ![g] = @ - 1]
    /\ active' = active \ {<<n, g>>}
    /\ todo' = [todo EXCEPT ![Main] = @ \ {g}]
    /\ Goto(Main, "deactivate")
    /\ UNCHANGED <<status, pending, claimed, wake, prepared, linked, op, node, tgt, locals, choice,
                   history>>

\* Bug: required is not decremented.
Bug_RequireLeak(g) ==
    LET n == node[Main] IN
    /\ \/ pc[Main] = "unrequire" /\ g = tgt[Main]
       \/ pc[Main] = "deactivate" /\ ~DeactivateTriggers /\ g \in todo[Main]
    /\ required' = required
    /\ active' = active \ {<<n, g>>}
    /\ todo' = [todo EXCEPT ![Main] = @ \ {g}]
    /\ Goto(Main, "deactivate")
    /\ UNCHANGED <<status, pending, claimed, wake, prepared, linked, op, node, tgt, locals, choice,
                   history>>

\* deactivate_target: the DEC of required comes after the trigger, if there is
\* one to give.
Unrequire(g) ==
    LET n == node[Main] IN
    /\ \/ pc[Main] = "unrequire" /\ g = tgt[Main]
       \/ pc[Main] = "deactivate" /\ ~DeactivateTriggers /\ g \in todo[Main]
    /\ required' = IF n \in Async THEN required ELSE [required EXCEPT ![g] = @ - 1]
    /\ active' = active \ {<<n, g>>}
    /\ todo' = [todo EXCEPT ![Main] = @ \ {g}]
    /\ Goto(Main, "deactivate")
    /\ UNCHANGED <<status, pending, claimed, wake, prepared, linked, op, node, tgt, locals, choice,
                   history>>

\* The end of a handler; do_node_prepare and do_node_unprepare set rt.prepared.
Return(t) ==
    /\ todo[t] = {} /\ pc[t] \in {"trigger", "require", "deactivate"}
    /\ Goto(t, "idle")
    /\ prepared' = CASE op[t] = "prepare" -> [prepared EXCEPT ![node[t]] = TRUE]
                     [] op[t] = "unprepare" -> [prepared EXCEPT ![node[t]] = FALSE]
                     [] OTHER -> prepared
    /\ UNCHANGED <<recordVars, linked, active, op, node, todo, tgt, locals, choice, history>>

-----------------------------------------------------------------------------
Ready(t) ==
    \/ \E g \in Nodes : ResetLoad(t, g)
    \/ ResetStore(t) \/ StatusLoad(t) \/ Rearm(t) \/ StartGraph(t)

Activate == \E g \in Nodes : Require(g) \/ Unrequire(g)

Lifecycle ==
    \/ \E n \in Nodes : Prepare(n) \/ Unprepare(n)
    \/ \E f, g \in Followers : AddTarget(f, g) \/ RemoveTarget(f, g)

\* The next step of a handler a thread is in.
Step(t) ==
    \/ TriggerTargets(t) \/ ProcessDone(t) \/ Ready(t) \/ Return(t)
    \/ t = Main /\ (Activate \/ Expect)

Next ==
    \/ Lifecycle \/ NodeReady
    \/ \E n \in Nodes : ProcessNode(n)
    \/ \E t \in Threads : Step(t)

\* A handler runs to its end, and a data loop serves a node that was woken;
\* nothing makes a driver ready or a node start.
Fairness ==
    /\ \A t \in Threads : WF_vars(Step(t))
    /\ \A n \in AllNodes : WF_vars(n \in Nodes /\ ProcessNode(n))

Spec == Init /\ [][Next]_vars
FairSpec == Spec /\ Fairness

-----------------------------------------------------------------------------
Statuses == {"inactive", "not_triggered", "triggered", "awake", "finished"}
Labels == {"idle", "trigger", "seq_read", "seq_cas", "status_cas", "seq_write_hit",
           "seq_write_miss", "eventfd_write", "processing", "reset_load", "reset_store",
           "status_load", "rearm", "require", "expect", "deactivate", "unrequire"}

\* Every variable keeps its type; required, which activate_target and
\* deactivate_target count up and down, stays within the number of nodes.
TypeOK ==
    /\ status \in [Nodes -> Statuses]
    /\ required \in [Nodes -> 0..Cardinality(Nodes)]
    /\ pending \in [Nodes -> Int]
    /\ claimed \in [Nodes -> BOOLEAN] /\ wake \in [Nodes -> BOOLEAN]
    /\ prepared \in [Nodes -> BOOLEAN]
    /\ linked \subseteq Links /\ active \subseteq Nodes \X Nodes
    /\ pc \in [Threads -> Labels]
    /\ op \in [Threads -> {None, "ready", "process", "prepare", "unprepare", "link", "unlink"}]
    /\ node \in [Threads -> Nodes] /\ tgt \in [Threads -> Nodes]
    /\ todo \in [Threads -> SUBSET Nodes]
    /\ trig \in BOOLEAN /\ oldStatus \in Statuses
    /\ loaded \in Nat /\ count \in Nat /\ ops \in 0..MaxOps
    /\ setup \in Setups /\ ran \in [Nodes -> Nat] /\ fresh \subseteq Nodes \X Nodes

\* scheduling.dox: "the input node can only start processing when the output
\* node is finished".  While a node is processing, no node it has an active
\* link from still has to be processed in this cycle, or is being processed:
\* except over a link that became active after the cycle began.
DependencyOrder ==
    \A l \in (active \cap linked) \ fresh :
        status[l[2]] = "awake" => ~PendingTrigger(status[l[1]])

\* node_ready between its first and its last step
InReady == op[LoopOf[Driver]] = "ready" /\ pc[LoopOf[Driver]] # "idle"

\* The driver's activation is triggered only when every node it rearmed for
\* this cycle has been processed or stopped; until the next ready, a FINISHED
\* driver stands for a finished graph.
DriverFinishesLast ==
    status[Driver] \in {"triggered", "awake", "finished"} /\ prepared[Driver] /\ ~InReady =>
        \A f \in Followers \ Async : ~PendingTrigger(status[f])

\* No node is processed twice in a cycle.
ProcessedOnce == \A n \in Nodes : ran[n] <= 1

\* A triggered node that sleeps in epoll has its eventfd written, or a thread
\* about to write it.
NoLostWake ==
    \A n \in Nodes \ Polling :
        status[n] = "triggered" /\ ~(n = Driver /\ InReady) =>
            wake[n] \/ \E t \in Threads : tgt[t] = n /\ pc[t] \in {"seq_write_hit", "eventfd_write"}

\* required, which the driver copies without a lock, counts the nodes that
\* will trigger this one: those with an active target and not async, and the
\* one activate_target is at.
RequiredIsActive ==
    \A n \in Nodes :
        required[n] = Cardinality({e \in active : e[2] = n /\ e[1] \notin Async}) +
            (IF pc[Main] = "expect" /\ tgt[Main] = n /\ node[Main] \notin Async THEN 1 ELSE 0)

OnOneLoop == \A n \in Nodes : LoopOf[n] = LoopOf[Driver]

\* A cycle that has begun comes to an end, also when nodes are stopped or
\* unlinked in it.  Not when one is started or linked: activate_target
\* increments the pending of a target that is waiting, for a trigger that
\* comes in the next cycle at the earliest.
CycleCompletes ==
    status[Driver] = "not_triggered" ~> status[Driver] # "not_triggered" \/ fresh # {}

\* The same, for graphs on one data loop.
OneLoopCycleCompletes ==
    status[Driver] = "not_triggered" /\ OnOneLoop
        ~> status[Driver] # "not_triggered" \/ fresh # {}

=============================================================================
