----------------------------- MODULE WorkerGroup -----------------------------
(***************************************************************************)
(* The polling worker group of spa/plugins/filter-graph/ndarray-executor.c:*)
(* one coordinator (the graph's data loop) hands a task to helper threads  *)
(* through one slot per helper and waits for them, with nothing but atomic *)
(* generation counters between them.  Slot i is the slot of lane i.        *)
(* Every step touches one shared word: a load, a store or the plain fields *)
(* one store or load publishes.  The atomics are acquire/release pairs on  *)
(* the same word, so interleaving the steps is what the C11 code can do.   *)
(***************************************************************************)
EXTENDS Integers

CONSTANTS NHelpers,  \* group->n_helpers
          GenMod,    \* 2^32 in the code: generations are unsigned and wrap
          Errors,    \* non-zero statuses a task may return
          EINVAL     \* the code of a rejected call (-EINVAL; -EOVERFLOW of validate_dense_task too)

ASSUME NHelpersAssumption == NHelpers \in Nat
ASSUME GenModAssumption == GenMod \in Nat /\ GenMod > 1

Ok == "ok"
NotRun == "not_run"
\* A lane that returned is told from one that has not run.
ASSUME ErrorsAssumption == NotRun \notin Errors

Helpers == 1..NHelpers
Lanes == 0..NHelpers
Gen == 0..GenMod-1

VARIABLES
    \* the coordinator
    cpc,         \* where it is
    ci,          \* its loop index i, as the lane of the slot it is at
    nLanes,      \* run_task's n_lanes; 0 when the command published is NULL
    result,      \* run_task's result
    active,      \* group->active
    nCreated,    \* group->n_created
    \* the slots
    nextGen,     \* command.next_generation
    cmdGen,      \* command.generation
    cmdLanes,    \* command.task and n_lanes: 0 stands for task == NULL
    doneGen,     \* completion.generation
    doneStatus,  \* completion.status
    started,     \* context.started
    \* the helper threads
    wpc,         \* where worker_main is
    observed,    \* worker_main's observed
    status,      \* worker_main's status
    \* history: what each lane of the current task did
    outcome,
    runs         \* how many times it ran

coordVars == <<cpc, ci, nLanes, result, active, nCreated>>
slotVars == <<nextGen, cmdGen, cmdLanes, doneGen, doneStatus>>
workerVars == <<wpc, observed, status>>
history == <<outcome, runs>>
vars == <<coordVars, slotVars, started, workerVars, history>>

\* Definitions named Bug_... are plausible mistakes in the definition that
\* follows them; Next uses none of them.  Here: generations that do not wrap.
Bug_IncUnbounded(g) == g + 1

Inc(g) == (g + 1) % GenMod
Dec(g) == (g + GenMod - 1) % GenMod

-----------------------------------------------------------------------------
(* spa_fgn_worker_group_new *)

Init ==
    /\ cpc = "idle" /\ ci = 1 /\ nLanes = 0 /\ result = Ok
    /\ active = FALSE /\ nCreated = 0
    /\ nextGen = [i \in Helpers |-> 0]
    /\ cmdGen = [i \in Helpers |-> 0]
    /\ cmdLanes = [i \in Helpers |-> 0]
    /\ doneGen = [i \in Helpers |-> 0]
    /\ doneStatus = [i \in Helpers |-> Ok]
    /\ started = [i \in Helpers |-> FALSE]
    /\ wpc = [i \in Helpers |-> "none"]
    /\ observed = [i \in Helpers |-> 0]
    /\ status = [i \in Helpers |-> Ok]
    /\ outcome = [l \in Lanes |-> NotRun]
    /\ runs = [l \in Lanes |-> 0]

(* spa_fgn_worker_group_activate *)

\* The call on a group that is not active; on an active one it does nothing.
Activate ==
    /\ cpc = "idle" /\ ~active
    /\ cpc' = "create" /\ ci' = 1
    /\ UNCHANGED <<nLanes, result, active, nCreated, slotVars, started, workerVars, history>>

CreateWorker ==
    /\ cpc = "create" /\ ci <= NHelpers
    /\ started' = [started EXCEPT ![ci] = FALSE]
    /\ wpc' = [wpc EXCEPT ![ci] = "boot"]
    /\ nCreated' = ci
    /\ ci' = ci + 1
    /\ UNCHANGED <<cpc, nLanes, result, active, slotVars, observed, status, history>>

\* pthread_create fails: the workers created so far are stopped and joined.
CreateFails ==
    /\ cpc = "create" /\ ci <= NHelpers
    /\ started' = [started EXCEPT ![ci] = FALSE]
    /\ nCreated' = ci - 1
    /\ cpc' = "stop_await" /\ ci' = 1
    /\ UNCHANGED <<nLanes, result, active, slotVars, workerVars, history>>

CreatedAll ==
    /\ cpc = "create" /\ ci > NHelpers
    /\ cpc' = "await_started" /\ ci' = 1
    /\ UNCHANGED <<nLanes, result, active, nCreated, slotVars, started, workerVars, history>>

\* The spin on started, in activate and in stop_created_workers.
SawStarted ==
    /\ \/ cpc = "await_started" /\ ci <= NHelpers
       \/ cpc = "stop_await" /\ ci <= nCreated
    /\ started[ci]
    /\ ci' = ci + 1
    /\ UNCHANGED <<cpc, nLanes, result, active, nCreated, slotVars, started, workerVars, history>>

Activated ==
    /\ cpc = "await_started" /\ ci > NHelpers
    /\ active' = TRUE
    /\ cpc' = "idle"
    /\ UNCHANGED <<ci, nLanes, result, nCreated, slotVars, started, workerVars, history>>

(* spa_fgn_worker_group_deactivate and stop_created_workers *)

Deactivate ==
    /\ cpc = "idle" /\ active
    /\ active' = FALSE
    /\ cpc' = "stop_await" /\ ci' = 1
    /\ UNCHANGED <<nLanes, result, nCreated, slotVars, started, workerVars, history>>

\* stop_created_workers publishes without the spin on started.
Bug_StopBeforeStarted ==
    /\ cpc = "stop_await"
    /\ nLanes' = 0
    /\ cpc' = "rearm" /\ ci' = 1
    /\ UNCHANGED <<result, active, nCreated, slotVars, started, workerVars, history>>

StopPublishing ==
    /\ cpc = "stop_await" /\ ci > nCreated
    /\ nLanes' = 0
    /\ cpc' = "rearm" /\ ci' = 1
    /\ UNCHANGED <<result, active, nCreated, slotVars, started, workerVars, history>>

Join ==
    /\ cpc = "join" /\ ci <= nCreated
    /\ wpc[ci] = "exited"
    /\ wpc' = [wpc EXCEPT ![ci] = "none"]
    /\ ci' = ci + 1
    /\ UNCHANGED <<cpc, nLanes, result, active, nCreated, slotVars, started,
                   observed, status, history>>

\* The join loop stops one thread short.
Bug_JoinedEarly ==
    /\ cpc = "join" /\ ci >= nCreated
    /\ nCreated' = 0
    /\ cpc' = "idle"
    /\ UNCHANGED <<ci, nLanes, result, active, slotVars, started, workerVars, history>>

Joined ==
    /\ cpc = "join" /\ ci > nCreated
    /\ nCreated' = 0
    /\ cpc' = "idle"
    /\ UNCHANGED <<ci, nLanes, result, active, slotVars, started, workerVars, history>>

(* run_task, entered from run_dense_f32 with n = n_helpers + 1 and from     *)
(* run_lanes with any n; valid is the outcome of the checks these two make  *)
(* of the task itself                                                       *)

RunTask(n, valid) ==
    /\ cpc = "idle"
    /\ active /\ valid /\ n # 0 /\ n <= NHelpers + 1
    /\ nLanes' = n
    /\ cpc' = "rearm" /\ ci' = 1
    /\ outcome' = [l \in Lanes |-> NotRun]
    /\ runs' = [l \in Lanes |-> 0]
    /\ UNCHANGED <<result, active, nCreated, slotVars, started, workerVars>>

RunRejected(n, valid) ==
    /\ cpc = "idle"
    /\ ~active \/ ~valid \/ n = 0 \/ n > NHelpers + 1
    /\ result' = EINVAL
    /\ UNCHANGED <<cpc, ci, nLanes, active, nCreated, slotVars, started, workerVars, history>>

(* publish_command, for slot ci of the loop in run_task or, when nLanes is  *)
(* 0, of the one in stop_created_workers                                    *)

LastSlot == IF nLanes = 0 THEN nCreated ELSE nLanes - 1

\* The completion generation is left as the last task left it.
Bug_NoRearm ==
    /\ cpc = "rearm" /\ ci <= LastSlot
    /\ nextGen' = [nextGen EXCEPT ![ci] = Inc(@)]
    /\ cpc' = "fields"
    /\ UNCHANGED <<ci, nLanes, result, active, nCreated, cmdGen, cmdLanes, doneGen,
                   doneStatus, started, workerVars, history>>

PublishRearm ==
    /\ cpc = "rearm" /\ ci <= LastSlot
    /\ nextGen' = [nextGen EXCEPT ![ci] = Inc(@)]
    /\ doneGen' = [doneGen EXCEPT ![ci] = Dec(Inc(nextGen[ci]))]
    /\ cpc' = "fields"
    /\ UNCHANGED <<ci, nLanes, result, active, nCreated, cmdGen, cmdLanes, doneStatus,
                   started, workerVars, history>>

\* The plain fields keep the values of the previous command.
Bug_StaleFields ==
    /\ cpc = "fields"
    /\ cpc' = "release"
    /\ UNCHANGED <<ci, nLanes, result, active, nCreated, slotVars, started, workerVars, history>>

PublishFields ==
    /\ cpc = "fields"
    /\ cmdLanes' = [cmdLanes EXCEPT ![ci] = nLanes]
    /\ cpc' = "release"
    /\ UNCHANGED <<ci, nLanes, result, active, nCreated, nextGen, cmdGen, doneGen,
                   doneStatus, started, workerVars, history>>

PublishGeneration ==
    /\ cpc = "release"
    /\ cmdGen' = [cmdGen EXCEPT ![ci] = nextGen[ci]]
    /\ cpc' = "rearm" /\ ci' = ci + 1
    /\ UNCHANGED <<nLanes, result, active, nCreated, nextGen, cmdLanes, doneGen,
                   doneStatus, started, workerVars, history>>

PublishedAll ==
    /\ cpc = "rearm" /\ ci > LastSlot
    /\ cpc' = IF nLanes = 0 THEN "join" ELSE "lane0"
    /\ ci' = 1
    /\ UNCHANGED <<nLanes, result, active, nCreated, slotVars, started, workerVars, history>>

(* the rest of run_task *)

RunLane0 ==
    /\ cpc = "lane0"
    /\ \E s \in Errors \cup {Ok} :
        /\ result' = s
        /\ outcome' = [outcome EXCEPT ![0] = s]
    /\ runs' = [runs EXCEPT ![0] = @ + 1]
    /\ cpc' = "wait" /\ ci' = 1
    /\ UNCHANGED <<nLanes, active, nCreated, slotVars, started, workerVars>>

\* The last error wins.
Bug_LastError ==
    /\ cpc = "wait" /\ ci < nLanes
    /\ doneGen[ci] = nextGen[ci]
    /\ result' = IF doneStatus[ci] # Ok THEN doneStatus[ci] ELSE result
    /\ ci' = ci + 1
    /\ UNCHANGED <<cpc, nLanes, active, nCreated, slotVars, started, workerVars, history>>

SawCompletion ==
    /\ cpc = "wait" /\ ci < nLanes
    /\ doneGen[ci] = nextGen[ci]
    /\ result' = IF result = Ok /\ doneStatus[ci] # Ok THEN doneStatus[ci] ELSE result
    /\ ci' = ci + 1
    /\ UNCHANGED <<cpc, nLanes, active, nCreated, slotVars, started, workerVars, history>>

\* The last helper is not waited for.
Bug_ReturnEarly ==
    /\ cpc = "wait" /\ ci >= nLanes - 1
    /\ cpc' = "idle"
    /\ UNCHANGED <<ci, nLanes, result, active, nCreated, slotVars, started, workerVars, history>>

RunReturns ==
    /\ cpc = "wait" /\ ci >= nLanes
    /\ cpc' = "idle"
    /\ UNCHANGED <<ci, nLanes, result, active, nCreated, slotVars, started, workerVars, history>>

Calls ==
    \/ Activate \/ Deactivate
    \/ \E n \in 0..NHelpers+2, valid \in BOOLEAN : RunTask(n, valid) \/ RunRejected(n, valid)

Coordinator ==
    \/ CreateWorker \/ CreateFails \/ CreatedAll \/ SawStarted \/ Activated
    \/ StopPublishing \/ Join \/ Joined
    \/ PublishRearm \/ PublishFields \/ PublishGeneration \/ PublishedAll
    \/ RunLane0 \/ SawCompletion \/ RunReturns

-----------------------------------------------------------------------------
(* worker_main *)

\* A new thread starts from generation 0, not from the slot's.
Bug_BootFromZero(i) ==
    /\ wpc[i] = "boot"
    /\ observed' = [observed EXCEPT ![i] = 0]
    /\ wpc' = [wpc EXCEPT ![i] = "starting"]
    /\ UNCHANGED <<coordVars, slotVars, started, status, history>>

WorkerBoot(i) ==
    /\ wpc[i] = "boot"
    /\ observed' = [observed EXCEPT ![i] = cmdGen[i]]
    /\ wpc' = [wpc EXCEPT ![i] = "starting"]
    /\ UNCHANGED <<coordVars, slotVars, started, status, history>>

WorkerStarted(i) ==
    /\ wpc[i] = "starting"
    /\ started' = [started EXCEPT ![i] = TRUE]
    /\ wpc' = [wpc EXCEPT ![i] = "poll"]
    /\ UNCHANGED <<coordVars, slotVars, observed, status, history>>

WorkerPoll(i) ==
    /\ wpc[i] = "poll"
    /\ cmdGen[i] # observed[i]
    /\ observed' = [observed EXCEPT ![i] = cmdGen[i]]
    /\ wpc' = [wpc EXCEPT ![i] = "fetch"]
    /\ UNCHANGED <<coordVars, slotVars, started, status, history>>

WorkerFetch(i) ==
    /\ wpc[i] = "fetch"
    /\ wpc' = [wpc EXCEPT ![i] = IF cmdLanes[i] = 0 THEN "exited" ELSE "task"]
    /\ UNCHANGED <<coordVars, slotVars, started, observed, status, history>>

WorkerRun(i) ==
    /\ wpc[i] = "task"
    /\ \E s \in Errors \cup {Ok} :
        /\ status' = [status EXCEPT ![i] = s]
        /\ outcome' = [outcome EXCEPT ![i] = s]
    /\ runs' = [runs EXCEPT ![i] = @ + 1]
    /\ wpc' = [wpc EXCEPT ![i] = "status"]
    /\ UNCHANGED <<coordVars, slotVars, started, observed>>

WorkerStatus(i) ==
    /\ wpc[i] = "status"
    /\ doneStatus' = [doneStatus EXCEPT ![i] = status[i]]
    /\ wpc' = [wpc EXCEPT ![i] = "complete"]
    /\ UNCHANGED <<coordVars, nextGen, cmdGen, cmdLanes, doneGen, started,
                   observed, status, history>>

WorkerComplete(i) ==
    /\ wpc[i] = "complete"
    /\ doneGen' = [doneGen EXCEPT ![i] = observed[i]]
    /\ wpc' = [wpc EXCEPT ![i] = "poll"]
    /\ UNCHANGED <<coordVars, nextGen, cmdGen, cmdLanes, doneStatus, started,
                   observed, status, history>>

Worker(i) ==
    \/ WorkerBoot(i) \/ WorkerStarted(i) \/ WorkerPoll(i) \/ WorkerFetch(i)
    \/ WorkerRun(i) \/ WorkerStatus(i) \/ WorkerComplete(i)

Next == Calls \/ Coordinator \/ \E i \in Helpers : Worker(i)

\* Threads that are runnable get to run (the helpers poll, they never block),
\* and a task returns; nobody has to call the group.
Fairness == WF_vars(Coordinator) /\ \A i \in Helpers : WF_vars(Worker(i))

Spec == Init /\ [][Next]_vars
FairSpec == Spec /\ Fairness

-----------------------------------------------------------------------------
CoordPcs == {"idle", "create", "await_started", "stop_await", "rearm", "fields",
             "release", "lane0", "wait", "join"}
WorkerPcs == {"none", "boot", "starting", "poll", "fetch", "task", "status",
              "complete", "exited"}
Statuses == Errors \cup {Ok}

\* Every variable keeps its type; the generations of publish_command wrap.
TypeOK ==
    /\ cpc \in CoordPcs
    /\ ci \in 1..NHelpers+1
    /\ nLanes \in 0..NHelpers+1
    /\ result \in Statuses \cup {EINVAL}
    /\ active \in BOOLEAN
    /\ nCreated \in Lanes
    /\ nextGen \in [Helpers -> Gen]
    /\ cmdGen \in [Helpers -> Gen]
    /\ cmdLanes \in [Helpers -> 0..NHelpers+1]
    /\ doneGen \in [Helpers -> Gen]
    /\ doneStatus \in [Helpers -> Statuses]
    /\ started \in [Helpers -> BOOLEAN]
    /\ wpc \in [Helpers -> WorkerPcs]
    /\ observed \in [Helpers -> Gen]
    /\ status \in [Helpers -> Statuses]
    /\ outcome \in [Lanes -> Statuses \cup {NotRun}]
    /\ runs \in [Lanes -> Nat]

\* worker_main between the acquire of a task's generation and the release of
\* its completion: the helper may touch the borrowed task.
HoldsTask(i) ==
    \/ wpc[i] = "fetch" /\ cmdLanes[i] # 0
    \/ wpc[i] \in {"task", "status", "complete"}

\* run_task and the lanes it has not yet waited for.
InRunTask == active /\ cpc # "idle"
Awaited(i) == InRunTask /\ i < nLanes /\ (cpc = "wait" => i >= ci)

\* ndarray-executor.h: "all lanes have stopped accessing the borrowed task
\* when it returns".  A helper holds a task only while the run_task call that
\* published it still has to wait for that helper, and it sees the n_lanes of
\* that call: also when the generation has wrapped since.
TaskBorrowedOnlyDuringCall ==
    \A i \in Helpers : HoldsTask(i) => Awaited(i) /\ cmdLanes[i] = nLanes

\* ndarray-executor.h: run is invoked "exactly once for each lane in
\* [0, n_lanes)".  No lane runs twice, and when run_task returns every lane
\* of the task, and no other, has run.
EachLaneRunsOnce ==
    /\ \A l \in Lanes : runs[l] <= 1
    /\ cpc = "wait" /\ ci >= nLanes =>
         \A l \in Lanes : runs[l] = IF l < nLanes THEN 1 ELSE 0

\* The plain fields of a slot have one user at a time: publish_command writes
\* task, data and n_lanes, and rearms the completion, only while the helper
\* is not between its acquire and its release, and run_task reads the status
\* only when the helper is not about to write it.
NoSlotRace ==
    /\ cpc \in {"fields", "release"} => wpc[ci] = "poll"
    /\ cpc = "rearm" /\ ci <= LastSlot => wpc[ci] = "poll" /\ observed[ci] = cmdGen[ci]
    /\ cpc = "wait" /\ ci < nLanes /\ doneGen[ci] = nextGen[ci] =>
         wpc[ci] = "poll" /\ doneStatus[ci] = outcome[ci]

\* deactivate, and activate when pthread_create fails part of the way, leave
\* no thread behind; an active group that is not in a call has every helper
\* polling with no command outstanding.
NoHelperLeaks ==
    cpc = "idle" =>
        IF active
        THEN \A i \in Helpers : wpc[i] = "poll" /\ observed[i] = cmdGen[i]
        ELSE nCreated = 0 /\ \A i \in Helpers : wpc[i] = "none"

\* The strengthening of the four invariants above that every step preserves.
\* Publishing(i): slot i is half published.  Published(i): its command is
\* released and the coordinator has yet to see it done.  Alive(i): its thread
\* is created and not joined.
Publishing(i) == cpc \in {"fields", "release"} /\ i = ci
Published(i) ==
    \/ cpc \in {"rearm", "fields", "release"} /\ i < ci
    \/ cpc = "lane0" /\ i < nLanes
    \/ cpc = "wait" /\ ci <= i /\ i < nLanes
    \/ cpc = "join" /\ ci <= i /\ i <= nCreated
Alive(i) == i <= nCreated /\ ~(cpc = "join" /\ i < ci)

CoordInv ==
    /\ active => nCreated = NHelpers /\ cpc \notin {"create", "await_started", "stop_await", "join"}
    /\ cpc = "idle" /\ ~active => nCreated = 0
    /\ cpc = "create" => nCreated = ci - 1
    /\ cpc = "await_started" => nCreated = NHelpers
    /\ cpc = "stop_await" => ci <= nCreated + 1
    /\ cpc \in {"rearm", "fields", "release"} => (active <=> nLanes # 0)
    /\ cpc = "rearm" => ci <= LastSlot + 1
    /\ cpc \in {"fields", "release"} => ci <= LastSlot
    /\ cpc \in {"lane0", "wait"} => active /\ nLanes # 0
    /\ cpc = "wait" => ci <= nLanes
    /\ cpc = "join" => nLanes = 0 /\ ci <= nCreated + 1

ThreadInv ==
    \A i \in Helpers :
        /\ Alive(i) <=> wpc[i] # "none"
        /\ wpc[i] \in {"boot", "starting"} =>
             cpc \in {"create", "await_started", "stop_await"} /\ ~started[i]
        /\ cpc \in {"await_started", "stop_await"} /\ i < ci => started[i]
        /\ wpc[i] \in {"fetch", "task", "status", "complete", "exited"} => Published(i)
        /\ wpc[i] \in {"task", "status", "complete"} => nLanes # 0
        /\ wpc[i] = "exited" => nLanes = 0

\* The hand-off of one slot: its generations tell the two threads apart.
SlotInv ==
    \A i \in Helpers :
        /\ nextGen[i] = IF Publishing(i) THEN Inc(cmdGen[i]) ELSE cmdGen[i]
        /\ Publishing(i) => doneGen[i] # nextGen[i]
        /\ cpc = "release" /\ i = ci => cmdLanes[i] = nLanes
        /\ Published(i) => cmdLanes[i] = nLanes
        /\ wpc[i] \notin {"none", "boot", "poll"} => observed[i] = cmdGen[i]
        /\ wpc[i] = "poll" /\ ~Published(i) => observed[i] = cmdGen[i]
        /\ Published(i) => (doneGen[i] = nextGen[i] <=> wpc[i] = "poll" /\ observed[i] = cmdGen[i])
        /\ Published(i) /\ doneGen[i] = nextGen[i] => nLanes # 0 /\ doneStatus[i] = outcome[i]
        /\ wpc[i] = "complete" => doneStatus[i] = outcome[i]
        /\ wpc[i] = "status" => status[i] = outcome[i]

HasRun(i) ==
    \/ cpc = "wait" /\ i < ci
    \/ Published(i) /\ wpc[i] = "poll" /\ observed[i] = cmdGen[i]
    \/ wpc[i] \in {"status", "complete"}

RunsInv ==
    /\ \A l \in Lanes : runs[l] <= 1
    /\ InRunTask =>
        /\ runs[0] = IF cpc = "wait" THEN 1 ELSE 0
        /\ \A i \in Helpers : runs[i] = IF HasRun(i) /\ i < nLanes THEN 1 ELSE 0

\* The inductive invariant of the group: where the threads of activate,
\* run_task and deactivate are, what each slot's hand-off says, and which
\* lanes have run.
IInv == TypeOK /\ CoordInv /\ ThreadInv /\ SlotInv /\ RunsInv

\* Every call returns: activate (also when it fails), run_task and deactivate
\* never wait for a helper that waits for them.
CallsReturn == cpc # "idle" ~> cpc = "idle"

\* The group is a fork-join executor: the lanes of a task run, each once,
\* between the call and its return, and the call returns the status of the
\* lowest lane that failed.
FJ == INSTANCE ForkJoin WITH
        phase <- IF ~active THEN "inactive" ELSE IF cpc = "idle" THEN "idle" ELSE "running",
        lanes <- IF InRunTask THEN nLanes ELSE 0,
        result <- IF InRunTask THEN "pending" ELSE result
ImplementsForkJoin == FJ!Spec
=============================================================================
