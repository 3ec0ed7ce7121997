------------------------------ MODULE ForkJoin ------------------------------
(***************************************************************************)
(* What struct spa_fgn_executor promises its caller, without threads,      *)
(* slots or generations (spa/include/spa/filter-graph/ndarray-executor.h): *)
(* a task started over n lanes runs once on each lane in [0, n), the call  *)
(* returns only when every lane is through with the borrowed task, and it  *)
(* reports the failure of the lowest failing lane.                         *)
(***************************************************************************)
EXTENDS Integers

CONSTANTS NHelpers,  \* persistent helper threads; lane 0 is the coordinator
          Errors,    \* error codes a lane or a rejected call may return
          EINVAL     \* the code of a rejected call

Ok == "ok"
NotRun == "not_run"
Pending == "pending"   \* the result while a task runs
Lanes == 0..NHelpers

VARIABLES phase,     \* "inactive", "idle" or "running"
          lanes,     \* n_lanes of the task that runs, 0 when none does
          outcome,   \* what each lane of the last task returned
          result     \* what the last call returned

vars == <<phase, lanes, outcome, result>>

\* The result of a task over n lanes: that of its lowest failing lane.
FirstError(out, n) ==
    IF \E l \in 0..n-1 : out[l] # Ok
    THEN out[CHOOSE l \in 0..n-1 : out[l] # Ok /\ \A k \in 0..l-1 : out[k] = Ok]
    ELSE Ok

Init ==
    /\ phase = "inactive"
    /\ lanes = 0
    /\ outcome = [l \in Lanes |-> NotRun]
    /\ result = Ok

Activate ==
    /\ phase = "inactive"
    /\ phase' = "idle"
    /\ UNCHANGED <<lanes, outcome, result>>

Deactivate ==
    /\ phase = "idle"
    /\ phase' = "inactive"
    /\ UNCHANGED <<lanes, outcome, result>>

Start(n) ==
    /\ phase = "idle"
    /\ phase' = "running"
    /\ lanes' = n
    /\ outcome' = [l \in Lanes |-> NotRun]
    /\ result' = Pending

\* A lane is run only if it has not run yet: at most once per task.
RunLane(l) ==
    /\ phase = "running"
    /\ l < lanes
    /\ outcome[l] = NotRun
    /\ \E s \in Errors \cup {Ok} : outcome' = [outcome EXCEPT ![l] = s]
    /\ UNCHANGED <<phase, lanes, result>>

Return ==
    /\ phase = "running"
    /\ \A l \in 0..lanes-1 : outcome[l] # NotRun
    /\ phase' = "idle"
    /\ result' = FirstError(outcome, lanes)
    /\ lanes' = 0
    /\ UNCHANGED outcome

Reject ==
    /\ phase # "running"
    /\ result' = EINVAL
    /\ UNCHANGED <<phase, lanes, outcome>>

Next ==
    \/ Activate \/ Deactivate \/ Return \/ Reject
    \/ \E n \in 1..NHelpers+1 : Start(n)
    \/ \E l \in Lanes : RunLane(l)

Spec == Init /\ [][Next]_vars
=============================================================================
