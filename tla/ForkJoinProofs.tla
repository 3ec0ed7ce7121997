--------------------------- MODULE ForkJoinProofs ---------------------------
(***************************************************************************)
(* The polling worker group of ndarray-executor.c implements the contract  *)
(* of struct spa_fgn_executor (ForkJoin), for every number of helpers,     *)
(* generation width and set of errors.                                     *)
(***************************************************************************)
EXTENDS WorkerGroupProofs

\* A lane has an outcome exactly when it has run in this task.
OutcomeInv == \A l \in Lanes : outcome[l] = NotRun <=> runs[l] = 0

\* What run_task's loop over the completions has accumulated when it comes to
\* lane ci: the status of the lowest lane below ci that failed.
LowestError(n) ==
    \/ result = Ok /\ \A k \in 0..n-1 : outcome[k] = Ok
    \/ \E l \in 0..n-1 : /\ outcome[l] # Ok /\ result = outcome[l]
                         /\ \A k \in 0..l-1 : outcome[k] = Ok
ResultInv == cpc = "wait" => LowestError(ci)

RefInv == IInv /\ OutcomeInv /\ ResultInv

\* A new group has run nothing and accumulated nothing.
LEMMA InitRefInv == Init => RefInv
<1> SUFFICES ASSUME Init PROVE RefInv
    OBVIOUS
<1>1. IInv
    BY InitIInv
<1>2. OutcomeInv /\ ResultInv
    BY DEF Init, OutcomeInv, ResultInv
<1>3. QED BY <1>1, <1>2 DEF RefInv

\* A helper about to run its lane does so for the task run_task still waits
\* for, and for the first time.
LEMMA HelperAtTask ==
    ASSUME IInv, NEW w \in Helpers, wpc[w] = "task"
    PROVE  /\ InRunTask /\ w \in Lanes /\ w # 0 /\ w < nLanes /\ runs[w] = 0
           /\ cpc = "wait" => ci <= w
<1> USE NHelpersAssumption DEF IInv
<1>1. /\ w \in Lanes /\ w # 0 /\ Published(w) /\ nLanes # 0
      /\ InRunTask /\ w < nLanes /\ ~HasRun(w)
    BY DEF TypeOK, CoordInv, ThreadInv, Published, HasRun, InRunTask, LastSlot, Helpers, Lanes
<1>2. runs[w] = 0
    BY <1>1 DEF RunsInv
<1>3. cpc = "wait" => ci <= w
    BY <1>1 DEF Published
<1>4. QED BY <1>1, <1>2, <1>3

\* The lane whose completion run_task sees has run, and its slot holds what
\* the lane returned.
LEMMA CompletionSeen ==
    ASSUME IInv, cpc = "wait", ci < nLanes, doneGen[ci] = nextGen[ci]
    PROVE  ci \in Helpers /\ doneStatus[ci] = outcome[ci]
<1> USE NHelpersAssumption DEF IInv
<1>1. ci \in Helpers
    BY DEF TypeOK, Helpers
<1>2. Published(ci)
    BY DEF Published, TypeOK
<1>3. QED BY <1>1, <1>2 DEF SlotInv

\* Every step preserves the accumulated result: only the loop itself moves ci,
\* and a helper that still runs has a lane the loop has not come to.
LEMMA NextRefInv == RefInv /\ [Next]_vars => RefInv'
<1> USE NHelpersAssumption, ErrorsAssumption
<1> SUFFICES ASSUME RefInv, [Next]_vars PROVE RefInv'
    OBVIOUS
<1>0. IInv /\ IInv' /\ TypeOK /\ OutcomeInv /\ ResultInv
    BY NextIInv DEF RefInv, IInv
<1> SUFFICES OutcomeInv' /\ ResultInv'
    BY <1>0 DEF RefInv
<1>1. ASSUME NEW n \in 0..NHelpers+2, NEW valid \in BOOLEAN, RunTask(n, valid)
      PROVE  OutcomeInv' /\ ResultInv'
    BY <1>1 DEF RunTask, OutcomeInv, ResultInv
<1>2. CASE RunLane0
  <2>1. OutcomeInv'
    <3>1. PICK s \in Statuses : outcome' = [outcome EXCEPT ![0] = s]
        BY <1>2 DEF RunLane0, Statuses
    <3>2. runs' = [runs EXCEPT ![0] = runs[0] + 1] /\ s # NotRun /\ 0 \in Lanes
        BY <1>2 DEF RunLane0, Statuses, Lanes, Ok, NotRun
    <3>3. QED BY <1>0, <3>1, <3>2 DEF OutcomeInv, TypeOK, Lanes
  <2>2. ci' = 1 /\ result' = outcome'[0]
    BY <1>0, <1>2 DEF RunLane0, TypeOK, Lanes
  <2>3. LowestError(ci)'
    BY <2>2 DEF LowestError
  <2>4. QED BY <2>1, <2>3 DEF ResultInv
<1>3. CASE SawCompletion
  <2>1. ci \in Helpers /\ doneStatus[ci] = outcome[ci] /\ LowestError(ci)
    BY <1>0, <1>3, CompletionSeen DEF SawCompletion, ResultInv
  <2>2. /\ ci' = ci + 1 /\ outcome' = outcome /\ runs' = runs
        /\ result' = IF result = Ok /\ outcome[ci] # Ok THEN outcome[ci] ELSE result
    BY <1>3, <2>1 DEF SawCompletion, history
  <2>3. LowestError(ci)'
    <3>1. CASE result = Ok /\ \A k \in 0..ci-1 : outcome[k] = Ok
      BY <2>1, <2>2, <3>1 DEF LowestError, Helpers
    <3>2. ASSUME NEW l \in 0..ci-1, outcome[l] # Ok, result = outcome[l],
                 \A k \in 0..l-1 : outcome[k] = Ok
          PROVE  LowestError(ci)'
      <4>1. l \in 0..ci'-1 /\ result' = outcome'[l]
        BY <2>1, <2>2, <3>2 DEF Helpers
      <4>2. QED BY <2>2, <3>2, <4>1 DEF LowestError
    <3>3. QED BY <2>1, <3>1, <3>2 DEF LowestError
  <2>4. QED BY <1>0, <2>2, <2>3 DEF OutcomeInv, ResultInv
<1>4. ASSUME NEW w \in Helpers, WorkerRun(w)
      PROVE  OutcomeInv' /\ ResultInv'
  <2>1. w \in Lanes /\ (cpc = "wait" => ci <= w) /\ ci \in Nat
    BY <1>0, <1>4, HelperAtTask DEF WorkerRun, TypeOK
  <2>2. PICK s \in Statuses : outcome' = [outcome EXCEPT ![w] = s]
    BY <1>4 DEF WorkerRun, Statuses
  <2>3. /\ runs' = [runs EXCEPT ![w] = runs[w] + 1] /\ s # NotRun
        /\ UNCHANGED <<cpc, ci, result>>
    BY <1>4 DEF WorkerRun, Statuses, Ok, NotRun, coordVars
  <2>4. OutcomeInv'
    BY <1>0, <2>1, <2>2, <2>3 DEF OutcomeInv, TypeOK, Lanes
  <2>5. ASSUME cpc = "wait" PROVE LowestError(ci)'
    <3>1. \A k \in 0..ci-1 : outcome'[k] = outcome[k]
      <4>1. ASSUME NEW k \in 0..ci-1 PROVE outcome'[k] = outcome[k]
        <5>1. k # w /\ k \in Lanes
          BY <2>1, <2>5 DEF Lanes
        <5>2. QED BY <1>0, <2>2, <5>1 DEF TypeOK
      <4>2. QED BY <4>1
    <3>2. LowestError(ci)
      BY <1>0, <2>5 DEF ResultInv
    <3>3. QED BY <2>1, <2>3, <3>1, <3>2 DEF LowestError
  <2>6. QED BY <2>3, <2>4, <2>5 DEF ResultInv
<1>5. ASSUME UNCHANGED history, cpc' # "wait" \/ UNCHANGED <<cpc, ci, result>>
      PROVE  OutcomeInv' /\ ResultInv'
    BY <1>0, <1>5 DEF history, OutcomeInv, ResultInv, LowestError
<1>6. ASSUME NEW w \in Helpers, Worker(w), ~WorkerRun(w)
      PROVE  OutcomeInv' /\ ResultInv'
  <2>1. UNCHANGED history /\ UNCHANGED <<cpc, ci, result>>
    BY <1>6 DEF Worker, WorkerBoot, WorkerStarted, WorkerPoll, WorkerFetch, WorkerStatus,
                WorkerComplete, coordVars
  <2>2. QED BY <1>5, <2>1
<1>7. CASE Coordinator /\ ~RunLane0 /\ ~SawCompletion
  <2>1. UNCHANGED history /\ cpc' # "wait"
    BY <1>7 DEF Coordinator, CreateWorker, CreateFails, CreatedAll, SawStarted, Activated,
                StopPublishing, Join, Joined, PublishRearm, PublishFields,
                PublishGeneration, PublishedAll, RunReturns
  <2>2. QED BY <1>5, <2>1
<1>8. ASSUME NEW n \in 0..NHelpers+2, NEW valid \in BOOLEAN, RunRejected(n, valid)
      PROVE  OutcomeInv' /\ ResultInv'
  <2>1. UNCHANGED history /\ cpc' # "wait"
    BY <1>8 DEF RunRejected
  <2>2. QED BY <1>5, <2>1
<1>9. CASE Activate \/ Deactivate
  <2>1. UNCHANGED history /\ cpc' # "wait"
    BY <1>9 DEF Activate, Deactivate
  <2>2. QED BY <1>5, <2>1
<1>10. CASE UNCHANGED vars
  <2>1. UNCHANGED history /\ UNCHANGED <<cpc, ci, result>>
    BY <1>10 DEF vars, coordVars
  <2>2. QED BY <1>5, <2>1
<1>11. QED
    BY <1>1, <1>2, <1>3, <1>4, <1>6, <1>7, <1>8, <1>9, <1>10 DEF Next, Calls

\* When the loop has come to the end, what it accumulated is the contract's
\* result: FirstError chooses the one lane that is the lowest to have failed.
LEMMA LoopReturnsFirstError ==
    ASSUME NEW n \in Nat, LowestError(n)
    PROVE  result = FJ!FirstError(outcome, n)
<1>1. CASE result = Ok /\ \A k \in 0..n-1 : outcome[k] = Ok
    BY <1>1 DEF FJ!FirstError, FJ!Ok, Ok
<1>2. ASSUME NEW l \in 0..n-1, outcome[l] # Ok, result = outcome[l],
             \A k \in 0..l-1 : outcome[k] = Ok
      PROVE  result = FJ!FirstError(outcome, n)
  <2> DEFINE Lowest(m) == outcome[m] # Ok /\ \A k \in 0..m-1 : outcome[k] = Ok
  <2>1. \A m \in 0..n-1 : Lowest(m) => m = l
    <3>1. ASSUME NEW m \in 0..n-1, Lowest(m), m # l PROVE FALSE
      <4>1. CASE m < l
        <5>1. m \in 0..l-1 BY <4>1
        <5>2. QED BY <1>2, <3>1, <5>1
      <4>2. CASE l < m
        <5>1. l \in 0..m-1 BY <4>2
        <5>2. QED BY <1>2, <3>1, <5>1
      <4>3. QED BY <3>1, <4>1, <4>2
    <3>2. QED BY <3>1
  <2>2. Lowest(l)
    BY <1>2
  <2>3. (CHOOSE m \in 0..n-1 : Lowest(m)) = l
    <3> HIDE DEF Lowest
    <3>1. QED BY <2>1, <2>2
  <2>4. FJ!FirstError(outcome, n) = outcome[CHOOSE m \in 0..n-1 : Lowest(m)]
    BY <1>2 DEF FJ!FirstError, FJ!Ok, Ok
  <2>5. QED BY <1>2, <2>3, <2>4
<1>3. QED BY <1>1, <1>2 DEF LowestError

\* A new group is an inactive executor that has run nothing.
LEMMA InitRefines == Init => FJ!Init
    BY DEF Init, FJ!Init, InRunTask, FJ!Lanes, FJ!NotRun, FJ!Ok, Lanes, NotRun, Ok

\* Every step of the group is a step of the contract or changes nothing the
\* contract speaks of.
LEMMA NextRefines == RefInv /\ [Next]_vars => [FJ!Next]_(FJ!vars)
<1> USE NHelpersAssumption, ErrorsAssumption
<1> SUFFICES ASSUME RefInv, [Next]_vars PROVE FJ!Next \/ UNCHANGED FJ!vars
    OBVIOUS
<1>0. IInv /\ TypeOK /\ CoordInv /\ RunsInv /\ OutcomeInv /\ ResultInv
    BY DEF RefInv, IInv
<1>1. CASE Activated
  <2>1. ~active /\ active' /\ cpc' = "idle" /\ UNCHANGED <<result, outcome>>
    BY <1>0, <1>1 DEF Activated, CoordInv, history
  <2>2. FJ!Activate
    BY <2>1 DEF FJ!Activate, InRunTask
  <2>3. QED BY <2>2 DEF FJ!Next
<1>2. CASE Deactivate
  <2>1. FJ!Deactivate
    BY <1>2 DEF Deactivate, FJ!Deactivate, InRunTask, history
  <2>2. QED BY <2>1 DEF FJ!Next
<1>3. ASSUME NEW n \in 0..NHelpers+2, NEW valid \in BOOLEAN, RunTask(n, valid)
      PROVE  FJ!Next
  <2>1. FJ!Start(n)
    BY <1>3 DEF RunTask, FJ!Start, InRunTask, FJ!Lanes, FJ!NotRun, FJ!Pending, Lanes, NotRun
  <2>2. n \in 1..NHelpers+1
    BY <1>3 DEF RunTask
  <2>3. QED BY <2>1, <2>2 DEF FJ!Next
<1>4. ASSUME NEW n \in 0..NHelpers+2, NEW valid \in BOOLEAN, RunRejected(n, valid)
      PROVE  FJ!Next
  <2>1. FJ!Reject
    BY <1>4 DEF RunRejected, FJ!Reject, InRunTask, history
  <2>2. QED BY <2>1 DEF FJ!Next
<1>5. CASE RunLane0
  <2>1. active /\ nLanes \in Nat \ {0} /\ runs[0] = 0 /\ 0 \in Lanes
    BY <1>0, <1>5 DEF RunLane0, CoordInv, RunsInv, InRunTask, TypeOK, Lanes
  <2>2. outcome[0] = NotRun
    BY <1>0, <2>1 DEF OutcomeInv
  <2>3. /\ InRunTask /\ InRunTask' /\ UNCHANGED <<active, nLanes>>
        /\ cpc # "idle" /\ cpc' # "idle"
        /\ \E s \in Errors \cup {Ok} : outcome' = [outcome EXCEPT ![0] = s]
    BY <1>5, <2>1 DEF RunLane0, InRunTask
  <2>4. FJ!RunLane(0)
    <3>1. 0 < (IF InRunTask THEN nLanes ELSE 0)
      BY <2>1, <2>3
    <3>2. UNCHANGED <<IF ~active THEN "inactive" ELSE IF cpc = "idle" THEN "idle" ELSE "running",
                      IF InRunTask THEN nLanes ELSE 0, IF InRunTask THEN "pending" ELSE result>>
      BY <2>1, <2>3
    <3>3. QED BY <2>1, <2>2, <2>3, <3>1, <3>2, Zenon DEF FJ!RunLane, FJ!NotRun, FJ!Ok, NotRun, Ok
  <2>5. QED BY <2>1, <2>4 DEF FJ!Next, FJ!Lanes, Lanes
<1>6. CASE RunReturns
  <2>1. active /\ ci = nLanes /\ nLanes \in 1..NHelpers+1
    BY <1>0, <1>6 DEF RunReturns, CoordInv, TypeOK
  <2>2. result = FJ!FirstError(outcome, nLanes)
    BY <1>0, <1>6, <2>1, LoopReturnsFirstError DEF RunReturns, ResultInv
  <2>3. ASSUME NEW l \in 0..nLanes-1 PROVE outcome[l] # NotRun
    <3>1. l \in Lanes /\ l < nLanes
      BY <2>1 DEF Lanes
    <3>2. EachLaneRunsOnce
      BY <1>0, IInvLanes
    <3>3. runs[l] = 1
      BY <1>6, <3>1, <3>2 DEF RunReturns, EachLaneRunsOnce
    <3>4. QED BY <1>0, <3>1, <3>3 DEF OutcomeInv
  <2>4. FJ!Return
    BY <1>6, <2>1, <2>2, <2>3 DEF RunReturns, FJ!Return, InRunTask, FJ!NotRun, NotRun, history
  <2>5. QED BY <2>4 DEF FJ!Next
<1>7. ASSUME NEW w \in Helpers, WorkerRun(w)
      PROVE  FJ!Next
  <2>1. InRunTask /\ w \in Lanes /\ w < nLanes /\ outcome[w] = NotRun
    BY <1>0, <1>7, HelperAtTask DEF WorkerRun, OutcomeInv
  <2>2. FJ!RunLane(w)
    BY <1>7, <2>1 DEF WorkerRun, FJ!RunLane, InRunTask, FJ!NotRun, FJ!Ok, NotRun, Ok, coordVars
  <2>3. QED BY <2>1, <2>2 DEF FJ!Next, FJ!Lanes, Lanes
<1>8. ASSUME ~active, ~active', UNCHANGED <<result, outcome>>
      PROVE  UNCHANGED FJ!vars
    BY <1>8 DEF FJ!vars, InRunTask
<1>9. ASSUME active, active', cpc # "idle", cpc' # "idle", UNCHANGED <<nLanes, outcome>>
      PROVE  UNCHANGED FJ!vars
    BY <1>9 DEF FJ!vars, InRunTask
<1>10. CASE Activate \/ CreateWorker \/ CreateFails \/ CreatedAll \/ SawStarted
            \/ StopPublishing \/ Join \/ Joined
  <2>1. ~active /\ ~active' /\ UNCHANGED <<result, outcome>>
    BY <1>0, <1>10 DEF Activate, CreateWorker, CreateFails, CreatedAll, SawStarted,
                       StopPublishing, Join, Joined, CoordInv, history
  <2>2. QED BY <1>8, <2>1
<1>11. CASE PublishRearm \/ PublishFields \/ PublishGeneration \/ PublishedAll
  <2>1. cpc # "idle" /\ cpc' # "idle" /\ UNCHANGED <<active, nLanes, result, outcome>>
    BY <1>11 DEF PublishRearm, PublishFields, PublishGeneration, PublishedAll, history
  <2>2. QED BY <1>8, <1>9, <2>1
<1>12. CASE SawCompletion
  <2>1. active /\ active' /\ cpc # "idle" /\ cpc' # "idle" /\ UNCHANGED <<nLanes, outcome>>
    BY <1>0, <1>12 DEF SawCompletion, CoordInv, history
  <2>2. QED BY <1>9, <2>1
<1>13. ASSUME UNCHANGED <<coordVars, history>>
       PROVE  UNCHANGED FJ!vars
    BY <1>13 DEF FJ!vars, InRunTask, coordVars, history
<1>14. ASSUME NEW w \in Helpers, Worker(w), ~WorkerRun(w)
       PROVE  UNCHANGED FJ!vars
  <2>1. UNCHANGED <<coordVars, history>>
    BY <1>14 DEF Worker, WorkerBoot, WorkerStarted, WorkerPoll, WorkerFetch, WorkerStatus,
                 WorkerComplete
  <2>2. QED BY <1>13, <2>1
<1>15. CASE UNCHANGED vars
    BY <1>13, <1>15 DEF vars
<1>16. QED
    BY <1>1, <1>2, <1>3, <1>4, <1>5, <1>6, <1>7, <1>10, <1>11, <1>12, <1>14, <1>15
    DEF Next, Calls, Coordinator

\* The worker group implements the executor's contract (ndarray-executor.h):
\* between the call and its return every lane of the task runs, once, no lane
\* runs outside a call, and the call returns the status of the lowest lane
\* that failed.
THEOREM GroupImplementsForkJoin == Spec => ImplementsForkJoin
<1>1. Spec => []RefInv
    BY InitRefInv, NextRefInv, PTL DEF Spec
<1>2. QED BY <1>1, InitRefines, NextRefines, PTL DEF Spec, ImplementsForkJoin, FJ!Spec
=============================================================================
