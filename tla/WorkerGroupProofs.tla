-------------------------- MODULE WorkerGroupProofs --------------------------
(***************************************************************************)
(* The worker group's hand-off is correct for every number of helpers and  *)
(* every generation width, also across the wrap of a generation.           *)
(***************************************************************************)
EXTENDS WorkerGroup, TLAPS

\* Generations: ++ and - 1u stay in range and never give the value back.
LEMMA GenArithmetic ==
    ASSUME NEW g \in Gen
    PROVE  /\ Inc(g) \in Gen /\ Inc(g) # g
           /\ Dec(g) \in Gen /\ Dec(g) # g
<1>1. CASE g = GenMod - 1
  <2>1. Inc(g) = 0
    BY <1>1, GenModAssumption DEF Inc, Gen
  <2>2. Dec(g) = g - 1
    BY <1>1, GenModAssumption DEF Dec, Gen
  <2>3. QED BY <1>1, <2>1, <2>2, GenModAssumption DEF Gen
<1>2. CASE g # GenMod - 1
  <2>1. Inc(g) = g + 1
    BY <1>2, GenModAssumption DEF Inc, Gen
  <2>2. Dec(g) = IF g = 0 THEN GenMod - 1 ELSE g - 1
    BY <1>2, GenModAssumption DEF Dec, Gen
  <2>3. QED BY <1>2, <2>1, <2>2, GenModAssumption DEF Gen
<1>3. QED BY <1>1, <1>2

\* spa_fgn_worker_group_new returns a group that satisfies the inductive
\* invariant.
LEMMA InitIInv == Init => IInv
<1> USE NHelpersAssumption, GenModAssumption
<1> SUFFICES ASSUME Init PROVE IInv
    OBVIOUS
<1>1. TypeOK
  <2>1. 0 \in Gen /\ 0 \in 0..NHelpers+1 /\ 0 \in Lanes /\ 1 \in 1..NHelpers+1
    BY DEF Gen, Lanes
  <2>2. QED BY <2>1 DEF Init, TypeOK, CoordPcs, WorkerPcs, Statuses
<1>2. CoordInv /\ ThreadInv /\ SlotInv /\ RunsInv
    BY DEF Init, CoordInv, ThreadInv, SlotInv, RunsInv, Published, Publishing, Alive, HasRun,
           InRunTask, Helpers, Lanes
<1>3. QED BY <1>1, <1>2 DEF IInv


\* Every step of a caller, of the coordinator or of a helper preserves the
\* inductive invariant.
LEMMA NextIInv == IInv /\ [Next]_vars => IInv'
<1> USE NHelpersAssumption, GenModAssumption
<1> SUFFICES ASSUME IInv, [Next]_vars PROVE IInv'
    OBVIOUS
<1> USE DEF IInv

<1>1. CASE Activate
  <2> USE <1>1 DEF Activate, coordVars, slotVars, workerVars, history
  <2>1. TypeOK'
      BY GenArithmetic DEF TypeOK, CoordInv, LastSlot, CoordPcs, WorkerPcs, Statuses, Helpers, Lanes
  <2>2. CoordInv'
      BY DEF TypeOK, CoordInv, LastSlot, Helpers, Lanes
  <2>3. ThreadInv'
      BY DEF TypeOK, CoordInv, ThreadInv, SlotInv, LastSlot, Published, Publishing, Alive, Helpers, Lanes
  <2>4. SlotInv'
      BY GenArithmetic DEF TypeOK, CoordInv, ThreadInv, SlotInv, LastSlot, Published, Publishing, Alive, Helpers, Lanes
  <2>5. RunsInv'
      BY DEF RunsInv, HasRun, InRunTask, TypeOK, CoordInv, ThreadInv, SlotInv, LastSlot, Published, Publishing, Alive, Helpers, Lanes
  <2>6. QED BY <2>1, <2>2, <2>3, <2>4, <2>5 DEF IInv

<1>2. CASE CreateWorker
  <2> USE <1>2 DEF CreateWorker, coordVars, slotVars, workerVars, history
  <2>1. TypeOK'
      BY GenArithmetic DEF TypeOK, CoordInv, LastSlot, CoordPcs, WorkerPcs, Statuses, Helpers, Lanes
  <2>2. CoordInv'
      BY DEF TypeOK, CoordInv, LastSlot, Helpers, Lanes
  <2>3. ThreadInv'
      BY DEF TypeOK, CoordInv, ThreadInv, SlotInv, LastSlot, Published, Publishing, Alive, Helpers, Lanes
  <2>4. SlotInv'
      BY GenArithmetic DEF TypeOK, CoordInv, ThreadInv, SlotInv, LastSlot, Published, Publishing, Alive, Helpers, Lanes
  <2>5. RunsInv'
      BY DEF RunsInv, HasRun, InRunTask, TypeOK, CoordInv, ThreadInv, SlotInv, LastSlot, Published, Publishing, Alive, Helpers, Lanes
  <2>6. QED BY <2>1, <2>2, <2>3, <2>4, <2>5 DEF IInv

<1>3. CASE CreateFails
  <2> USE <1>3 DEF CreateFails, coordVars, slotVars, workerVars, history
  <2>1. TypeOK'
      BY GenArithmetic DEF TypeOK, CoordInv, LastSlot, CoordPcs, WorkerPcs, Statuses, Helpers, Lanes
  <2>2. CoordInv'
      BY DEF TypeOK, CoordInv, LastSlot, Helpers, Lanes
  <2>3. ThreadInv'
      BY DEF TypeOK, CoordInv, ThreadInv, SlotInv, LastSlot, Published, Publishing, Alive, Helpers, Lanes
  <2>4. SlotInv'
      BY GenArithmetic DEF TypeOK, CoordInv, ThreadInv, SlotInv, LastSlot, Published, Publishing, Alive, Helpers, Lanes
  <2>5. RunsInv'
      BY DEF RunsInv, HasRun, InRunTask, TypeOK, CoordInv, ThreadInv, SlotInv, LastSlot, Published, Publishing, Alive, Helpers, Lanes
  <2>6. QED BY <2>1, <2>2, <2>3, <2>4, <2>5 DEF IInv

<1>4. CASE CreatedAll
  <2> USE <1>4 DEF CreatedAll, coordVars, slotVars, workerVars, history
  <2>1. TypeOK'
      BY GenArithmetic DEF TypeOK, CoordInv, LastSlot, CoordPcs, WorkerPcs, Statuses, Helpers, Lanes
  <2>2. CoordInv'
      BY DEF TypeOK, CoordInv, LastSlot, Helpers, Lanes
  <2>3. ThreadInv'
      BY DEF TypeOK, CoordInv, ThreadInv, SlotInv, LastSlot, Published, Publishing, Alive, Helpers, Lanes
  <2>4. SlotInv'
      BY GenArithmetic DEF TypeOK, CoordInv, ThreadInv, SlotInv, LastSlot, Published, Publishing, Alive, Helpers, Lanes
  <2>5. RunsInv'
      BY DEF RunsInv, HasRun, InRunTask, TypeOK, CoordInv, ThreadInv, SlotInv, LastSlot, Published, Publishing, Alive, Helpers, Lanes
  <2>6. QED BY <2>1, <2>2, <2>3, <2>4, <2>5 DEF IInv

<1>5. CASE SawStarted
  <2> USE <1>5 DEF SawStarted, coordVars, slotVars, workerVars, history
  <2>1. TypeOK'
      BY GenArithmetic DEF TypeOK, CoordInv, LastSlot, CoordPcs, WorkerPcs, Statuses, Helpers, Lanes
  <2>2. CoordInv'
      BY DEF TypeOK, CoordInv, LastSlot, Helpers, Lanes
  <2>3. ThreadInv'
    <3> SUFFICES ASSUME NEW i \in Helpers,
                        cpc \in {"await_started", "stop_await"}, i < ci + 1
                 PROVE  started[i]
      BY DEF TypeOK, ThreadInv, Published, Alive, Helpers, Lanes
    <3>1. i < ci \/ i = ci
      BY DEF TypeOK, Helpers
    <3>2. QED BY <3>1 DEF ThreadInv
  <2>4. SlotInv'
      BY GenArithmetic DEF TypeOK, CoordInv, ThreadInv, SlotInv, LastSlot, Published, Publishing, Alive, Helpers, Lanes
  <2>5. RunsInv'
      BY DEF RunsInv, HasRun, InRunTask, TypeOK, CoordInv, ThreadInv, SlotInv, LastSlot, Published, Publishing, Alive, Helpers, Lanes
  <2>6. QED BY <2>1, <2>2, <2>3, <2>4, <2>5 DEF IInv

<1>6. CASE Activated
  <2> USE <1>6 DEF Activated, coordVars, slotVars, workerVars, history
  <2>1. TypeOK'
      BY GenArithmetic DEF TypeOK, CoordInv, LastSlot, CoordPcs, WorkerPcs, Statuses, Helpers, Lanes
  <2>2. CoordInv'
      BY DEF TypeOK, CoordInv, LastSlot, Helpers, Lanes
  <2>3. ThreadInv'
      BY DEF TypeOK, CoordInv, ThreadInv, SlotInv, LastSlot, Published, Publishing, Alive, Helpers, Lanes
  <2>4. SlotInv'
      BY GenArithmetic DEF TypeOK, CoordInv, ThreadInv, SlotInv, LastSlot, Published, Publishing, Alive, Helpers, Lanes
  <2>5. RunsInv'
      BY DEF RunsInv, HasRun, InRunTask, TypeOK, CoordInv, ThreadInv, SlotInv, LastSlot, Published, Publishing, Alive, Helpers, Lanes
  <2>6. QED BY <2>1, <2>2, <2>3, <2>4, <2>5 DEF IInv

<1>7. CASE Deactivate
  <2> USE <1>7 DEF Deactivate, coordVars, slotVars, workerVars, history
  <2>1. TypeOK'
    <3>1. active' \in BOOLEAN
      BY Zenon
    <3>2. ci' \in 1..NHelpers+1 /\ cpc' \in CoordPcs
      BY DEF CoordPcs
    <3>3. QED BY <3>1, <3>2 DEF TypeOK
  <2>2. CoordInv'
      BY DEF TypeOK, CoordInv, LastSlot, Helpers, Lanes
  <2>3. ThreadInv'
      BY DEF TypeOK, CoordInv, ThreadInv, SlotInv, LastSlot, Published, Publishing, Alive, Helpers, Lanes
  <2>4. SlotInv'
      BY GenArithmetic DEF TypeOK, CoordInv, ThreadInv, SlotInv, LastSlot, Published, Publishing, Alive, Helpers, Lanes
  <2>5. RunsInv'
      BY DEF RunsInv, HasRun, InRunTask, TypeOK, CoordInv, ThreadInv, SlotInv, LastSlot, Published, Publishing, Alive, Helpers, Lanes
  <2>6. QED BY <2>1, <2>2, <2>3, <2>4, <2>5 DEF IInv

<1>8. CASE StopPublishing
  <2> USE <1>8 DEF StopPublishing, coordVars, slotVars, workerVars, history
  <2>1. TypeOK'
      BY GenArithmetic DEF TypeOK, CoordInv, LastSlot, CoordPcs, WorkerPcs, Statuses, Helpers, Lanes
  <2>2. CoordInv'
      BY DEF TypeOK, CoordInv, LastSlot, Helpers, Lanes
  <2>3. ThreadInv'
      BY DEF TypeOK, CoordInv, ThreadInv, SlotInv, LastSlot, Published, Publishing, Alive, Helpers, Lanes
  <2>4. SlotInv'
      BY GenArithmetic DEF TypeOK, CoordInv, ThreadInv, SlotInv, LastSlot, Published, Publishing, Alive, Helpers, Lanes
  <2>5. RunsInv'
      BY DEF RunsInv, HasRun, InRunTask, TypeOK, CoordInv, ThreadInv, SlotInv, LastSlot, Published, Publishing, Alive, Helpers, Lanes
  <2>6. QED BY <2>1, <2>2, <2>3, <2>4, <2>5 DEF IInv

<1>9. CASE Join
  <2> USE <1>9 DEF Join, coordVars, slotVars, workerVars, history
  <2>1. TypeOK'
      BY GenArithmetic DEF TypeOK, CoordInv, LastSlot, CoordPcs, WorkerPcs, Statuses, Helpers, Lanes
  <2>2. CoordInv'
      BY DEF TypeOK, CoordInv, LastSlot, Helpers, Lanes
  <2>3. ThreadInv'
      BY DEF TypeOK, CoordInv, ThreadInv, SlotInv, LastSlot, Published, Publishing, Alive, Helpers, Lanes
  <2>4. SlotInv'
      BY GenArithmetic DEF TypeOK, CoordInv, ThreadInv, SlotInv, LastSlot, Published, Publishing, Alive, Helpers, Lanes
  <2>5. RunsInv'
      BY DEF RunsInv, HasRun, InRunTask, TypeOK, CoordInv, ThreadInv, SlotInv, LastSlot, Published, Publishing, Alive, Helpers, Lanes
  <2>6. QED BY <2>1, <2>2, <2>3, <2>4, <2>5 DEF IInv

<1>10. CASE Joined
  <2> USE <1>10 DEF Joined, coordVars, slotVars, workerVars, history
  <2>1. TypeOK'
      BY GenArithmetic DEF TypeOK, CoordInv, LastSlot, CoordPcs, WorkerPcs, Statuses, Helpers, Lanes
  <2>2. CoordInv'
      BY DEF TypeOK, CoordInv, LastSlot, Helpers, Lanes
  <2>3. ThreadInv'
      BY DEF TypeOK, CoordInv, ThreadInv, SlotInv, LastSlot, Published, Publishing, Alive, Helpers, Lanes
  <2>4. SlotInv'
      BY GenArithmetic DEF TypeOK, CoordInv, ThreadInv, SlotInv, LastSlot, Published, Publishing, Alive, Helpers, Lanes
  <2>5. RunsInv'
      BY DEF RunsInv, HasRun, InRunTask, TypeOK, CoordInv, ThreadInv, SlotInv, LastSlot, Published, Publishing, Alive, Helpers, Lanes
  <2>6. QED BY <2>1, <2>2, <2>3, <2>4, <2>5 DEF IInv

<1>11. CASE PublishRearm
  <2> USE <1>11 DEF PublishRearm, coordVars, slotVars, workerVars, history
  <2>1. TypeOK'
      BY GenArithmetic DEF TypeOK, CoordInv, LastSlot, CoordPcs, WorkerPcs, Statuses, Helpers, Lanes
  <2>2. CoordInv'
      BY DEF TypeOK, CoordInv, LastSlot, Helpers, Lanes
  <2>3. ThreadInv'
      BY DEF TypeOK, CoordInv, ThreadInv, SlotInv, LastSlot, Published, Publishing, Alive, Helpers, Lanes
  <2>4. SlotInv'
      BY GenArithmetic DEF TypeOK, CoordInv, ThreadInv, SlotInv, LastSlot, Published, Publishing, Alive, Helpers, Lanes
  <2>5. RunsInv'
      BY DEF RunsInv, HasRun, InRunTask, TypeOK, CoordInv, ThreadInv, SlotInv, LastSlot, Published, Publishing, Alive, Helpers, Lanes
  <2>6. QED BY <2>1, <2>2, <2>3, <2>4, <2>5 DEF IInv

<1>12. CASE PublishFields
  <2> USE <1>12 DEF PublishFields, coordVars, slotVars, workerVars, history
  <2>1. TypeOK'
      BY GenArithmetic DEF TypeOK, CoordInv, LastSlot, CoordPcs, WorkerPcs, Statuses, Helpers, Lanes
  <2>2. CoordInv'
      BY DEF TypeOK, CoordInv, LastSlot, Helpers, Lanes
  <2>3. ThreadInv'
      BY DEF TypeOK, CoordInv, ThreadInv, SlotInv, LastSlot, Published, Publishing, Alive, Helpers, Lanes
  <2>4. SlotInv'
      BY GenArithmetic DEF TypeOK, CoordInv, ThreadInv, SlotInv, LastSlot, Published, Publishing, Alive, Helpers, Lanes
  <2>5. RunsInv'
      BY DEF RunsInv, HasRun, InRunTask, TypeOK, CoordInv, ThreadInv, SlotInv, LastSlot, Published, Publishing, Alive, Helpers, Lanes
  <2>6. QED BY <2>1, <2>2, <2>3, <2>4, <2>5 DEF IInv

<1>13. CASE PublishGeneration
  <2> USE <1>13 DEF PublishGeneration, coordVars, slotVars, workerVars, history
  <2>1. TypeOK'
      BY GenArithmetic DEF TypeOK, CoordInv, LastSlot, CoordPcs, WorkerPcs, Statuses, Helpers, Lanes
  <2>2. CoordInv'
      BY DEF TypeOK, CoordInv, LastSlot, Helpers, Lanes
  <2>3. ThreadInv'
      BY DEF TypeOK, CoordInv, ThreadInv, SlotInv, LastSlot, Published, Publishing, Alive, Helpers, Lanes
  <2>a. ci \in Helpers /\ wpc[ci] = "poll" /\ observed[ci] = cmdGen[ci]
    <3>1. ci \in Helpers /\ Alive(ci) /\ ~Published(ci)
      BY DEF TypeOK, CoordInv, LastSlot, Alive, Published, Helpers, Lanes
    <3>2. wpc[ci] \in WorkerPcs /\ wpc[ci] \notin {"none", "boot", "starting"}
      BY <3>1 DEF TypeOK, ThreadInv
    <3>3. wpc[ci] = "poll"
      BY <3>1, <3>2 DEF ThreadInv, WorkerPcs
    <3>4. QED BY <3>1, <3>3 DEF SlotInv
  <2>b. cmdGen'[ci] = nextGen[ci] /\ nextGen[ci] # observed[ci] /\ doneGen[ci] # nextGen[ci]
      BY <2>a, GenArithmetic DEF TypeOK, SlotInv, Publishing
  <2>4. SlotInv'
    <3> SUFFICES ASSUME NEW i \in Helpers
                 PROVE  SlotInv!(i)'
      BY DEF SlotInv
    <3>1. CASE i = ci
      BY <3>1, <2>a, <2>b DEF TypeOK, SlotInv, Published, Publishing, Helpers
    <3>2. CASE i # ci
      <4>1. Published(i)' <=> Published(i)
        BY <3>2 DEF TypeOK, Published, Helpers
      <4>2. QED BY <3>2, <4>1 DEF TypeOK, SlotInv, Publishing
    <3>3. QED BY <3>1, <3>2
  <2>5. RunsInv'
    <3> SUFFICES ASSUME NEW i \in Helpers
                 PROVE  HasRun(i)' <=> HasRun(i)
      BY DEF TypeOK, RunsInv, InRunTask
    <3>1. CASE i = ci
      BY <3>1, <2>a, <2>b DEF HasRun, Published, TypeOK, Helpers
    <3>2. CASE i # ci
      BY <3>2 DEF HasRun, Published, TypeOK, Helpers
    <3>3. QED BY <3>1, <3>2
  <2>6. QED BY <2>1, <2>2, <2>3, <2>4, <2>5 DEF IInv

<1>14. CASE PublishedAll
  <2> USE <1>14 DEF PublishedAll, coordVars, slotVars, workerVars, history
  <2>1. TypeOK'
      BY GenArithmetic DEF TypeOK, CoordInv, LastSlot, CoordPcs, WorkerPcs, Statuses, Helpers, Lanes
  <2>2. CoordInv'
      BY DEF TypeOK, CoordInv, LastSlot, Helpers, Lanes
  <2>3. ThreadInv'
      BY DEF TypeOK, CoordInv, ThreadInv, SlotInv, LastSlot, Published, Publishing, Alive, Helpers, Lanes
  <2>4. SlotInv'
      BY GenArithmetic DEF TypeOK, CoordInv, ThreadInv, SlotInv, LastSlot, Published, Publishing, Alive, Helpers, Lanes
  <2>5. RunsInv'
      BY DEF RunsInv, HasRun, InRunTask, TypeOK, CoordInv, ThreadInv, SlotInv, LastSlot, Published, Publishing, Alive, Helpers, Lanes
  <2>6. QED BY <2>1, <2>2, <2>3, <2>4, <2>5 DEF IInv

<1>15. CASE RunLane0
  <2> USE <1>15 DEF RunLane0, coordVars, slotVars, workerVars, history
  <2>1. TypeOK'
      BY GenArithmetic DEF TypeOK, CoordInv, LastSlot, CoordPcs, WorkerPcs, Statuses, Helpers, Lanes
  <2>2. CoordInv'
      BY DEF TypeOK, CoordInv, LastSlot, Helpers, Lanes
  <2>3. ThreadInv'
      BY DEF TypeOK, CoordInv, ThreadInv, SlotInv, LastSlot, Published, Publishing, Alive, Helpers, Lanes
  <2>4. SlotInv'
      BY GenArithmetic DEF TypeOK, CoordInv, ThreadInv, SlotInv, LastSlot, Published, Publishing, Alive, Helpers, Lanes
  <2>5. RunsInv'
      BY DEF RunsInv, HasRun, InRunTask, TypeOK, CoordInv, ThreadInv, SlotInv, LastSlot, Published, Publishing, Alive, Helpers, Lanes
  <2>6. QED BY <2>1, <2>2, <2>3, <2>4, <2>5 DEF IInv

<1>16. CASE SawCompletion
  <2> USE <1>16 DEF SawCompletion, coordVars, slotVars, workerVars, history
  <2>1. TypeOK'
      BY GenArithmetic DEF TypeOK, CoordInv, LastSlot, CoordPcs, WorkerPcs, Statuses, Helpers, Lanes
  <2>2. CoordInv'
      BY DEF TypeOK, CoordInv, LastSlot, Helpers, Lanes
  <2>3. ThreadInv'
    <3>1. ci \in Helpers /\ Published(ci)
      BY DEF TypeOK, Published, Helpers
    <3>2. wpc[ci] = "poll"
      BY <3>1 DEF SlotInv
    <3> SUFFICES ASSUME NEW i \in Helpers, Published(i), i # ci
                 PROVE  Published(i)'
      BY <3>2 DEF TypeOK, ThreadInv, Alive, Helpers, Lanes
    <3>3. QED BY DEF TypeOK, Published, Helpers
  <2>4. SlotInv'
      BY GenArithmetic DEF TypeOK, CoordInv, ThreadInv, SlotInv, LastSlot, Published, Publishing, Alive, Helpers, Lanes
  <2>5. RunsInv'
      BY DEF RunsInv, HasRun, InRunTask, TypeOK, CoordInv, ThreadInv, SlotInv, LastSlot, Published, Publishing, Alive, Helpers, Lanes
  <2>6. QED BY <2>1, <2>2, <2>3, <2>4, <2>5 DEF IInv

<1>17. CASE RunReturns
  <2> USE <1>17 DEF RunReturns, coordVars, slotVars, workerVars, history
  <2>1. TypeOK'
      BY GenArithmetic DEF TypeOK, CoordInv, LastSlot, CoordPcs, WorkerPcs, Statuses, Helpers, Lanes
  <2>2. CoordInv'
      BY DEF TypeOK, CoordInv, LastSlot, Helpers, Lanes
  <2>3. ThreadInv'
      BY DEF TypeOK, CoordInv, ThreadInv, SlotInv, LastSlot, Published, Publishing, Alive, Helpers, Lanes
  <2>4. SlotInv'
      BY GenArithmetic DEF TypeOK, CoordInv, ThreadInv, SlotInv, LastSlot, Published, Publishing, Alive, Helpers, Lanes
  <2>5. RunsInv'
      BY DEF RunsInv, HasRun, InRunTask, TypeOK, CoordInv, ThreadInv, SlotInv, LastSlot, Published, Publishing, Alive, Helpers, Lanes
  <2>6. QED BY <2>1, <2>2, <2>3, <2>4, <2>5 DEF IInv

<1>18. ASSUME NEW n \in 0..NHelpers+2, NEW valid \in BOOLEAN, RunTask(n, valid)
     PROVE IInv'
  <2> USE <1>18 DEF RunTask, coordVars, slotVars, workerVars, history
  <2>1. TypeOK'
      BY GenArithmetic DEF TypeOK, CoordInv, LastSlot, CoordPcs, WorkerPcs, Statuses, Helpers, Lanes
  <2>2. CoordInv'
      BY DEF TypeOK, CoordInv, LastSlot, Helpers, Lanes
  <2>3. ThreadInv'
      BY DEF TypeOK, CoordInv, ThreadInv, SlotInv, LastSlot, Published, Publishing, Alive, Helpers, Lanes
  <2>4. SlotInv'
      BY GenArithmetic DEF TypeOK, CoordInv, ThreadInv, SlotInv, LastSlot, Published, Publishing, Alive, Helpers, Lanes
  <2>5. RunsInv'
      BY DEF RunsInv, HasRun, InRunTask, TypeOK, CoordInv, ThreadInv, SlotInv, LastSlot, Published, Publishing, Alive, Helpers, Lanes
  <2>6. QED BY <2>1, <2>2, <2>3, <2>4, <2>5 DEF IInv

<1>19. ASSUME NEW n \in 0..NHelpers+2, NEW valid \in BOOLEAN, RunRejected(n, valid)
     PROVE IInv'
  <2> USE <1>19 DEF RunRejected, coordVars, slotVars, workerVars, history
  <2>1. TypeOK'
      BY GenArithmetic DEF TypeOK, CoordInv, LastSlot, CoordPcs, WorkerPcs, Statuses, Helpers, Lanes
  <2>2. CoordInv'
      BY DEF TypeOK, CoordInv, LastSlot, Helpers, Lanes
  <2>3. ThreadInv'
      BY DEF TypeOK, CoordInv, ThreadInv, SlotInv, LastSlot, Published, Publishing, Alive, Helpers, Lanes
  <2>4. SlotInv'
      BY GenArithmetic DEF TypeOK, CoordInv, ThreadInv, SlotInv, LastSlot, Published, Publishing, Alive, Helpers, Lanes
  <2>5. RunsInv'
      BY DEF RunsInv, HasRun, InRunTask, TypeOK, CoordInv, ThreadInv, SlotInv, LastSlot, Published, Publishing, Alive, Helpers, Lanes
  <2>6. QED BY <2>1, <2>2, <2>3, <2>4, <2>5 DEF IInv

<1>20. ASSUME NEW w \in Helpers, WorkerBoot(w)
     PROVE IInv'
  <2> USE <1>20 DEF WorkerBoot, coordVars, slotVars, workerVars, history
  <2>1. TypeOK'
      BY GenArithmetic DEF TypeOK, CoordInv, LastSlot, CoordPcs, WorkerPcs, Statuses, Helpers, Lanes
  <2>2. CoordInv'
      BY DEF TypeOK, CoordInv, LastSlot, Helpers, Lanes
  <2>3. ThreadInv'
      BY DEF TypeOK, CoordInv, ThreadInv, SlotInv, LastSlot, Published, Publishing, Alive, Helpers, Lanes
  <2>4. SlotInv'
      BY GenArithmetic DEF TypeOK, CoordInv, ThreadInv, SlotInv, LastSlot, Published, Publishing, Alive, Helpers, Lanes
  <2>5. RunsInv'
      BY DEF RunsInv, HasRun, InRunTask, TypeOK, CoordInv, ThreadInv, SlotInv, LastSlot, Published, Publishing, Alive, Helpers, Lanes
  <2>6. QED BY <2>1, <2>2, <2>3, <2>4, <2>5 DEF IInv

<1>21. ASSUME NEW w \in Helpers, WorkerStarted(w)
     PROVE IInv'
  <2> USE <1>21 DEF WorkerStarted, coordVars, slotVars, workerVars, history
  <2>1. TypeOK'
      BY GenArithmetic DEF TypeOK, CoordInv, LastSlot, CoordPcs, WorkerPcs, Statuses, Helpers, Lanes
  <2>2. CoordInv'
      BY DEF TypeOK, CoordInv, LastSlot, Helpers, Lanes
  <2>3. ThreadInv'
      BY DEF TypeOK, CoordInv, ThreadInv, SlotInv, LastSlot, Published, Publishing, Alive, Helpers, Lanes
  <2>4. SlotInv'
      BY GenArithmetic DEF TypeOK, CoordInv, ThreadInv, SlotInv, LastSlot, Published, Publishing, Alive, Helpers, Lanes
  <2>5. RunsInv'
      BY DEF RunsInv, HasRun, InRunTask, TypeOK, CoordInv, ThreadInv, SlotInv, LastSlot, Published, Publishing, Alive, Helpers, Lanes
  <2>6. QED BY <2>1, <2>2, <2>3, <2>4, <2>5 DEF IInv

<1>22. ASSUME NEW w \in Helpers, WorkerPoll(w)
     PROVE IInv'
  <2> USE <1>22 DEF WorkerPoll, coordVars, slotVars, workerVars, history
  <2>1. TypeOK'
      BY GenArithmetic DEF TypeOK, CoordInv, LastSlot, CoordPcs, WorkerPcs, Statuses, Helpers, Lanes
  <2>2. CoordInv'
      BY DEF TypeOK, CoordInv, LastSlot, Helpers, Lanes
  <2>3. ThreadInv'
      BY DEF TypeOK, CoordInv, ThreadInv, SlotInv, LastSlot, Published, Publishing, Alive, Helpers, Lanes
  <2>4. SlotInv'
      BY GenArithmetic DEF TypeOK, CoordInv, ThreadInv, SlotInv, LastSlot, Published, Publishing, Alive, Helpers, Lanes
  <2>5. RunsInv'
      BY DEF RunsInv, HasRun, InRunTask, TypeOK, CoordInv, ThreadInv, SlotInv, LastSlot, Published, Publishing, Alive, Helpers, Lanes
  <2>6. QED BY <2>1, <2>2, <2>3, <2>4, <2>5 DEF IInv

<1>23. ASSUME NEW w \in Helpers, WorkerFetch(w)
     PROVE IInv'
  <2> USE <1>23 DEF WorkerFetch, coordVars, slotVars, workerVars, history
  <2>1. TypeOK'
      BY GenArithmetic DEF TypeOK, CoordInv, LastSlot, CoordPcs, WorkerPcs, Statuses, Helpers, Lanes
  <2>2. CoordInv'
      BY DEF TypeOK, CoordInv, LastSlot, Helpers, Lanes
  <2>3. ThreadInv'
      BY DEF TypeOK, CoordInv, ThreadInv, SlotInv, LastSlot, Published, Publishing, Alive, Helpers, Lanes
  <2>4. SlotInv'
      BY GenArithmetic DEF TypeOK, CoordInv, ThreadInv, SlotInv, LastSlot, Published, Publishing, Alive, Helpers, Lanes
  <2>5. RunsInv'
      BY DEF RunsInv, HasRun, InRunTask, TypeOK, CoordInv, ThreadInv, SlotInv, LastSlot, Published, Publishing, Alive, Helpers, Lanes
  <2>6. QED BY <2>1, <2>2, <2>3, <2>4, <2>5 DEF IInv

<1>24. ASSUME NEW w \in Helpers, WorkerRun(w)
     PROVE IInv'
  <2> USE <1>24 DEF WorkerRun, coordVars, slotVars, workerVars, history
  <2>1. TypeOK'
      BY GenArithmetic DEF TypeOK, CoordInv, LastSlot, CoordPcs, WorkerPcs, Statuses, Helpers, Lanes
  <2>2. CoordInv'
      BY DEF TypeOK, CoordInv, LastSlot, Helpers, Lanes
  <2>3. ThreadInv'
      BY DEF TypeOK, CoordInv, ThreadInv, SlotInv, LastSlot, Published, Publishing, Alive, Helpers, Lanes
  <2>4. SlotInv'
      BY GenArithmetic DEF TypeOK, CoordInv, ThreadInv, SlotInv, LastSlot, Published, Publishing, Alive, Helpers, Lanes
  <2>5. RunsInv'
    <3>1. /\ w \in Lanes /\ w # 0 /\ Published(w) /\ nLanes # 0
          /\ InRunTask /\ w < nLanes /\ ~HasRun(w)
      BY DEF TypeOK, CoordInv, ThreadInv, Published, HasRun, InRunTask, LastSlot, Helpers, Lanes
    <3>2. runs[w] = 0
      BY <3>1 DEF RunsInv
    <3>3. runs' = [runs EXCEPT ![w] = 1]
      BY <3>1, <3>2 DEF TypeOK
    <3>4. HasRun(w)' /\ \A i \in Helpers \ {w} : HasRun(i)' <=> HasRun(i)
      BY DEF HasRun, Published, TypeOK
    <3>5. runs'[w] = 1 /\ \A l \in Lanes \ {w} : runs'[l] = runs[l]
      BY <3>1, <3>3 DEF TypeOK
    <3>6. \A l \in Lanes : runs'[l] <= 1
      BY <3>5 DEF RunsInv
    <3>7. runs'[0] = IF cpc' = "wait" THEN 1 ELSE 0
      BY <3>1, <3>5 DEF RunsInv, Lanes
    <3>8. ASSUME NEW i \in Helpers
          PROVE  runs'[i] = IF HasRun(i)' /\ i < nLanes' THEN 1 ELSE 0
      BY <3>1, <3>4, <3>5 DEF RunsInv, Helpers, Lanes
    <3>9. QED BY <3>6, <3>7, <3>8 DEF RunsInv
  <2>6. QED BY <2>1, <2>2, <2>3, <2>4, <2>5 DEF IInv

<1>25. ASSUME NEW w \in Helpers, WorkerStatus(w)
     PROVE IInv'
  <2> USE <1>25 DEF WorkerStatus, coordVars, slotVars, workerVars, history
  <2>1. TypeOK'
      BY GenArithmetic DEF TypeOK, CoordInv, LastSlot, CoordPcs, WorkerPcs, Statuses, Helpers, Lanes
  <2>2. CoordInv'
      BY DEF TypeOK, CoordInv, LastSlot, Helpers, Lanes
  <2>3. ThreadInv'
      BY DEF TypeOK, CoordInv, ThreadInv, SlotInv, LastSlot, Published, Publishing, Alive, Helpers, Lanes
  <2>4. SlotInv'
      BY GenArithmetic DEF TypeOK, CoordInv, ThreadInv, SlotInv, LastSlot, Published, Publishing, Alive, Helpers, Lanes
  <2>5. RunsInv'
      BY DEF RunsInv, HasRun, InRunTask, TypeOK, CoordInv, ThreadInv, SlotInv, LastSlot, Published, Publishing, Alive, Helpers, Lanes
  <2>6. QED BY <2>1, <2>2, <2>3, <2>4, <2>5 DEF IInv

<1>26. ASSUME NEW w \in Helpers, WorkerComplete(w)
     PROVE IInv'
  <2> USE <1>26 DEF WorkerComplete, coordVars, slotVars, workerVars, history
  <2>1. TypeOK'
      BY GenArithmetic DEF TypeOK, CoordInv, LastSlot, CoordPcs, WorkerPcs, Statuses, Helpers, Lanes
  <2>2. CoordInv'
      BY DEF TypeOK, CoordInv, LastSlot, Helpers, Lanes
  <2>3. ThreadInv'
      BY DEF TypeOK, CoordInv, ThreadInv, SlotInv, LastSlot, Published, Publishing, Alive, Helpers, Lanes
  <2>4. SlotInv'
      BY GenArithmetic DEF TypeOK, CoordInv, ThreadInv, SlotInv, LastSlot, Published, Publishing, Alive, Helpers, Lanes
  <2>5. RunsInv'
      BY DEF RunsInv, HasRun, InRunTask, TypeOK, CoordInv, ThreadInv, SlotInv, LastSlot, Published, Publishing, Alive, Helpers, Lanes
  <2>6. QED BY <2>1, <2>2, <2>3, <2>4, <2>5 DEF IInv

<1>27. CASE UNCHANGED vars
  BY <1>27 DEF vars, coordVars, slotVars, workerVars, history, TypeOK, CoordInv, ThreadInv, SlotInv, RunsInv, HasRun, InRunTask,
     LastSlot, Published, Publishing, Alive

<1>28. QED
  BY <1>1, <1>2, <1>3, <1>4, <1>5, <1>6, <1>7, <1>8, <1>9, <1>10, <1>11, <1>12, <1>13, <1>14, <1>15, <1>16, <1>17, <1>18, <1>19, <1>20, <1>21, <1>22, <1>23, <1>24, <1>25, <1>26, <1>27
  DEF Next, Calls, Coordinator, Worker

\* Every step of the coordinator and of the helpers preserves IInv, so it is
\* an invariant of the worker group.
THEOREM IInvHolds == Spec => []IInv
<1>1. QED BY InitIInv, NextIInv, PTL DEF Spec

\* Type correctness.
THEOREM TypeCorrect == Spec => []TypeOK
<1>1. IInv => TypeOK
  BY DEF IInv
<1>2. QED BY <1>1, IInvHolds, PTL

\* run_task: the borrowed task is out of every helper's hands when the call
\* returns, for any number of helpers and any generation width.
THEOREM BorrowEnds == Spec => []TaskBorrowedOnlyDuringCall
<1>1. IInv => TaskBorrowedOnlyDuringCall
  <2> SUFFICES ASSUME IInv, NEW i \in Helpers, HoldsTask(i)
               PROVE  Awaited(i) /\ cmdLanes[i] = nLanes
    BY DEF TaskBorrowedOnlyDuringCall
  <2>1. Published(i) /\ cmdLanes[i] = nLanes
    BY DEF IInv, ThreadInv, SlotInv, HoldsTask
  <2>2. nLanes # 0
    BY <2>1 DEF IInv, ThreadInv, HoldsTask
  <2>3. Awaited(i)
    BY <2>1, <2>2, NHelpersAssumption
    DEF IInv, TypeOK, CoordInv, Published, Awaited, InRunTask, LastSlot, Helpers, Lanes
  <2>4. QED BY <2>1, <2>3
<1>2. QED BY <1>1, IInvHolds, PTL

\* The positions in IInv say which lanes have run when run_task returns.
LEMMA IInvLanes == IInv => EachLaneRunsOnce
<1> SUFFICES ASSUME IInv, cpc = "wait", ci >= nLanes, NEW l \in Lanes
             PROVE  runs[l] = IF l < nLanes THEN 1 ELSE 0
  BY DEF EachLaneRunsOnce, IInv, RunsInv
<1>1. InRunTask /\ ci = nLanes /\ nLanes \in 1..NHelpers+1
  BY NHelpersAssumption DEF IInv, TypeOK, CoordInv, InRunTask, Lanes
<1>2. CASE l = 0
  BY <1>1, <1>2 DEF IInv, RunsInv
<1>3. CASE l # 0
  <2>1. l \in Helpers
    BY <1>3, NHelpersAssumption DEF Helpers, Lanes
  <2>2. l < nLanes => HasRun(l)
    BY <1>1 DEF HasRun
  <2>3. QED BY <1>1, <2>1, <2>2 DEF IInv, RunsInv
<1>4. QED BY <1>2, <1>3

\* run_task: every lane of the task, and no other, has run exactly once when
\* the call returns.
THEOREM LanesRunOnce == Spec => []EachLaneRunsOnce
<1>1. QED BY IInvLanes, IInvHolds, PTL

\* publish_command and worker_main never use the plain fields of a slot at
\* the same time, and the status run_task reads is the one the lane returned.
THEOREM RaceFree == Spec => []NoSlotRace
<1>1. IInv => NoSlotRace
  <2> USE NHelpersAssumption DEF IInv
  <2>1. ASSUME IInv, cpc \in {"rearm", "fields", "release"}, ci <= LastSlot
        PROVE  wpc[ci] = "poll" /\ observed[ci] = cmdGen[ci]
    <3>1. ci \in Helpers /\ Alive(ci) /\ ~Published(ci)
      BY <2>1 DEF TypeOK, CoordInv, LastSlot, Alive, Published, Helpers, Lanes
    <3>2. wpc[ci] = "poll"
      BY <2>1, <3>1 DEF TypeOK, ThreadInv, WorkerPcs
    <3>3. QED BY <2>1, <3>1, <3>2 DEF SlotInv
  <2>2. ASSUME IInv, cpc = "wait", ci < nLanes, doneGen[ci] = nextGen[ci]
        PROVE  wpc[ci] = "poll" /\ doneStatus[ci] = outcome[ci]
    <3>1. ci \in Helpers /\ Published(ci)
      BY <2>2 DEF TypeOK, Published, Helpers
    <3>2. QED BY <2>2, <3>1 DEF SlotInv
  <2>3. IInv /\ cpc \in {"fields", "release"} => ci <= LastSlot
    BY DEF CoordInv
  <2>4. QED BY <2>1, <2>2, <2>3 DEF NoSlotRace
<1>2. QED BY <1>1, IInvHolds, PTL

\* deactivate, and an activate that fails, leave no helper thread behind; an
\* active group between calls has every helper polling.
THEOREM HelpersAccounted == Spec => []NoHelperLeaks
<1>1. IInv => NoHelperLeaks
  <2> USE NHelpersAssumption DEF IInv
  <2> SUFFICES ASSUME IInv, cpc = "idle" PROVE NoHelperLeaks
    BY DEF NoHelperLeaks
  <2>1. CASE active
    <3> SUFFICES ASSUME NEW i \in Helpers
                 PROVE  wpc[i] = "poll" /\ observed[i] = cmdGen[i]
      BY <2>1 DEF NoHelperLeaks
    <3>1. Alive(i) /\ ~Published(i)
      BY <2>1 DEF CoordInv, Alive, Published, Helpers
    <3>2. wpc[i] = "poll"
      BY <3>1 DEF TypeOK, ThreadInv, WorkerPcs
    <3>3. QED BY <3>1, <3>2 DEF SlotInv
  <2>2. CASE ~active
    BY <2>2 DEF NoHelperLeaks, CoordInv, ThreadInv, Alive, Helpers
  <2>3. QED BY <2>1, <2>2
<1>2. QED BY <1>1, IInvHolds, PTL
=============================================================================
