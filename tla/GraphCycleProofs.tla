--------------------------- MODULE GraphCycleProofs ---------------------------
(***************************************************************************)
(* The required counters of the activation records, for every graph, every *)
(* number of data loops and any number of starts, stops, links and unlinks *)
(* while cycles run.                                                       *)
(***************************************************************************)
EXTENDS GraphCycle, TLAPS, FiniteSetTheorems

\* Where the main thread is: "giving" from the trigger of a target that is
\* being deactivated to the decrement of its required.
Giving == {"seq_read", "seq_cas", "status_cas", "seq_write_hit", "seq_write_miss",
           "eventfd_write", "unrequire"}
Phase == IF pc[Main] \in Giving THEN "giving" ELSE pc[Main]

\* The data loops only process and ready; the main thread does neither.
ShapeInv ==
    /\ setup \in Setups /\ linked \subseteq Links
    /\ prepared \in [Nodes -> BOOLEAN] /\ required \in [Nodes -> Int]
    /\ pc \in [Threads -> Labels] /\ node \in [Threads -> Nodes] /\ tgt \in [Threads -> Nodes]
    /\ todo \in [Threads -> SUBSET Nodes]
    /\ op \in [Threads -> {None, "ready", "process", "prepare", "unprepare", "link", "unlink"}]
    /\ Phase \in {"idle", "require", "expect", "deactivate", "giving"}
    /\ \A t \in Loops : op[t] \in {None, "ready", "process"}

\* The targets that the main thread's handler has not dealt with yet.
Waits == IF Phase \in {"expect", "giving"} THEN todo[Main] \cup {tgt[Main]} ELSE todo[Main]

\* The active targets of node a: all of a prepared node's and none of another's,
\* but for the node that the main thread is at.
ActiveTargets(a) ==
    IF Phase = "idle" \/ a # node[Main] THEN (IF prepared[a] THEN Targets(a) ELSE {})
    ELSE IF Phase \in {"require", "expect"} THEN Targets(a) \ Waits
    ELSE IF op[Main] = "unprepare" THEN Waits
    ELSE Targets(a) \cup Waits

\* What activate_target and deactivate_target find: a target that is inactive,
\* or active, whenever they are called for it.
MainInv ==
    /\ \A a, b \in Nodes : <<a, b>> \in active <=> b \in ActiveTargets(a)
    /\ Phase \in {"require", "expect"} =>
          /\ op[Main] \in {"prepare", "link"} /\ Waits \subseteq Targets(node[Main])
          /\ op[Main] = "link" => prepared[node[Main]]
    /\ Phase \in {"deactivate", "giving"} =>
          /\ op[Main] \in {"unprepare", "unlink"}
          /\ op[Main] = "unlink" => prepared[node[Main]] /\ Waits \cap Targets(node[Main]) = {}
    /\ Phase \in {"expect", "giving"} => tgt[Main] \notin todo[Main]

CountInv == IsFiniteSet(active) /\ RequiredIsActive

GraphInv == ShapeInv /\ MainInv /\ CountInv

-----------------------------------------------------------------------------
\* The driver is no follower, and every node has a data loop.
LEMMA GraphFacts ==
    ASSUME setup \in Setups
    PROVE  /\ Driver \in Nodes /\ Driver \notin Followers /\ Followers \subseteq Nodes
           /\ Links \subseteq Followers \X Followers /\ LoopOf \in [Nodes -> Loops]
           /\ Main \in Threads /\ Main \notin Loops /\ Loops \subseteq Threads
    BY GraphAssumption DEF Followers, Nodes, Links, LoopOf, Threads, Main

\* A graph that does not change keeps its nodes, links and targets.
LEMMA SameGraph ==
    ASSUME setup' = setup
    PROVE  /\ Nodes' = Nodes /\ Followers' = Followers /\ Links' = Links /\ Async' = Async
           /\ (linked' = linked => \A n : Targets(n)' = Targets(n))
    BY DEF Nodes, Followers, Links, Async, Targets

\* A node's targets are nodes of the graph.
LEMMA TargetsAreNodes ==
    ASSUME ShapeInv, NEW n
    PROVE  Targets(n) \subseteq Nodes
<1>1. \A l \in linked : l[2] \in Nodes
    BY GraphFacts DEF ShapeInv
<1>2. QED BY <1>1, GraphFacts DEF ShapeInv, Targets

-----------------------------------------------------------------------------
(* The shape of the state *)

\* The main thread's phase when it goes to a label.
LEMMA PhaseOf ==
    ASSUME NEW label, pc' = [pc EXCEPT ![Main] = label], pc \in [Threads -> Labels]
    PROVE  Phase' = IF label \in Giving THEN "giving" ELSE label
    BY DEF Phase, Threads

\* A step of a data loop leaves the main thread where it is.
LEMMA PhaseKept ==
    ASSUME NEW t \in Loops, NEW label, pc' = [pc EXCEPT ![t] = label], pc \in [Threads -> Labels]
    PROVE  Phase' = Phase
    BY GraphAssumption DEF Phase, Threads

\* What MainInv and CountInv are about.
mainView == <<Phase, op[Main], node[Main], todo[Main], tgt[Main], active, prepared, linked,
              required, setup>>

\* The steps of trigger_target_v2 after its decrement, of any thread.
TriggerTail(t) == SeqRead(t) \/ SeqCas(t) \/ StatusCas(t) \/ SeqWrite(t) \/ EventfdWrite(t)

\* They leave everything but pc, and the words of the record, alone; the main
\* thread stays in the call or comes to its end.
LEMMA TailKeeps ==
    ASSUME ShapeInv, NEW t \in Threads, TriggerTail(t)
    PROVE  ShapeInv' /\ UNCHANGED mainView
<1>1. UNCHANGED <<op, node, todo, tgt, active, prepared, linked, required, setup>>
    BY DEF TriggerTail, SeqRead, SeqCas, StatusCas, SeqWrite, EventfdWrite, graphVars, recordVars, choice
<1>2. pc' \in [Threads -> Labels] /\ Phase' = Phase
  <2>1. pc[t] \in Giving \ {"unrequire"} /\ AfterTrigger(t) \in {"unrequire", "trigger"}
        /\ (t = Main => AfterTrigger(t) = "unrequire")
    BY DEF TriggerTail, SeqRead, SeqCas, StatusCas, SeqWrite, EventfdWrite, Giving, AfterTrigger
  <2>2. CASE SeqRead(t) \/ StatusCas(t) \/ SeqWrite(t) \/ EventfdWrite(t)
    <3>1. PICK label \in (Giving \ {"unrequire"}) \cup {AfterTrigger(t)} : pc' = [pc EXCEPT ![t] = label]
      BY <2>2 DEF SeqRead, StatusCas, SeqWrite, EventfdWrite, Goto, Giving
    <3>2. label \in Labels
      BY <2>1, <3>1 DEF Labels, Giving
    <3>3. CASE t = Main
      BY <2>1, <3>1, <3>2, <3>3, PhaseOf DEF ShapeInv, Phase, Giving
    <3>4. CASE t # Main
      BY <3>1, <3>2, <3>4, PhaseKept DEF ShapeInv, Threads
    <3>5. QED BY <3>3, <3>4
  <2>3. CASE SeqCas(t)
    <3>1. \A u \in Threads : AfterTrigger(u) \in Labels /\ AfterTrigger(Main) \in Giving
      BY DEF AfterTrigger, Labels, Giving
    <3>2. pc' \in [Threads -> Labels]
      BY <2>3, <3>1 DEF SeqCas, ShapeInv, Labels
    <3>3. Main \in Threads
      BY DEF Threads
    <3>4. pc'[Main] = pc[Main] \/ (pc[Main] \in Giving /\ pc'[Main] \in Giving)
      BY <2>3, <3>1, <3>3 DEF SeqCas, Giving
    <3>5. QED BY <3>2, <3>4 DEF Phase
  <2>4. QED BY <2>2, <2>3 DEF TriggerTail
<1>3. QED BY <1>1, <1>2, SameGraph DEF ShapeInv, mainView

\* The steps of a data loop.
LEMMA LoopKeeps ==
    ASSUME ShapeInv, NEW t \in Loops, Step(t)
    PROVE  ShapeInv' /\ UNCHANGED mainView
<1>0. t \in Threads /\ t # Main /\ Main \in Threads
    BY GraphAssumption DEF Threads
<1>1. CASE TriggerTail(t)
    BY <1>0, <1>1, TailKeeps
<1>2. CASE \/ \E g \in Nodes : Trigger(t, g) \/ ResetLoad(t, g)
           \/ ProcessDone(t) \/ ResetStore(t) \/ StatusLoad(t) \/ Rearm(t) \/ StartGraph(t) \/ Return(t)
  <2>1. UNCHANGED <<active, linked, required, setup>>
    BY <1>2 DEF Trigger, ResetLoad, ProcessDone, ResetStore, StatusLoad, Rearm, StartGraph, Return,
                graphVars, recordVars, choice
  <2>2. PICK label \in Labels : pc' = [pc EXCEPT ![t] = label]
    BY <1>0, <1>2 DEF Trigger, ResetLoad, ProcessDone, ResetStore, StatusLoad, Rearm, StartGraph, Return,
                AfterTrigger, Goto, Enter, Labels
  <2>3. pc' \in [Threads -> Labels] /\ Phase' = Phase
    BY <2>2, PhaseKept DEF ShapeInv
  <2>4. prepared' = prepared
    BY <1>2 DEF Trigger, ResetLoad, ProcessDone, ResetStore, StatusLoad, Rearm, StartGraph, Return,
                graphVars, ShapeInv, None
  <2>5. /\ \/ UNCHANGED op \/ \E o \in {"ready", "process"} : op' = [op EXCEPT ![t] = o]
        /\ \/ UNCHANGED node \/ \E n \in Nodes : node' = [node EXCEPT ![t] = n]
    BY <1>0, <1>2, GraphFacts DEF Trigger, ResetLoad, ProcessDone, ResetStore, StatusLoad, Rearm, StartGraph,
                Return, Enter, ShapeInv
  <2>6. /\ \/ UNCHANGED tgt \/ \E n \in Nodes : tgt' = [tgt EXCEPT ![t] = n]
        /\ \/ UNCHANGED todo \/ \E S \in SUBSET Nodes : todo' = [todo EXCEPT ![t] = S]
    <3>1. CASE \/ \E g \in Nodes : Trigger(t, g) \/ ResetLoad(t, g)
               \/ ResetStore(t) \/ StatusLoad(t) \/ Return(t)
      BY <1>0, <3>1 DEF Trigger, ResetLoad, ResetStore, StatusLoad, Return, ShapeInv
    <3>2. CASE Rearm(t)
      BY <1>0, <3>2 DEF Rearm, ShapeInv
    <3>3. CASE ProcessDone(t) \/ StartGraph(t)
      BY <1>0, <3>3, TargetsAreNodes DEF ProcessDone, StartGraph, Enter, ShapeInv
    <3>4. QED BY <1>2, <3>1, <3>2, <3>3
  <2>7. /\ op' \in [Threads -> {None, "ready", "process", "prepare", "unprepare", "link", "unlink"}]
        /\ op'[Main] = op[Main] /\ \A u \in Loops : op'[u] \in {None, "ready", "process"}
    <3>1. CASE UNCHANGED op
      BY <3>1 DEF ShapeInv
    <3>2. CASE \E o \in {"ready", "process"} : op' = [op EXCEPT ![t] = o]
      BY <1>0, <3>2 DEF ShapeInv
    <3>3. QED BY <2>5, <3>1, <3>2
  <2>8. /\ node' \in [Threads -> Nodes] /\ node'[Main] = node[Main]
        /\ tgt' \in [Threads -> Nodes] /\ tgt'[Main] = tgt[Main]
    BY <1>0, <2>5, <2>6 DEF ShapeInv
  <2>9. todo' \in [Threads -> SUBSET Nodes] /\ todo'[Main] = todo[Main]
    BY <1>0, <2>6 DEF ShapeInv
  <2>10. QED BY <2>1, <2>3, <2>4, <2>7, <2>8, <2>9, SameGraph DEF ShapeInv, mainView
<1>3. QED BY <1>0, <1>1, <1>2 DEF Step, TriggerTargets, TriggerTail, Ready

\* A data loop begins with a handler.
LEMMA EventKeeps ==
    ASSUME ShapeInv, NodeReady \/ \E n \in Nodes : ProcessNode(n)
    PROVE  ShapeInv' /\ UNCHANGED mainView
<1>1. PICK n \in Nodes : (n = Driver /\ NodeReady) \/ ProcessNode(n)
    BY GraphFacts DEF ShapeInv
<1> DEFINE t == LoopOf[n]
<1>2. t \in Loops /\ t \in Threads /\ t # Main /\ Main \in Threads
    BY GraphFacts DEF ShapeInv
<1>3. UNCHANGED <<active, prepared, linked, required, setup, tgt>>
    BY <1>1 DEF NodeReady, ProcessNode, graphVars, choice
<1>4. \/ UNCHANGED <<pc, op, node, todo>>
      \/ \E label \in Labels, o \in {"ready", "process"}, S \in SUBSET Nodes : Enter(t, label, o, n, S)
    BY <1>1 DEF NodeReady, ProcessNode, Labels
<1> HIDE DEF t
<1>5. CASE UNCHANGED <<pc, op, node, todo>>
    BY <1>3, <1>5, SameGraph DEF ShapeInv, mainView, Phase
<1>6. CASE \E label \in Labels, o \in {"ready", "process"}, S \in SUBSET Nodes : Enter(t, label, o, n, S)
  <2>1. PICK label \in Labels, o \in {"ready", "process"}, S \in SUBSET Nodes : Enter(t, label, o, n, S)
    BY <1>6
  <2>2. pc' \in [Threads -> Labels] /\ Phase' = Phase
    BY <1>2, <2>1, PhaseKept DEF ShapeInv, Enter
  <2>3. /\ op' \in [Threads -> {None, "ready", "process", "prepare", "unprepare", "link", "unlink"}]
        /\ op'[Main] = op[Main] /\ \A u \in Loops : op'[u] \in {None, "ready", "process"}
    BY <1>2, <2>1 DEF ShapeInv, Enter
  <2>4. /\ node' \in [Threads -> Nodes] /\ node'[Main] = node[Main]
        /\ todo' \in [Threads -> SUBSET Nodes] /\ todo'[Main] = todo[Main]
    BY <1>2, <2>1 DEF ShapeInv, Enter
  <2>5. QED BY <1>3, <2>2, <2>3, <2>4, SameGraph DEF ShapeInv, mainView
<1>7. QED BY <1>4, <1>5, <1>6

\* Steps that leave the main thread's view alone keep the rest.
LEMMA ViewUnchanged ==
    ASSUME MainInv, CountInv, UNCHANGED mainView
    PROVE  MainInv' /\ CountInv'
<1>1. UNCHANGED <<Phase, op[Main], node[Main], todo[Main], tgt[Main], active, prepared, linked, required,
                  setup>>
    BY DEF mainView
<1>2. Waits' = Waits
    BY <1>1 DEF Waits
<1>3. \A n : ActiveTargets(n)' = ActiveTargets(n)
    BY <1>1, <1>2, SameGraph DEF ActiveTargets
<1>4. MainInv'
    BY <1>1, <1>2, <1>3, SameGraph DEF MainInv
<1>5. (pc[Main] = "expect")' <=> pc[Main] = "expect"
    BY <1>1 DEF Phase, Giving
<1>6. CountInv'
    BY <1>1, <1>5, SameGraph DEF CountInv, RequiredIsActive
<1>7. QED BY <1>4, <1>6

-----------------------------------------------------------------------------
(* The main thread *)

OpNames == {None, "ready", "process", "prepare", "unprepare", "link", "unlink"}

\* A step of the main thread keeps the shape of the state.
LEMMA MainMove ==
    ASSUME ShapeInv, setup' = setup,
           NEW label \in {"idle", "require", "expect", "deactivate"} \cup Giving,
           pc' = [pc EXCEPT ![Main] = label],
           op' \in [Threads -> OpNames], \A t \in Loops : op'[t] = op[t],
           node' \in [Threads -> Nodes], tgt' \in [Threads -> Nodes], todo' \in [Threads -> SUBSET Nodes],
           linked' \subseteq Links, prepared' \in [Nodes -> BOOLEAN], required' \in [Nodes -> Int]
    PROVE  ShapeInv' /\ Phase' = IF label \in Giving THEN "giving" ELSE label
<1>1. Phase' = IF label \in Giving THEN "giving" ELSE label
    BY PhaseOf DEF ShapeInv
<1>2. Phase' \in {"idle", "require", "expect", "deactivate", "giving"}
    BY <1>1 DEF Giving
<1>3. pc' \in [Threads -> Labels]
    BY DEF ShapeInv, Labels, Giving
<1>4. QED BY <1>1, <1>2, <1>3, SameGraph DEF ShapeInv, OpNames

\* The edges into m that count for its required.
In(A, m, As) == {e \in A : e[2] = m /\ e[1] \notin As}

\* They are finitely many.
LEMMA InCount == ASSUME NEW A, IsFiniteSet(A), NEW m, NEW As PROVE Cardinality(In(A, m, As)) \in Nat
<1>1. IsFiniteSet(In(A, m, As))
    BY FS_Subset DEF In
<1>2. QED BY <1>1, FS_CardinalityType

\* How the count changes with an edge that is added,
LEMMA EdgeAdded ==
    ASSUME NEW A, IsFiniteSet(A), NEW n, NEW g, <<n, g>> \notin A, NEW m, NEW As
    PROVE  /\ IsFiniteSet(A \cup {<<n, g>>})
           /\ Cardinality(In(A, m, As)) \in Nat
           /\ Cardinality(In(A \cup {<<n, g>>}, m, As)) =
                Cardinality(In(A, m, As)) + (IF m = g /\ n \notin As THEN 1 ELSE 0)
<1> DEFINE x == <<n, g>>
<1>0. x[1] = n /\ x[2] = g
    OBVIOUS
<1> HIDE DEF x
<1>1. IsFiniteSet(A \cup {x})
    BY FS_AddElement
<1>2. IsFiniteSet(In(A, m, As))
    BY FS_Subset DEF In
<1>3. Cardinality(In(A, m, As)) \in Nat
    BY <1>2, FS_CardinalityType
<1>4. CASE m = g /\ n \notin As
  <2>1. In(A \cup {x}, m, As) = In(A, m, As) \cup {x}
    BY <1>0, <1>4 DEF In
  <2>2. x \notin In(A, m, As)
    BY DEF In, x
  <2>3. Cardinality(In(A, m, As) \cup {x}) = Cardinality(In(A, m, As)) + 1
    BY <1>2, <2>2, FS_AddElement
  <2>4. QED BY <1>1, <1>3, <1>4, <2>1, <2>3 DEF x
<1>5. CASE ~(m = g /\ n \notin As)
  <2>1. In(A \cup {x}, m, As) = In(A, m, As)
    BY <1>0, <1>5 DEF In
  <2>2. QED BY <1>1, <1>3, <1>5, <2>1 DEF x
<1>6. QED BY <1>4, <1>5

\* and with one that is removed.
LEMMA EdgeRemoved ==
    ASSUME NEW A, IsFiniteSet(A), NEW n, NEW g, <<n, g>> \in A, NEW m, NEW As
    PROVE  /\ IsFiniteSet(A \ {<<n, g>>})
           /\ Cardinality(In(A \ {<<n, g>>}, m, As)) \in Nat
           /\ Cardinality(In(A, m, As)) =
                Cardinality(In(A \ {<<n, g>>}, m, As)) + (IF m = g /\ n \notin As THEN 1 ELSE 0)
<1> DEFINE B == A \ {<<n, g>>}
<1>1. IsFiniteSet(B) /\ <<n, g>> \notin B /\ B \cup {<<n, g>>} = A
    BY FS_Subset
<1> HIDE DEF B
<1>2. /\ Cardinality(In(B, m, As)) \in Nat
      /\ Cardinality(In(B \cup {<<n, g>>}, m, As)) =
            Cardinality(In(B, m, As)) + (IF m = g /\ n \notin As THEN 1 ELSE 0)
    BY <1>1, EdgeAdded
<1>3. QED BY <1>1, <1>2 DEF B

\* RequiredIsActive by these counts.
LEMMA Required ==
    RequiredIsActive <=>
        \A m \in Nodes : required[m] = Cardinality(In(active, m, Async)) +
            (IF Phase = "expect" /\ tgt[Main] = m /\ node[Main] \notin Async THEN 1 ELSE 0)
<1>1. pc[Main] = "expect" <=> Phase = "expect"
    BY DEF Phase, Giving
<1>2. QED BY <1>1 DEF RequiredIsActive, In

\* The same of the next state.
LEMMA RequiredNext ==
    RequiredIsActive' <=>
        \A m \in Nodes' : required'[m] = Cardinality(In(active', m, Async')) +
            (IF Phase' = "expect" /\ tgt'[Main] = m /\ node'[Main] \notin Async' THEN 1 ELSE 0)
<1>1. pc'[Main] = "expect" <=> Phase' = "expect"
    BY DEF Phase, Giving
<1>2. QED BY <1>1 DEF RequiredIsActive, In

\* A step that changes no counter and no edge, outside activate_target.
LEMMA CountKept ==
    ASSUME CountInv, setup' = setup, required' = required, active' = active,
           Phase # "expect", Phase' # "expect"
    PROVE  CountInv'
<1>1. pc[Main] # "expect" /\ pc'[Main] # "expect"
    BY DEF Phase, Giving
<1>2. QED BY <1>1, SameGraph DEF CountInv, RequiredIsActive

\* deactivate_target triggers its target first: the target is still waited for.
LEMMA TriggerMain ==
    ASSUME GraphInv, NEW g \in Nodes, Trigger(Main, g)
    PROVE  GraphInv'
<1>0. Main \in Threads
    BY DEF Threads
<1>1. Phase = "deactivate"
    BY DEF Trigger, GraphInv, ShapeInv, Phase, Giving
<1>2. /\ UNCHANGED <<op, node, active, prepared, linked, required, setup>> /\ g \in todo[Main]
      /\ tgt' = [tgt EXCEPT ![Main] = g] /\ todo' = [todo EXCEPT ![Main] = @ \ {g}]
    BY DEF Trigger, graphVars, choice
<1>3. PICK label \in Giving : pc' = [pc EXCEPT ![Main] = label]
    BY DEF Trigger, AfterTrigger, Goto, Giving
<1>4. /\ op' \in [Threads -> OpNames] /\ \A t \in Loops : op'[t] = op[t]
      /\ node' \in [Threads -> Nodes] /\ tgt' \in [Threads -> Nodes] /\ todo' \in [Threads -> SUBSET Nodes]
      /\ linked' \subseteq Links /\ prepared' \in [Nodes -> BOOLEAN] /\ required' \in [Nodes -> Int]
    BY <1>0, <1>2 DEF GraphInv, ShapeInv, OpNames
<1>5. ShapeInv' /\ Phase' = "giving"
    BY <1>2, <1>3, <1>4, MainMove DEF GraphInv
<1>6. tgt'[Main] = g /\ todo'[Main] = todo[Main] \ {g}
    BY <1>0, <1>2 DEF GraphInv, ShapeInv
<1>7. Waits' = Waits
    BY <1>1, <1>2, <1>5, <1>6 DEF Waits
<1>8. \A a : ActiveTargets(a)' = ActiveTargets(a)
    BY <1>1, <1>2, <1>5, <1>7, SameGraph DEF ActiveTargets
<1>9. MainInv'
    BY <1>1, <1>2, <1>5, <1>6, <1>7, <1>8, SameGraph DEF GraphInv, MainInv
<1>10. QED BY <1>1, <1>2, <1>5, <1>9, CountKept DEF GraphInv

\* activate_target: the increment of required.
LEMMA RequireMain ==
    ASSUME GraphInv, NEW g \in Nodes, Require(g)
    PROVE  GraphInv'
<1>0. Main \in Threads
    BY DEF Threads
<1>1. Phase = "require"
    BY DEF Require, GraphInv, ShapeInv, Phase, Giving
<1>2. /\ UNCHANGED <<op, node, active, prepared, linked, setup>> /\ g \in todo[Main]
      /\ tgt' = [tgt EXCEPT ![Main] = g] /\ todo' = [todo EXCEPT ![Main] = @ \ {g}]
      /\ required' = IF node[Main] \in Async THEN required ELSE [required EXCEPT ![g] = @ + 1]
      /\ pc' = [pc EXCEPT ![Main] = "expect"]
    BY DEF Require, graphVars, choice, Goto
<1>3. required' \in [Nodes -> Int]
    BY <1>2 DEF GraphInv, ShapeInv
<1>4. /\ op' \in [Threads -> OpNames] /\ \A t \in Loops : op'[t] = op[t]
      /\ node' \in [Threads -> Nodes] /\ tgt' \in [Threads -> Nodes] /\ todo' \in [Threads -> SUBSET Nodes]
      /\ linked' \subseteq Links /\ prepared' \in [Nodes -> BOOLEAN]
    BY <1>0, <1>2 DEF GraphInv, ShapeInv, OpNames
<1>5. ShapeInv' /\ Phase' = "expect"
    BY <1>2, <1>3, <1>4, MainMove DEF GraphInv, Giving
<1>6. tgt'[Main] = g /\ todo'[Main] = todo[Main] \ {g}
    BY <1>0, <1>2 DEF GraphInv, ShapeInv
<1>7. Waits' = Waits
    BY <1>1, <1>2, <1>5, <1>6 DEF Waits
<1>8. \A a : ActiveTargets(a)' = ActiveTargets(a)
    BY <1>1, <1>2, <1>5, <1>7, SameGraph DEF ActiveTargets
<1>9. MainInv'
    BY <1>1, <1>2, <1>5, <1>6, <1>7, <1>8, SameGraph DEF GraphInv, MainInv
<1>10. CountInv'
  <2>1. \A m \in Nodes : required[m] = Cardinality(In(active, m, Async))
    BY <1>1, Required, InCount DEF GraphInv, CountInv
  <2>2. \A m \in Nodes : required'[m] = Cardinality(In(active, m, Async)) +
            (IF g = m /\ node[Main] \notin Async THEN 1 ELSE 0)
    BY <1>2, <2>1 DEF GraphInv, ShapeInv
  <2>3. RequiredIsActive'
    BY <1>2, <1>5, <1>6, <2>2, RequiredNext, SameGraph
  <2>4. QED BY <1>2, <2>3 DEF GraphInv, CountInv
<1>11. QED BY <1>5, <1>9, <1>10 DEF GraphInv

\* activate_target: the increment of pending, and the target becomes active.
LEMMA ExpectMain ==
    ASSUME GraphInv, Expect
    PROVE  GraphInv'
<1> DEFINE n == node[Main]
           g == tgt[Main]
<1>0. Main \in Threads /\ n \in Nodes /\ g \in Nodes
    BY DEF Threads, GraphInv, ShapeInv
<1>1. Phase = "expect"
    BY DEF Expect, Phase, Giving
<1>2. /\ UNCHANGED <<op, node, todo, tgt, prepared, linked, required, setup>>
      /\ active' = active \cup {<<n, g>>} /\ pc' = [pc EXCEPT ![Main] = "require"]
    BY DEF Expect, choice, Goto
<1>3. ShapeInv' /\ Phase' = "require"
    BY <1>2, MainMove DEF GraphInv, ShapeInv, OpNames, Giving
<1>4. Waits = todo[Main] \cup {g} /\ Waits' = todo[Main] /\ g \notin todo[Main] /\ g \in Targets(n)
    BY <1>1, <1>2, <1>3 DEF Waits, GraphInv, MainInv
<1>5. \A a : a = n => ActiveTargets(a) = Targets(a) \ Waits /\ ActiveTargets(a)' = Targets(a) \ Waits'
    BY <1>1, <1>2, <1>3, SameGraph DEF ActiveTargets
<1>6. \A a : a # n => ActiveTargets(a)' = ActiveTargets(a)
    BY <1>1, <1>2, <1>3, SameGraph DEF ActiveTargets
<1>7. <<n, g>> \notin active
    BY <1>0, <1>4, <1>5 DEF GraphInv, MainInv
<1>8. \A a, b \in Nodes : <<a, b>> \in active' <=> b \in ActiveTargets(a)'
  <2> SUFFICES ASSUME NEW a \in Nodes, NEW b \in Nodes
               PROVE  <<a, b>> \in active' <=> b \in ActiveTargets(a)'
    OBVIOUS
  <2>1. <<a, b>> \in active <=> b \in ActiveTargets(a)
    BY DEF GraphInv, MainInv
  <2>2. <<a, b>> \in active' <=> <<a, b>> \in active \/ (a = n /\ b = g)
    BY <1>2
  <2>3. CASE a = n
    <3>1. ActiveTargets(a) = Targets(a) \ Waits /\ ActiveTargets(a)' = Targets(a) \ Waits'
      BY <1>5, <2>3
    <3>2. QED BY <1>4, <2>1, <2>2, <2>3, <3>1
  <2>4. CASE a # n
    BY <1>6, <2>1, <2>2, <2>4
  <2>5. QED BY <2>3, <2>4
<1>9. MainInv'
    BY <1>1, <1>2, <1>3, <1>4, <1>8, SameGraph DEF GraphInv, MainInv
<1>10. CountInv'
  <2>1. IsFiniteSet(active)
    BY DEF GraphInv, CountInv
  <2>2. \A m \in Nodes : required[m] = Cardinality(In(active, m, Async)) +
            (IF g = m /\ n \notin Async THEN 1 ELSE 0)
    BY <1>1, Required DEF GraphInv, CountInv
  <2> HIDE DEF n, g
  <2>3. IsFiniteSet(active') /\ \A m \in Nodes : required[m] = Cardinality(In(active', m, Async))
    BY <1>2, <1>7, <2>1, <2>2, EdgeAdded
  <2>4. \A m \in Nodes : Cardinality(In(active', m, Async)) \in Nat
    BY <2>3, InCount
  <2>5. RequiredIsActive'
    BY <1>2, <1>3, <2>3, <2>4, RequiredNext, SameGraph
  <2>6. QED BY <2>3, <2>5 DEF CountInv
<1>11. QED BY <1>3, <1>9, <1>10 DEF GraphInv

\* deactivate_target: the decrement of required, of a target that is active.
LEMMA UnrequireMain ==
    ASSUME GraphInv, NEW g \in Nodes, Unrequire(g)
    PROVE  GraphInv'
<1> DEFINE n == node[Main]
<1>0. Main \in Threads /\ n \in Nodes
    BY DEF Threads, GraphInv, ShapeInv
<1>1. \/ Phase = "deactivate" /\ g \in todo[Main]
      \/ Phase = "giving" /\ g = tgt[Main] /\ g \notin todo[Main]
    BY DEF Unrequire, Phase, Giving, GraphInv, MainInv
<1>2. /\ UNCHANGED <<op, node, tgt, prepared, linked, setup>>
      /\ required' = IF n \in Async THEN required ELSE [required EXCEPT ![g] = @ - 1]
      /\ active' = active \ {<<n, g>>} /\ todo' = [todo EXCEPT ![Main] = @ \ {g}]
      /\ pc' = [pc EXCEPT ![Main] = "deactivate"]
    BY DEF Unrequire, choice, Goto
<1>3. ShapeInv' /\ Phase' = "deactivate"
  <2>1. required' \in [Nodes -> Int]
    BY <1>2 DEF GraphInv, ShapeInv
  <2>2. todo' \in [Threads -> SUBSET Nodes]
    BY <1>0, <1>2 DEF GraphInv, ShapeInv
  <2>3. QED BY <1>2, <2>1, <2>2, MainMove DEF GraphInv, ShapeInv, OpNames, Giving
<1>4. todo'[Main] = todo[Main] \ {g}
    BY <1>0, <1>2 DEF GraphInv, ShapeInv
<1>5. g \in Waits /\ Waits' = Waits \ {g}
    BY <1>1, <1>3, <1>4 DEF Waits
<1>6. \A a : a = n =>
        /\ ActiveTargets(a) = IF op[Main] = "unprepare" THEN Waits ELSE Targets(a) \cup Waits
        /\ ActiveTargets(a)' = IF op[Main] = "unprepare" THEN Waits' ELSE Targets(a) \cup Waits'
    BY <1>1, <1>2, <1>3, SameGraph DEF ActiveTargets
<1>7. \A a : a # n => ActiveTargets(a)' = ActiveTargets(a)
    BY <1>1, <1>2, <1>3, SameGraph DEF ActiveTargets
<1>8. op[Main] # "unprepare" => prepared[n] /\ Waits \cap Targets(n) = {}
    BY <1>1 DEF GraphInv, MainInv
<1>9. <<n, g>> \in active
    BY <1>0, <1>5, <1>6 DEF GraphInv, MainInv
<1>10. \A a, b \in Nodes : <<a, b>> \in active' <=> b \in ActiveTargets(a)'
  <2> SUFFICES ASSUME NEW a \in Nodes, NEW b \in Nodes
               PROVE  <<a, b>> \in active' <=> b \in ActiveTargets(a)'
    OBVIOUS
  <2>1. <<a, b>> \in active <=> b \in ActiveTargets(a)
    BY DEF GraphInv, MainInv
  <2>2. <<a, b>> \in active' <=> <<a, b>> \in active /\ ~(a = n /\ b = g)
    BY <1>2
  <2>3. CASE a = n
    <3>1. /\ ActiveTargets(a) = IF op[Main] = "unprepare" THEN Waits ELSE Targets(a) \cup Waits
          /\ ActiveTargets(a)' = IF op[Main] = "unprepare" THEN Waits' ELSE Targets(a) \cup Waits'
      BY <1>6, <2>3
    <3>2. QED BY <1>5, <1>8, <2>1, <2>2, <2>3, <3>1
  <2>4. CASE a # n
    BY <1>7, <2>1, <2>2, <2>4
  <2>5. QED BY <2>3, <2>4
<1>11. MainInv'
    BY <1>1, <1>2, <1>3, <1>5, <1>8, <1>10, SameGraph DEF GraphInv, MainInv
<1>12. CountInv'
  <2>1. IsFiniteSet(active)
    BY DEF GraphInv, CountInv
  <2>2. \A m \in Nodes : required[m] = Cardinality(In(active, m, Async)) + 0
    BY <1>1, Required DEF GraphInv, CountInv
  <2>3. required \in [Nodes -> Int]
    BY DEF GraphInv, ShapeInv
  <2> HIDE DEF n
  <2>4. IsFiniteSet(active') /\ \A m \in Nodes :
            /\ Cardinality(In(active', m, Async)) \in Nat
            /\ Cardinality(In(active, m, Async)) =
                  Cardinality(In(active', m, Async)) + (IF m = g /\ n \notin Async THEN 1 ELSE 0)
    <3>1. active' = active \ {<<n, g>>}
      BY <1>2
    <3>2. IsFiniteSet(active \ {<<n, g>>}) /\ \A m \in Nodes :
            /\ Cardinality(In(active \ {<<n, g>>}, m, Async)) \in Nat
            /\ Cardinality(In(active, m, Async)) =
                  Cardinality(In(active \ {<<n, g>>}, m, Async)) + (IF m = g /\ n \notin Async THEN 1 ELSE 0)
      BY <1>9, <2>1, EdgeRemoved
    <3>3. QED BY <3>1, <3>2
  <2>5. ASSUME NEW m \in Nodes PROVE required'[m] = Cardinality(In(active', m, Async)) + 0
    <3> DEFINE before == Cardinality(In(active, m, Async))
               after == Cardinality(In(active', m, Async))
    <3>1. /\ required[m] = before + 0 /\ after \in Nat
          /\ before = after + (IF m = g /\ n \notin Async THEN 1 ELSE 0)
      BY <2>2, <2>4
    <3>2. required' = IF n \in Async THEN required ELSE [required EXCEPT ![g] = @ - 1]
      BY <1>2
    <3> HIDE DEF before, after
    <3>3. required'[m] = after + 0
      BY <2>3, <3>1, <3>2
    <3>4. QED BY <3>3 DEF after
  <2>6. RequiredIsActive'
    BY <1>2, <1>3, <2>5, RequiredNext, SameGraph
  <2>7. QED BY <2>4, <2>6 DEF CountInv
<1>13. QED BY <1>3, <1>11, <1>12 DEF GraphInv

\* The end of a handler of the main thread: nothing is left to be dealt with.
LEMMA ReturnMain ==
    ASSUME GraphInv, Return(Main)
    PROVE  GraphInv'
<1> DEFINE n == node[Main]
<1>0. Main \in Threads /\ n \in Nodes
    BY DEF Threads, GraphInv, ShapeInv
<1>1. Phase \in {"require", "deactivate"} /\ todo[Main] = {}
    BY DEF Return, GraphInv, ShapeInv, Phase, Giving
<1>2. /\ UNCHANGED <<op, node, todo, tgt, linked, active, required, setup>>
      /\ pc' = [pc EXCEPT ![Main] = "idle"]
    BY DEF Return, recordVars, choice, Goto
<1>3. op[Main] \in {"prepare", "unprepare", "link", "unlink"} /\ Waits = {}
    BY <1>1 DEF GraphInv, MainInv, Waits
<1>4. /\ op[Main] = "prepare" => prepared' = [prepared EXCEPT ![n] = TRUE]
      /\ op[Main] = "unprepare" => prepared' = [prepared EXCEPT ![n] = FALSE]
      /\ op[Main] \in {"link", "unlink"} => prepared' = prepared /\ prepared[n]
    BY <1>1, <1>3 DEF Return, GraphInv, MainInv
<1>5. prepared' \in [Nodes -> BOOLEAN]
    BY <1>3, <1>4 DEF GraphInv, ShapeInv
<1>6. ShapeInv' /\ Phase' = "idle"
    BY <1>2, <1>5, MainMove DEF GraphInv, ShapeInv, OpNames, Giving
<1>7. ASSUME NEW a \in Nodes PROVE ActiveTargets(a)' = ActiveTargets(a)
  <2>1. Targets(a)' = Targets(a)
    BY <1>2, SameGraph
  <2>2. ActiveTargets(a)' = IF prepared'[a] THEN Targets(a) ELSE {}
    BY <1>6, <2>1 DEF ActiveTargets
  <2>3. CASE a # n
    <3>1. prepared'[a] = prepared[a]
      BY <1>0, <1>3, <1>4, <2>3 DEF GraphInv, ShapeInv
    <3>2. QED BY <2>2, <2>3, <3>1 DEF ActiveTargets
  <2>4. CASE a = n
    <3>1. ActiveTargets(a) = IF op[Main] = "unprepare" THEN {} ELSE Targets(a)
      BY <1>1, <1>3, <2>4 DEF ActiveTargets, GraphInv, MainInv
    <3>2. prepared'[a] <=> op[Main] # "unprepare"
      BY <1>0, <1>3, <1>4, <2>4 DEF GraphInv, ShapeInv
    <3>3. QED BY <2>2, <3>1, <3>2
  <2>5. QED BY <2>3, <2>4
<1>8. MainInv'
    BY <1>2, <1>6, <1>7, SameGraph DEF GraphInv, MainInv
<1>9. CountInv'
    BY <1>1, <1>2, <1>6, CountKept DEF GraphInv
<1>10. QED BY <1>6, <1>8, <1>9 DEF GraphInv

\* do_node_prepare begins: no target of the node is active.
LEMMA PrepareMain ==
    ASSUME GraphInv, NEW n \in Nodes, Prepare(n)
    PROVE  GraphInv'
<1>0. Main \in Threads /\ Main \notin Loops /\ Targets(n) \in SUBSET Nodes
    BY GraphFacts, TargetsAreNodes DEF GraphInv, ShapeInv
<1>1. Phase = "idle" /\ ~prepared[n]
    BY DEF Prepare, Free, Phase, Giving
<1>2. /\ UNCHANGED <<tgt, linked, prepared, active, required, setup>>
      /\ Enter(Main, "require", "prepare", n, Targets(n))
    BY DEF Prepare, graphVars, choice, Allowed
<1>3. ShapeInv' /\ Phase' = "require"
  <2>1. op' \in [Threads -> OpNames] /\ \A t \in Loops : op'[t] = op[t]
    BY <1>0, <1>2 DEF Enter, GraphInv, ShapeInv, OpNames
  <2>2. node' \in [Threads -> Nodes] /\ todo' \in [Threads -> SUBSET Nodes]
    BY <1>0, <1>2 DEF Enter, GraphInv, ShapeInv
  <2>3. QED BY <1>2, <2>1, <2>2, MainMove DEF Enter, GraphInv, ShapeInv, Giving
<1>4. op'[Main] = "prepare" /\ node'[Main] = n /\ todo'[Main] = Targets(n)
    BY <1>0, <1>2 DEF Enter, GraphInv, ShapeInv
<1>5. Waits' = Targets(n)
    BY <1>3, <1>4 DEF Waits
<1>6. ASSUME NEW a \in Nodes PROVE ActiveTargets(a)' = ActiveTargets(a)
  <2>1. Targets(a)' = Targets(a)
    BY <1>2, SameGraph
  <2>2. QED BY <1>1, <1>2, <1>3, <1>4, <1>5, <2>1 DEF ActiveTargets
<1>7. (Waits \subseteq Targets(node[Main]))'
    BY <1>2, <1>4, <1>5, SameGraph DEF Targets
<1>8. MainInv'
    BY <1>2, <1>3, <1>4, <1>6, <1>7, SameGraph DEF GraphInv, MainInv
<1>9. CountInv'
    BY <1>1, <1>2, <1>3, CountKept DEF GraphInv
<1>10. QED BY <1>3, <1>8, <1>9 DEF GraphInv

\* do_node_unprepare begins: all targets of the node are active.
LEMMA UnprepareMain ==
    ASSUME GraphInv, NEW n \in Nodes, Unprepare(n)
    PROVE  GraphInv'
<1>0. Main \in Threads /\ Main \notin Loops /\ Targets(n) \in SUBSET Nodes
    BY GraphFacts, TargetsAreNodes DEF GraphInv, ShapeInv
<1>1. Phase = "idle" /\ prepared[n]
    BY DEF Unprepare, Free, Phase, Giving
<1>2. /\ UNCHANGED <<tgt, linked, prepared, active, required, setup>>
      /\ Enter(Main, "deactivate", "unprepare", n, Targets(n))
    BY DEF Unprepare, graphVars, Allowed
<1>3. ShapeInv' /\ Phase' = "deactivate"
  <2>1. op' \in [Threads -> OpNames] /\ \A t \in Loops : op'[t] = op[t]
    BY <1>0, <1>2 DEF Enter, GraphInv, ShapeInv, OpNames
  <2>2. node' \in [Threads -> Nodes] /\ todo' \in [Threads -> SUBSET Nodes]
    BY <1>0, <1>2 DEF Enter, GraphInv, ShapeInv
  <2>3. QED BY <1>2, <2>1, <2>2, MainMove DEF Enter, GraphInv, ShapeInv, Giving
<1>4. op'[Main] = "unprepare" /\ node'[Main] = n /\ todo'[Main] = Targets(n)
    BY <1>0, <1>2 DEF Enter, GraphInv, ShapeInv
<1>5. Waits' = Targets(n)
    BY <1>3, <1>4 DEF Waits
<1>6. ASSUME NEW a \in Nodes PROVE ActiveTargets(a)' = ActiveTargets(a)
  <2>1. Targets(a)' = Targets(a)
    BY <1>2, SameGraph
  <2>2. QED BY <1>1, <1>2, <1>3, <1>4, <1>5, <2>1 DEF ActiveTargets
<1>7. MainInv'
    BY <1>2, <1>3, <1>4, <1>6, SameGraph DEF GraphInv, MainInv
<1>8. CountInv'
    BY <1>1, <1>2, <1>3, CountKept DEF GraphInv
<1>9. QED BY <1>3, <1>7, <1>8 DEF GraphInv

\* A link is one target of its output node, and of no other.
LEMMA LinkTargets ==
    ASSUME ShapeInv, NEW f \in Followers, NEW g \in Followers, setup' = setup
    PROVE  /\ g \in Targets(f) <=> <<f, g>> \in linked
           /\ linked' = linked \cup {<<f, g>>} => \A a : Targets(a)' = IF a = f THEN Targets(a) \cup {g} ELSE Targets(a)
           /\ linked' = linked \ {<<f, g>>} => \A a : Targets(a)' = IF a = f THEN Targets(a) \ {g} ELSE Targets(a)
<1>1. \A l \in linked : l = <<l[1], l[2]>>
    BY GraphFacts DEF ShapeInv
<1>2. f # Driver /\ g # Driver /\ Nodes' = Nodes
    BY GraphFacts, SameGraph DEF ShapeInv
<1>3. g \in Targets(f) <=> <<f, g>> \in linked
    BY <1>1, <1>2 DEF Targets
<1>4. ASSUME linked' = linked \cup {<<f, g>>}, NEW a
      PROVE  Targets(a)' = IF a = f THEN Targets(a) \cup {g} ELSE Targets(a)
  <2> DEFINE peers == IF a = Driver THEN Nodes ELSE {Driver}
  <2>1. \A l \in linked' : l = <<l[1], l[2]>>
    BY <1>1, <1>4
  <2>2. \A x : x \in Targets(a) <=> <<a, x>> \in linked \/ x \in peers
    BY <1>1 DEF Targets
  <2>3. \A x : x \in Targets(a)' <=> <<a, x>> \in linked' \/ x \in peers
    BY <1>2, <2>1 DEF Targets
  <2>4. \A x : <<a, x>> \in linked' <=> <<a, x>> \in linked \/ (a = f /\ x = g)
    BY <1>4
  <2> HIDE DEF peers
  <2>5. CASE a = f
    BY <2>2, <2>3, <2>4, <2>5
  <2>6. CASE a # f
    BY <2>2, <2>3, <2>4, <2>6
  <2>7. QED BY <2>5, <2>6
<1>5. ASSUME linked' = linked \ {<<f, g>>}, NEW a
      PROVE  Targets(a)' = IF a = f THEN Targets(a) \ {g} ELSE Targets(a)
    BY <1>1, <1>2, <1>5 DEF Targets
<1>6. QED BY <1>3, <1>4, <1>5

\* do_add_target: the new target is not active, and becomes so if the node is
\* prepared.
LEMMA AddMain ==
    ASSUME GraphInv, NEW f \in Followers, NEW g \in Followers, AddTarget(f, g)
    PROVE  GraphInv'
<1>0. /\ Main \in Threads /\ Main \notin Loops /\ f \in Nodes /\ g \in Nodes
      /\ <<f, g>> \in Links /\ <<f, g>> \notin linked
    BY GraphFacts DEF GraphInv, ShapeInv, AddTarget
<1>1. Phase = "idle"
    BY DEF AddTarget, Free, Phase, Giving
<1>2. /\ UNCHANGED <<tgt, prepared, active, required, setup>> /\ linked' = linked \cup {<<f, g>>}
      /\ IF prepared[f] THEN Enter(Main, "require", "link", f, {g}) ELSE UNCHANGED <<pc, op, node, todo>>
    BY DEF AddTarget, recordVars, Allowed
<1>3. g \notin Targets(f) /\ \A a : Targets(a)' = IF a = f THEN Targets(a) \cup {g} ELSE Targets(a)
    BY <1>0, <1>2, LinkTargets DEF GraphInv
<1>4. linked' \subseteq Links
    BY <1>0, <1>2 DEF GraphInv, ShapeInv
<1>5. CASE prepared[f]
  <2>1. ShapeInv' /\ Phase' = "require"
    <3>0. \E o \in {"link", "unlink"} : op' = [op EXCEPT ![Main] = o]
      BY <1>2, <1>5 DEF Enter
    <3>1. op' \in [Threads -> OpNames] /\ \A t \in Loops : op'[t] = op[t]
      BY <1>0, <3>0 DEF GraphInv, ShapeInv, OpNames
    <3>2. node' \in [Threads -> Nodes] /\ todo' \in [Threads -> SUBSET Nodes]
      BY <1>0, <1>2, <1>5 DEF Enter, GraphInv, ShapeInv
    <3>3. QED BY <1>2, <1>4, <1>5, <3>1, <3>2, MainMove DEF Enter, GraphInv, ShapeInv, Giving
  <2>2. op'[Main] = "link" /\ node'[Main] = f /\ todo'[Main] = {g}
    BY <1>0, <1>2, <1>5 DEF Enter, GraphInv, ShapeInv
  <2>3. Waits' = {g}
    BY <2>1, <2>2 DEF Waits
  <2>4. ASSUME NEW a \in Nodes PROVE ActiveTargets(a)' = ActiveTargets(a)
    <3>1. Targets(a)' = IF a = f THEN Targets(a) \cup {g} ELSE Targets(a)
      BY <1>3
    <3>2. CASE a = f
      BY <1>1, <1>3, <1>5, <2>1, <2>2, <2>3, <3>1, <3>2 DEF ActiveTargets
    <3>3. CASE a # f
      BY <1>1, <1>2, <2>1, <2>2, <3>1, <3>3 DEF ActiveTargets
    <3>4. QED BY <3>2, <3>3
  <2>5. (Waits \subseteq Targets(node[Main]))'
    <3>1. g \in Targets(f)'
      BY <1>3
    <3>2. QED BY <2>2, <2>3, <3>1 DEF Targets
  <2>6. MainInv'
    BY <1>2, <1>5, <2>1, <2>2, <2>4, <2>5, SameGraph DEF GraphInv, MainInv
  <2>7. CountInv'
    BY <1>1, <1>2, <2>1, CountKept DEF GraphInv
  <2>8. QED BY <2>1, <2>6, <2>7 DEF GraphInv
<1>6. CASE ~prepared[f]
  <2>1. ShapeInv' /\ Phase' = "idle"
    BY <1>1, <1>2, <1>4, <1>6, SameGraph DEF GraphInv, ShapeInv, Phase
  <2>2. ASSUME NEW a \in Nodes PROVE ActiveTargets(a)' = ActiveTargets(a)
    <3>1. Targets(a)' = IF a = f THEN Targets(a) \cup {g} ELSE Targets(a)
      BY <1>3
    <3>2. QED BY <1>1, <1>2, <1>6, <2>1, <3>1 DEF ActiveTargets
  <2>3. MainInv'
    BY <1>2, <2>1, <2>2, SameGraph DEF GraphInv, MainInv
  <2>4. CountInv'
    BY <1>1, <1>2, <2>1, CountKept DEF GraphInv
  <2>5. QED BY <2>1, <2>3, <2>4 DEF GraphInv
<1>7. QED BY <1>5, <1>6

\* do_remove_target: the target is active if the node is prepared, and becomes
\* inactive.
LEMMA RemoveMain ==
    ASSUME GraphInv, NEW f \in Followers, NEW g \in Followers, RemoveTarget(f, g)
    PROVE  GraphInv'
<1>0. /\ Main \in Threads /\ Main \notin Loops /\ f \in Nodes /\ g \in Nodes /\ <<f, g>> \in linked
    BY GraphFacts DEF GraphInv, ShapeInv, RemoveTarget
<1>1. Phase = "idle"
    BY DEF RemoveTarget, Free, Phase, Giving
<1>2. /\ UNCHANGED <<tgt, prepared, active, required, setup>> /\ linked' = linked \ {<<f, g>>}
      /\ IF prepared[f] THEN Enter(Main, "deactivate", "unlink", f, {g})
         ELSE UNCHANGED <<pc, op, node, todo>>
    BY DEF RemoveTarget, recordVars, Allowed
<1>3. g \in Targets(f) /\ \A a : Targets(a)' = IF a = f THEN Targets(a) \ {g} ELSE Targets(a)
    BY <1>0, <1>2, LinkTargets DEF GraphInv
<1>4. linked' \subseteq Links
    BY <1>2 DEF GraphInv, ShapeInv
<1>5. CASE prepared[f]
  <2>1. ShapeInv' /\ Phase' = "deactivate"
    <3>0. \E o \in {"link", "unlink"} : op' = [op EXCEPT ![Main] = o]
      BY <1>2, <1>5 DEF Enter
    <3>1. op' \in [Threads -> OpNames] /\ \A t \in Loops : op'[t] = op[t]
      BY <1>0, <3>0 DEF GraphInv, ShapeInv, OpNames
    <3>2. node' \in [Threads -> Nodes] /\ todo' \in [Threads -> SUBSET Nodes]
      BY <1>0, <1>2, <1>5 DEF Enter, GraphInv, ShapeInv
    <3>3. QED BY <1>2, <1>4, <1>5, <3>1, <3>2, MainMove DEF Enter, GraphInv, ShapeInv, Giving
  <2>2. op'[Main] = "unlink" /\ node'[Main] = f /\ todo'[Main] = {g}
    BY <1>0, <1>2, <1>5 DEF Enter, GraphInv, ShapeInv
  <2>3. Waits' = {g}
    BY <2>1, <2>2 DEF Waits
  <2>4. ASSUME NEW a \in Nodes PROVE ActiveTargets(a)' = ActiveTargets(a)
    <3>1. Targets(a)' = IF a = f THEN Targets(a) \ {g} ELSE Targets(a)
      BY <1>3
    <3>2. CASE a = f
      BY <1>1, <1>3, <1>5, <2>1, <2>2, <2>3, <3>1, <3>2 DEF ActiveTargets
    <3>3. CASE a # f
      BY <1>1, <1>2, <2>1, <2>2, <3>1, <3>3 DEF ActiveTargets
    <3>4. QED BY <3>2, <3>3
  <2>5. (Waits \cap Targets(node[Main]) = {})'
    <3>1. g \notin Targets(f)'
      BY <1>3
    <3>2. QED BY <2>2, <2>3, <3>1 DEF Targets
  <2>6. MainInv'
    BY <1>2, <1>5, <2>1, <2>2, <2>4, <2>5, SameGraph DEF GraphInv, MainInv
  <2>7. CountInv'
    BY <1>1, <1>2, <2>1, CountKept DEF GraphInv
  <2>8. QED BY <2>1, <2>6, <2>7 DEF GraphInv
<1>6. CASE ~prepared[f]
  <2>1. ShapeInv' /\ Phase' = "idle"
    BY <1>1, <1>2, <1>4, <1>6, SameGraph DEF GraphInv, ShapeInv, Phase
  <2>2. ASSUME NEW a \in Nodes PROVE ActiveTargets(a)' = ActiveTargets(a)
    <3>1. Targets(a)' = IF a = f THEN Targets(a) \ {g} ELSE Targets(a)
      BY <1>3
    <3>2. QED BY <1>1, <1>2, <1>6, <2>1, <3>1 DEF ActiveTargets
  <2>3. MainInv'
    BY <1>2, <2>1, <2>2, SameGraph DEF GraphInv, MainInv
  <2>4. CountInv'
    BY <1>1, <1>2, <2>1, CountKept DEF GraphInv
  <2>5. QED BY <2>1, <2>3, <2>4 DEF GraphInv
<1>7. QED BY <1>5, <1>6

-----------------------------------------------------------------------------
\* At first no node is prepared and no target active.
LEMMA InitGraphInv == Init => GraphInv
<1> SUFFICES ASSUME Init PROVE GraphInv
    OBVIOUS
<1>1. ShapeInv /\ Phase = "idle"
    BY GraphFacts DEF Init, ShapeInv, Phase, Labels, Giving
<1>2. MainInv
    BY <1>1 DEF Init, MainInv, ActiveTargets
<1>3. CountInv
  <2>1. \A n \in Nodes : {e \in active : e[2] = n /\ e[1] \notin Async} = {} /\ required[n] = 0
    BY DEF Init
  <2>2. pc[Main] # "expect"
    BY <1>1 DEF Phase
  <2>3. IsFiniteSet(active) /\ Cardinality({}) = 0
    BY FS_EmptySet DEF Init
  <2>4. QED BY <2>1, <2>2, <2>3 DEF CountInv, RequiredIsActive
<1>4. QED BY <1>1, <1>2, <1>3 DEF GraphInv

\* Every step keeps the invariant.
LEMMA NextGraphInv == GraphInv /\ [Next]_vars => GraphInv'
<1> SUFFICES ASSUME GraphInv, [Next]_vars PROVE GraphInv'
    OBVIOUS
<1>0. ASSUME ShapeInv', UNCHANGED mainView PROVE GraphInv'
    BY <1>0, ViewUnchanged DEF GraphInv
<1>1. CASE Lifecycle
    BY <1>1, PrepareMain, UnprepareMain, AddMain, RemoveMain DEF Lifecycle
<1>2. CASE NodeReady \/ \E n \in Nodes : ProcessNode(n)
    BY <1>0, <1>2, EventKeeps DEF GraphInv
<1>3. ASSUME NEW t \in Loops, Step(t) PROVE GraphInv'
    BY <1>0, <1>3, LoopKeeps DEF GraphInv
<1>4. CASE Step(Main)
  <2>1. Main \in Threads
    BY DEF Threads
  <2>2. Phase \in {"idle", "require", "expect", "deactivate", "giving"}
    BY DEF GraphInv, ShapeInv
  <2>3. pc[Main] \notin {"processing", "reset_load", "reset_store", "status_load", "rearm"}
    BY <2>2 DEF Phase, Giving
  <2>4. ~ProcessDone(Main) /\ ~Ready(Main)
    BY <2>3 DEF ProcessDone, Ready, ResetLoad, ResetStore, StatusLoad, Rearm, StartGraph
  <2>5. CASE TriggerTail(Main)
    BY <1>0, <2>1, <2>5, TailKeeps DEF GraphInv
  <2>6. CASE \E g \in Nodes : Trigger(Main, g)
    BY <2>6, TriggerMain
  <2>7. CASE Activate \/ Expect
    BY <2>7, RequireMain, UnrequireMain, ExpectMain DEF Activate
  <2>8. CASE Return(Main)
    BY <2>8, ReturnMain
  <2>9. QED BY <1>4, <2>4, <2>5, <2>6, <2>7, <2>8 DEF Step, TriggerTargets, TriggerTail
<1>5. CASE UNCHANGED vars
  <2>1. ShapeInv' /\ UNCHANGED mainView
    BY <1>5, SameGraph DEF GraphInv, ShapeInv, mainView, Phase, vars, recordVars, graphVars, threadVars,
                           locals, choice
  <2>2. QED BY <1>0, <2>1
<1>6. QED BY <1>1, <1>2, <1>3, <1>4, <1>5 DEF Next, Threads

\* The targets that are active are those the lists and rt.prepared say, but for
\* the handler the main thread is in, and required counts them.
THEOREM GraphInvariant == Spec => []GraphInv
    BY InitGraphInv, NextGraphInv, PTL DEF Spec

\* activate_target and deactivate_target keep required equal to the number of
\* nodes that will trigger, whatever nodes are started, stopped, linked and
\* unlinked while the data loops run.
THEOREM RequiredCounts == Spec => []RequiredIsActive
<1>1. GraphInv => RequiredIsActive
    BY DEF GraphInv, CountInv
<1>2. QED BY <1>1, GraphInvariant, PTL
=============================================================================
