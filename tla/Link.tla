-------------------------------- MODULE Link ---------------------------------
(***************************************************************************)
(* How links are prepared: src/pipewire/impl-link.c on the work queue of   *)
(* work-queue.c, with the port calls of impl-port.c that it makes.  A link *)
(* negotiates a format for its two ports, gives them buffers and becomes   *)
(* PAUSED; links that share a port take turns by its busy_count.  A port   *)
(* of a client's node answers later: a request it refuses sends an error,  *)
(* and the sync sent after every request brings a pong.                    *)
(*                                                                         *)
(* Everything runs on the main loop, one event at a time; a pass over the  *)
(* work queue is one event, of one step for each item visited.  The state  *)
(* of the loop's objects is one record, and every function of the code an  *)
(* operator that returns the record it leaves behind.                      *)
(*                                                                         *)
(* The nodes are active and running: the reconfiguration of idle nodes,    *)
(* nodes in error and control ports are left out.                          *)
(***************************************************************************)
EXTENDS WorkQueue, FiniteSets

CONSTANTS
    Ports,
    LinkOrder,     \* the links in the order in which they were made
    OutPort, InPort,  \* the ports of each link
    Setups,        \* what the ports are, see below
    Formats,
    MaxFaults      \* refusals, suspensions, new formats and removals

Links == Range(LinkOrder)
Ends == {"out", "in"}

ASSUME LinkAssumption ==
    /\ OutPort \in [Links -> Ports] /\ InPort \in [Links -> Ports]
    /\ \A l, k \in Links : OutPort[l] # InPort[k]
    /\ Setups \subseteq [remote : SUBSET Ports, alloc : SUBSET Ports, driver : SUBSET Ports]
    /\ MaxFaults \in Nat

(* enum pw_link_state, enum pw_impl_port_state *)
L_ERROR == -2
L_INIT == 0
L_NEGOTIATING == 1
L_ALLOCATING == 2
L_PAUSED == 3
L_ACTIVE == 4
P_ERROR == -1
P_INIT == 0
P_CONFIGURE == 1
P_READY == 2
P_PAUSED == 3

NoFormat == "none"

VARIABLES
    s,          \* the work queue, ports, links, and what clients have to answer
    cursor,     \* the index of the item a pass visits next, 0 between passes
    setup,      \* the ports of clients' nodes, of nodes that allocate the
                \* buffers of their output, and of driver nodes
    failed,     \* links that were in ERROR since they last were in INIT
    faults

vars == <<s, cursor, setup, failed, faults>>

IdleEnd == [busy_id |-> NoId, pending_seq |-> NoSeq, result |-> 0, have_buffers |-> FALSE]

Init ==
    /\ s = [work |-> EmptyQueue,
            port |-> [p \in Ports |-> [state |-> P_CONFIGURE, busy_count |-> 0,
                                       format |-> NoFormat, buffers |-> FALSE]],
            link |-> [l \in Links |->
                        [state |-> L_INIT, prepared |-> FALSE, preparing |-> FALSE,
                         activated |-> FALSE, destroyed |-> FALSE,
                         end |-> [e \in Ends |-> IdleEnd]]],
            recalc |-> "free",
            chan |-> [p \in Ports |-> <<>>]]
    /\ cursor = 0
    /\ setup \in Setups
    /\ failed = {}
    /\ faults = 0

Remote == setup.remote         \* their calls are asynchronous
CanAlloc == setup.alloc        \* SPA_PORT_FLAG_CAN_ALLOC_BUFFERS
Drivers == setup.driver

PortOf(l, e) == IF e = "out" THEN OutPort[l] ELSE InPort[l]

(* The links of port p of a direction, in the order of its listeners, that *)
(* have not been removed; port->n_mix is their number.                     *)
LinksAt(t, p) == SelectSeq(LinkOrder, LAMBDA l : p \in {OutPort[l], InPort[l]} /\ ~t.link[l].destroyed)

-----------------------------------------------------------------------------
(* Fresh ids and sequence numbers. *)

Fresh(used) == CHOOSE n \in 1 .. Cardinality(used) + 1 : n \notin used /\ \A m \in 1 .. n - 1 : m \in used

IdsHeld(t) ==
    {t.work.items[i].id : i \in DOMAIN t.work.items}
        \union {t.link[l].end[e].busy_id : l \in Links, e \in Ends}

(* The numbers of a client's connection.  A request and the ping after it  *)
(* are told apart by who compares them, and may have the same number.      *)
SeqsHeld(t, p) ==
    LET ends == {x \in Links \X Ends : PortOf(x[1], x[2]) = p}
    IN  {t.work.items[i].seq : i \in {j \in DOMAIN t.work.items : t.work.items[j].obj \in ends}}
            \union {t.link[x[1]].end[x[2]].pending_seq : x \in ends}
            \union {t.chan[p][i].seq : i \in DOMAIN t.chan[p]}

(* A message to the client of port p: a request, or the ping of a sync. *)
Send(t, p, kind, seq) == [t EXCEPT !.chan[p] = Append(@, [kind |-> kind, seq |-> seq])]

(* spa_node_sync on a busy port, with nothing to do when it is answered *)
Sync(t, l, e) ==
    LET p == PortOf(l, e)
        seq == IF p \in Remote THEN Fresh(SeqsHeld(t, p)) ELSE NoSeq
        u == IF p \in Remote THEN Send(t, p, "ping", seq) ELSE t
    IN  [u EXCEPT !.work = WorkAdd(@, NoId, <<l, e>>, seq, "sync", FALSE)]

CheckLater(t, l) == [t EXCEPT !.work = WorkAdd(@, NoId, <<l, "link">>, NoSeq, "check", TRUE)]

(* pw_impl_link_prepare *)
Prepare(t, l) ==
    IF t.link[l].destroyed \/ t.link[l].preparing \/ t.link[l].prepared THEN t
    ELSE CheckLater([t EXCEPT !.link[l].preparing = TRUE], l)

(* pw_context_recalc_graph: the scheduler prepares the links of all active *)
(* nodes, unless it is frozen, when it is left pending for the thaw.       *)
RecalcGraph(t) ==
    IF t.recalc = "frozen" THEN [t EXCEPT !.recalc = "pending"]
    ELSE IF t.recalc = "pending" THEN t
    ELSE FoldLeft(Prepare, t, LinkOrder)

(* pw_context_freeze_recalc_graph, pw_context_thaw_recalc_graph *)
Freeze(t) == [t EXCEPT !.recalc = "frozen"]
Thaw(t) ==
    LET u == [t EXCEPT !.recalc = "free"]
    IN  IF t.recalc = "pending" THEN RecalcGraph(u) ELSE u

-----------------------------------------------------------------------------
(* An update of the id that leaves the port's busy_count alone. *)
Bug_SetBusyNoCount(t, l, e, id, seq) ==
    [t EXCEPT !.link[l].end[e].busy_id = id, !.link[l].end[e].pending_seq = seq,
              !.link[l].end[e].result = 0]

(* port_set_busy_id: the result it returns is end.result of before. *)
SetBusy(t, l, e, id, seq) ==
    LET old == t.link[l].end[e].busy_id
        delta == (IF id = NoId THEN 0 ELSE 1) - (IF old = NoId THEN 0 ELSE 1)
    IN  [t EXCEPT !.port[PortOf(l, e)].busy_count = @ + delta,
                  !.link[l].end[e].busy_id = id,
                  !.link[l].end[e].pending_seq = seq,
                  !.link[l].end[e].result = 0]

ClearEnd(t, l, e) ==
    [SetBusy(t, l, e, NoId, NoSeq) EXCEPT !.work = WorkCancel(@, <<l, e>>)]

(* link_update_state *)
UpdateLink(t, l, state) ==
    LET old == t.link[l].state
        u == [t EXCEPT !.link[l].state = state]
        v == [u EXCEPT !.link[l].prepared = (state = L_PAUSED), !.link[l].preparing = FALSE]
    IN  CASE state = old -> t
          [] (old < L_PAUSED /\ state = L_PAUSED) \/ (old >= L_PAUSED /\ state < L_PAUSED) ->
                 RecalcGraph(v)
          [] old < L_PAUSED /\ state = L_INIT /\ old # L_INIT ->
                 ClearEnd(ClearEnd(v, l, "out"), l, "in")
          [] OTHER -> u

(* port_state_changed, for one of the links of port p.  A port in INIT      *)
(* that is configured again first gives up what the link waits for.        *)
FollowPort(t, l, old, state) ==
    IF state = P_ERROR THEN UpdateLink(t, l, L_ERROR)
    ELSE IF state # P_PAUSED /\ (t.link[l].prepared \/ state < old)
    THEN UpdateLink([t EXCEPT !.link[l].prepared = FALSE, !.link[l].preparing = FALSE], l,
                    IF state = P_READY THEN L_NEGOTIATING ELSE L_INIT)
    ELSE t

PortStateChanged(t, l, p, old, state) ==
    IF state \in {P_INIT, P_CONFIGURE} /\ old = P_INIT
    THEN FollowPort(ClearEnd(t, l, IF p = OutPort[l] THEN "out" ELSE "in"), l, P_READY, state)
    ELSE FollowPort(t, l, old, state)

(* pw_impl_port_update_state *)
UpdatePort(t, p, state) ==
    LET old == t.port[p].state
    IN  IF old = state THEN t
        ELSE FoldLeft(LAMBDA u, l : PortStateChanged(u, l, p, old, state),
                      [t EXCEPT !.port[p].state = state], LinksAt(t, p))

-----------------------------------------------------------------------------
(* pw_impl_port_use_buffers of link l's input port without buffers *)
DropInputBuffers(t, l) ==
    LET p == InPort[l]
        u == [t EXCEPT !.link[l].end["in"].have_buffers = FALSE]
    IN  IF t.port[p].state <= P_READY THEN t
        ELSE IF Len(LinksAt(t, p)) = 1 THEN UpdatePort(u, p, P_READY)
        ELSE u

(* A call on the node of port p that a client answers later. *)
Request(t, p) == IF p \in Remote THEN Send(t, p, "request", Fresh(SeqsHeld(t, p))) ELSE t

(* pw_impl_port_set_param of a Format; ok is what a local node returns. A  *)
(* port that loses its format has NoFormat.                                *)
SetFormat(t, p, format, ok) ==
    LET lost == format = NoFormat \/ ~ok
        asked == IF format = NoFormat THEN t ELSE Request(t, p)
        peers == SelectSeq(LinksAt(t, p), LAMBDA l : OutPort[l] = p)
        dropped == FoldLeft(DropInputBuffers, asked, peers)
    IN  UpdatePort([dropped EXCEPT !.port[p].buffers = FALSE,
                                   !.port[p].format = IF lost THEN NoFormat ELSE format],
                   p,
                   IF lost THEN P_CONFIGURE ELSE IF p \in Remote THEN t.port[p].state ELSE P_READY)

(* pw_impl_port_use_buffers with buffers.  The node is asked when the port *)
(* is READY; a PAUSED port has them already.                               *)
UseBuffers(t, l, e, ok) ==
    LET p == PortOf(l, e)
    IN  IF t.port[p].state < P_READY THEN [res |-> "error", t |-> t]
        ELSE IF t.port[p].state > P_READY THEN [res |-> "done", t |-> t]
        ELSE IF p \in Remote THEN [res |-> "async", t |-> Request(t, p)]
        ELSE [res |-> IF ok THEN "done" ELSE "error",
              t |-> UpdatePort(t, p, IF ok THEN P_PAUSED ELSE P_ERROR)]

(* The request just sent for end e is followed by a sync, whose pong lets  *)
(* the queue call func.                                                    *)
Await(t, l, e, func) ==
    LET p == PortOf(l, e)
        seq == Last(t.chan[p]).seq
        id == Fresh(IdsHeld(t))
        u == Send(t, p, "ping", seq)
        v == [u EXCEPT !.work = WorkAdd(@, id, <<l, e>>, seq, func, FALSE)]
    IN  SetBusy(v, l, e, id, seq)

BothAtLeast(t, l, state) ==
    t.port[InPort[l]].state >= state /\ t.port[OutPort[l]].state >= state

RaisePort(t, p, state) == IF t.port[p].state < state THEN UpdatePort(t, p, state) ELSE t

(* complete_ready once the id has been found to be the pending one *)
ReadyWhenBoth(t, l) == IF BothAtLeast(t, l, P_READY) THEN UpdateLink(t, l, L_ALLOCATING) ELSE t

CompleteReady(t, l, e, ok) ==
    IF ok THEN ReadyWhenBoth(RaisePort(t, PortOf(l, e), P_READY), l) ELSE UpdateLink(t, l, L_ERROR)

(* complete_paused *)
PausedWhenBoth(t, l) ==
    IF \A e \in Ends : t.link[l].end[e].have_buffers THEN UpdateLink(t, l, L_PAUSED) ELSE t

CompletePaused(t, l, e, ok) ==
    IF ok
    THEN PausedWhenBoth([RaisePort(t, PortOf(l, e), P_PAUSED) EXCEPT !.link[l].end[e].have_buffers = TRUE], l)
    ELSE UpdateLink([t EXCEPT !.link[l].end[e].have_buffers = FALSE], l, L_ERROR)

-----------------------------------------------------------------------------
(* The calls of check_states that may fail at once; each failure ends it.  *)
Failures == {<<"none">>, <<"find">>, <<"negotiate">>} \union ({"set", "use"} \X Ends)

(* do_negotiate sets the format at one end, if its port was in CONFIGURE   *)
(* when the negotiation started.                                           *)
Negotiated(r, l, e, format, needed, ok) ==
    LET p == PortOf(l, e)
        u == SetFormat(r.t, p, format, ok \/ p \in Remote)
    IN  IF r.res = "error" \/ ~needed THEN r
        ELSE IF p \in Remote THEN [res |-> "again", t |-> Await(u, l, e, "ready")]
        ELSE [res |-> IF ok THEN r.res ELSE "error", t |-> CompleteReady(u, l, e, ok)]

(* do_negotiate: chosen is the common format of two ports that have none.  *)
(* A result that is not 0 makes check_states come back before it allocates *)
(* buffers.                                                                *)
DoNegotiate(t, l, chosen, fail) ==
    LET first == IF OutPort[l] \in Drivers THEN "out" ELSE "in"     \* info[1]
        second == IF first = "out" THEN "in" ELSE "out"              \* info[0]
        needs(e) == t.port[PortOf(l, e)].state = P_CONFIGURE
        format == IF needs(first) /\ needs(second) THEN chosen
                  ELSE IF needs(second) THEN t.port[PortOf(l, first)].format
                  ELSE t.port[PortOf(l, second)].format
        u == UpdateLink(t, l, L_NEGOTIATING)
        start == [res |-> IF needs(first) THEN "zero" ELSE "again", t |-> u]
        half == Negotiated(start, l, first, format, needs(first), fail # <<"set", first>>)
    IN  IF t.link[l].state >= L_NEGOTIATING \/ ~(needs(first) \/ needs(second)) THEN
            [res |-> "zero", t |-> t]
        ELSE IF fail = <<"find">> \/ ~BothAtLeast(t, l, P_CONFIGURE) THEN
            [res |-> "error", t |-> UpdateLink(u, l, L_ERROR)]
        ELSE Negotiated(half, l, second, format, needs(second), fail # <<"set", second>>)

(* do_allocation for one end: its port is given the output port's buffers, *)
(* with the result r.                                                      *)
Allocated(r, l, e) ==
    LET cleared == IF e = "out" THEN [r.t EXCEPT !.port[OutPort[l]].buffers = FALSE] ELSE r.t
    IN  IF r.res = "error" THEN [res |-> "error", t |-> UpdateLink(cleared, l, L_ERROR)]
        ELSE IF r.res = "async" THEN [res |-> "async", t |-> Await(r.t, l, e, "paused")]
        ELSE [res |-> "zero", t |-> CompletePaused(r.t, l, e, TRUE)]

(* The output keeps the buffers it has or is given new ones. *)
AllocateOutput(t, l, fail) ==
    LET p == OutPort[l]
        had == t.port[p].buffers
        u == [t EXCEPT !.link[l].end["in"].have_buffers = FALSE,
                       !.link[l].end["out"].have_buffers = had]
    IN  IF had THEN [res |-> "zero", t |-> u]
        ELSE IF fail = <<"negotiate">> THEN [res |-> "error", t |-> UpdateLink(u, l, L_ERROR)]
        ELSE Allocated(UseBuffers([u EXCEPT !.port[p].buffers = TRUE], l, "out", fail # <<"use", "out">>),
                       l, "out")

AllocateInput(r, l, fail) ==
    IF r.res = "error" \/ (r.res = "async" /\ OutPort[l] \in CanAlloc) THEN r
    ELSE Allocated(UseBuffers(r.t, l, "in", fail # <<"use", "in">>), l, "in")

(* do_allocation *)
DoAllocation(t, l, fail) ==
    IF t.link[l].state > L_ALLOCATING \/ ~BothAtLeast(t, l, P_READY) THEN [res |-> "zero", t |-> t]
    ELSE AllocateInput(AllocateOutput(UpdateLink(t, l, L_ALLOCATING), l, fail), l, fail)

(* check_states: what follows the negotiation, with its result r, and what *)
(* follows the allocation.                                                 *)
ThenAllocate(r, l, fail) == IF r.res = "zero" THEN DoAllocation(r.t, l, fail) ELSE r
ThenCheckAgain(r, l) == IF r.res = "error" THEN r.t ELSE CheckLater(r.t, l)

CheckStates(t, l, chosen, fail) ==
    LET busy == {e \in Ends : t.port[PortOf(l, e)].busy_count > 0}
        first == IF "out" \in busy THEN "out" ELSE "in"
    IN  IF t.link[l].state = L_ERROR \/ t.link[l].state >= L_PAUSED THEN t
        ELSE IF P_ERROR \in {t.port[PortOf(l, e)].state : e \in Ends} THEN UpdateLink(t, l, L_ERROR)
        ELSE IF busy # {} THEN CheckLater(Sync(t, l, first), l)
        ELSE ThenCheckAgain(ThenAllocate(DoNegotiate(t, l, chosen, fail), l, fail), l)

-----------------------------------------------------------------------------
(* pw_impl_link_activate *)
ActivateLink(t, l) ==
    IF t.link[l].destroyed \/ t.link[l].activated \/ ~t.link[l].prepared THEN t
    ELSE UpdateLink([t EXCEPT !.link[l].activated = TRUE], l, L_ACTIVE)

(* pw_impl_link_deactivate *)
DeactivateLink(t, l) ==
    LET u == [t EXCEPT !.link[l].activated = FALSE]
    IN  IF ~t.link[l].activated THEN t
        ELSE IF t.link[l].state < L_PAUSED \/ t.link[l].destroyed THEN UpdateLink(u, l, L_INIT)
        ELSE UpdateLink(u, l, L_PAUSED)

(* suspend_node of the node of port p: its links are deactivated, the      *)
(* format of its port is taken away, and the port goes through INIT so     *)
(* that the links give up what they wait for; the graph is recalculated    *)
(* when all of this is done.                                               *)
SuspendPort(t, p) ==
    LET u == FoldLeft(DeactivateLink, Freeze(t), LinksAt(t, p))
        v == SetFormat(u, p, NoFormat, TRUE)
    IN  Thaw(UpdatePort([v EXCEPT !.port[p].state = P_INIT], p, P_CONFIGURE))

(* port_param_changed for EnumFormat, at one of the port's links *)
FormatsChanged(t, l) ==
    LET u == UpdatePort(UpdatePort(t, OutPort[l], P_CONFIGURE), InPort[l], P_CONFIGURE)
        v == [u EXCEPT !.link[l].preparing = FALSE, !.link[l].prepared = FALSE]
    IN  Prepare(UpdateLink(v, l, L_INIT), l)

(* input_remove, output_remove that leave the end's work queued. *)
Bug_RemoveEndKeepsWork(t, l, e) ==
    LET p == PortOf(l, e)
        u == SetBusy(t, l, e, NoId, NoSeq)
    IN  IF LinksAt(t, p) = <<>> THEN SetFormat(u, p, NoFormat, TRUE) ELSE u

(* input_remove, output_remove: the last link takes the port's format away *)
RemoveEnd(t, l, e) ==
    LET p == PortOf(l, e)
        u == ClearEnd(t, l, e)
    IN  IF LinksAt(t, p) = <<>> THEN SetFormat(u, p, NoFormat, TRUE) ELSE u

(* pw_impl_link_destroy *)
DestroyLink(t, l) ==
    LET u == DeactivateLink([t EXCEPT !.link[l].destroyed = TRUE], l)
        v == RemoveEnd(RemoveEnd(u, l, "in"), l, "out")
        w == IF t.link[l].prepared THEN RecalcGraph(v) ELSE v
    IN  [w EXCEPT !.work = WorkCancel(@, <<l, "link">>)]

(* node_result, for the link ends at port p: an error answers a request,   *)
(* a pong the sync sent after it.                                          *)
NodeError(t, p, seq) ==
    [t EXCEPT !.link = [l \in Links |-> [t.link[l] EXCEPT !.end = [e \in Ends |->
        IF PortOf(l, e) = p /\ ~t.link[l].destroyed /\ t.link[l].end[e].pending_seq = seq
        THEN [t.link[l].end[e] EXCEPT !.result = -1] ELSE t.link[l].end[e]]]]]

NodePong(t, p, seq) ==
    FoldLeft(LAMBDA u, l : [u EXCEPT !.work =
                 WorkComplete(@, <<l, IF p = OutPort[l] THEN "out" ELSE "in">>, seq)],
             t, LinksAt(t, p))

-----------------------------------------------------------------------------
(* The events of the main loop. *)

Becomes(t, cost) ==
    /\ s' = t /\ UNCHANGED setup
    /\ failed' = {l \in Links : t.link[l].state = L_ERROR \/ (l \in failed /\ t.link[l].state # L_INIT)}
    /\ faults + cost <= MaxFaults /\ faults' = faults + cost

Event(t, cost) == cursor = 0 /\ UNCHANGED cursor /\ Becomes(t, cost)

(* A link is registered, or the graph is recalculated. *)
PrepareEvent == \E l \in Links : Event(Prepare(s, l), 0)
ActivateEvent == \E l \in Links : Event(ActivateLink(s, l), 0)
DeactivateEvent == \E l \in Links : ~s.link[l].destroyed /\ Event(DeactivateLink(s, l), 1)
SuspendEvent == \E p \in Ports : Event(SuspendPort(s, p), 1)
FormatsEvent == \E p \in Ports : Event(FoldLeft(FormatsChanged, s, LinksAt(s, p)), 1)
DestroyEvent == \E l \in Links : ~s.link[l].destroyed /\ Event(DestroyLink(s, l), 1)

(* A client answers in the order of the messages sent to it; a request it  *)
(* accepts has no answer of its own.                                       *)
Answer(p) ==
    /\ s.chan[p] # <<>>
    /\ LET m == Head(s.chan[p])
           t == [s EXCEPT !.chan[p] = Tail(@)]
       IN  IF m.kind = "ping" THEN Event(NodePong(t, p, m.seq), 0)
           ELSE Event(t, 0) \/ Event(NodeError(t, p, m.seq), 1)

(* process_work_queue is called for the event. *)
StartPass ==
    /\ cursor = 0 /\ s.work.signalled
    /\ cursor' = IF s.work.items = <<>> THEN 0 ELSE 1
    /\ Becomes([s EXCEPT !.work.signalled = FALSE], 0)

(* An item that still waits, or a barrier that is not at the head. *)
SkipItem ==
    /\ cursor # 0 /\ ~Runnable(s.work, cursor)
    /\ cursor' = AfterSkip(s.work, cursor)
    /\ UNCHANGED <<s, setup, failed, faults>>

(* The function of an item, except check_states: complete_ready and        *)
(* complete_paused do nothing for an id that is not the pending one.       *)
Call(t, item) ==
    LET l == item.obj[1]
        e == item.obj[2]
        ok == t.link[l].end[e].result = 0
        u == SetBusy(t, l, e, NoId, NoSeq)
    IN  IF item.func \notin {"ready", "paused"} \/ item.id # t.link[l].end[e].busy_id THEN t
        ELSE IF item.func = "ready" THEN CompleteReady(u, l, e, ok)
        ELSE CompletePaused(u, l, e, ok)

RunItem ==
    /\ cursor # 0 /\ Runnable(s.work, cursor)
    /\ s.work.items[cursor].func # "check"
    /\ Becomes(Call([s EXCEPT !.work = Take(@, cursor)], s.work.items[cursor]), 0)
    /\ cursor' = AfterTake(s.work, cursor)

RunCheck ==
    /\ cursor # 0 /\ Runnable(s.work, cursor)
    /\ s.work.items[cursor].func = "check"
    /\ \E chosen \in Formats, fail \in Failures :
          Becomes(CheckStates([s EXCEPT !.work = Take(@, cursor)], s.work.items[cursor].obj[1],
                              chosen, fail),
                  IF fail = <<"none">> THEN 0 ELSE 1)
    /\ cursor' = AfterTake(s.work, cursor)

Environment ==
    \/ PrepareEvent \/ ActivateEvent \/ DeactivateEvent
    \/ SuspendEvent \/ FormatsEvent \/ DestroyEvent

Pass == StartPass \/ SkipItem \/ RunItem \/ RunCheck
Next == Environment \/ Pass \/ \E p \in Ports : Answer(p)

(* Weak fairness of a pass and of a client's answers, written out with     *)
(* what tells their steps from all others: the main loop calls the queue   *)
(* when its event is signalled and finishes the pass, and a client answers *)
(* what it was sent.                                                       *)
PassTaken == cursor # 0 \/ cursor' # 0 \/ (s.work.signalled /\ ~s'.work.signalled)
AnswerTaken(p) == Len(s'.chan[p]) < Len(s.chan[p])

Fairness ==
    /\ []<>(cursor = 0 /\ ~s.work.signalled) \/ []<><<PassTaken>>_vars
    /\ \A p \in Ports : []<>(s.chan[p] = <<>> \/ cursor # 0) \/ []<><<AnswerTaken(p)>>_vars

Spec == Init /\ [][Next]_vars /\ Fairness

-----------------------------------------------------------------------------
(* A port is busy exactly while one link waits for its answer: no two      *)
(* links have a request at one port at the same time, and what the waiting *)
(* end waits for is on the work queue with its function.  Otherwise the    *)
(* port stays busy for ever, and every link at it waits with it.  (The     *)
(* paths that start, answer, replace and give up a request:                *)
(* port_set_busy_id in do_negotiate, do_allocation, complete_ready,        *)
(* complete_paused, link_update_state, port_state_changed, input_remove.)  *)
BusyIsAwaited ==
    \A p \in Ports :
        LET waiting == {x \in Links \X Ends :
                          PortOf(x[1], x[2]) = p /\ s.link[x[1]].end[x[2]].busy_id # NoId}
        IN  /\ s.port[p].busy_count = Cardinality(waiting)
            /\ Cardinality(waiting) <= 1
            /\ \A x \in waiting : \E i \in DOMAIN s.work.items :
                   /\ s.work.items[i].id = s.link[x[1]].end[x[2]].busy_id
                   /\ s.work.items[i].obj = x
                   /\ s.work.items[i].func \in {"ready", "paused"}

(* Between passes, an item that could run has its queue signalled: work    *)
(* added, cancelled or completed by a function of the pass itself, by an   *)
(* answer or by another event is never left on the list until something    *)
(* unrelated wakes the queue (process_work_queue and its callers).         *)
NoLostWakeup ==
    cursor = 0 /\ ~s.work.signalled => \A i \in DOMAIN s.work.items : ~Runnable(s.work, i)

(* pw_impl_link_destroy frees the link: no item left on the queue may call *)
(* a function with the link or one of its ends.                            *)
NoCallAfterDestroy ==
    \A i \in DOMAIN s.work.items :
        s.link[s.work.items[i].obj[1]].destroyed => s.work.items[i].func = "none"

(* A link that is being prepared becomes prepared, or fails, or is sent    *)
(* back to the start, whatever order the answers come in and whichever     *)
(* link is first at a shared port.  A link that has failed is excepted: a  *)
(* late complete_ready takes it from ERROR to ALLOCATING, where nothing    *)
(* prepares it any more.                                                   *)
PreparationEnds ==
    \A l \in Links : s.link[l].preparing ~>
        s.link[l].prepared \/ ~s.link[l].preparing \/ l \in failed \/ s.link[l].destroyed

(* A prepared link "has negotiated a format and buffers": its two ports    *)
(* have the same format and the output port has buffers.  Does not hold    *)
(* where an output port feeds two links, see the README.                   *)
PreparedLinkAgrees ==
    \A l \in Links : s.link[l].prepared /\ ~s.link[l].destroyed =>
        /\ s.port[OutPort[l]].state >= P_READY /\ s.port[InPort[l]].state >= P_READY
        /\ s.port[OutPort[l]].format = s.port[InPort[l]].format
        /\ s.port[OutPort[l]].buffers
=============================================================================
