---------------------------- MODULE NdarrayFilter -----------------------------
(***************************************************************************)
(* The standalone ndarray filter of src/pipewire/ndarray-filter.c.  Three  *)
(* threads meet in it: the data loop, which runs process; the parameter    *)
(* worker, which runs update_parameter; and the main loop, which follows   *)
(* the state of the pw_filter, answers run and reset requests, and handles *)
(* the events the other two signal.  Without RT_PROCESS the data loop is   *)
(* the main loop.                                                          *)
(*                                                                         *)
(* A handler of the main loop is one step, except the event that asks for  *)
(* another cycle.  The data loop and the worker take one step for each     *)
(* access to a word they share; what only the data loop uses is handled in *)
(* one step.                                                               *)
(*                                                                         *)
(* Left out: OWNER_PROPERTIES, errors that come from the server or the     *)
(* connection, and the removal of Parameter buffers.                       *)
(***************************************************************************)
EXTENDS Integers, FiniteSets, SequencesExt

CONSTANTS
    ParamPorts,    \* the Parameter Ports, in the order of their numbers
    DataInputs,
    Buffers,       \* the buffers of a Parameter Port
    OutPool,       \* the number of buffers of the output
    MaxToken,      \* request tokens
    Setups         \* the configurations, see SetupRecords

SetupRecords ==
    [rt : BOOLEAN, run : BOOLEAN, reset : BOOLEAN, fifo : BOOLEAN, independent : BOOLEAN,
     params : SUBSET ParamPorts, inputs : SUBSET DataInputs, outputs : {0, 1},
     pool : Nat,        \* the number of buffers of a frame-data input
     frames : Nat,      \* the frames each input delivers
     busy : Nat,        \* the answers of the worker that may be -EBUSY
     faults : Nat]      \* the calls that may fail

ASSUME FilterAssumption ==
    /\ ParamPorts \subseteq Nat
    /\ Setups \subseteq SetupRecords
    /\ OutPool \in Nat \ {0} /\ MaxToken \in Nat

NoBuffer == "none"
NoFrame == -1
Absent == 0        \* a buffer with an empty chunk; frames count from 1

UNKNOWN == "unknown"
STOPPED == "stopped"
RUNNING == "running"

VARIABLES
    setup,
    f,          \* the filter as the main loop sees it, with the error latch;
                \* fresh: no cycle since it was prepared or got new outputs;
                \* ready: the owner's view, from its callbacks
    main,       \* "idle", in an event, "returned" from the loop, or free_filter
    data,       \* the data loop
    worker,     \* the parameter worker
    param,      \* the Parameter Ports
    in,         \* the frame-data inputs
    out,        \* the output
    events,     \* the event sources that are signalled
    latch,      \* fifo_process_scheduled
    cycle,      \* another graph cycle was requested
    faults

vars == <<setup, f, main, data, worker, param, in, out, events, latch, cycle, faults>>

Init ==
    /\ setup \in Setups
    /\ f = [state |-> "paused", active |-> ~setup.run, started |-> FALSE,
            prepared |-> FALSE, ready |-> FALSE, fresh |-> FALSE,
            error |-> FALSE, destroying |-> FALSE, quit |-> FALSE,
            requested |-> UNKNOWN, actual |-> STOPPED,
            last |-> 0, completed |-> 0, result |-> "ok",
            last_reset |-> 0, late_reset |-> FALSE]
    /\ main = "idle"
    /\ data = [pc |-> "idle", todo |-> <<>>, buffer |-> NoBuffer, retried |-> FALSE]
    /\ worker = [pc |-> "idle", todo |-> <<>>, buffer |-> NoBuffer]
    /\ param = [p \in setup.params |->
                   [ring |-> <<>>, free |-> Buffers, pending |-> NoBuffer, view |-> NoBuffer,
                    scheduled |-> FALSE, retry |-> FALSE, completed |-> FALSE]]
    /\ in = [i \in setup.inputs |->
                [ring |-> <<>>, free |-> setup.pool, buffer |-> NoFrame, available |-> FALSE,
                 produced |-> 0, seen |-> 0]]
    /\ out = [free |-> setup.outputs * OutPool, held |-> FALSE, lent |-> 0, returned |-> 0,
              unavailable |-> FALSE]
    /\ events = {}
    /\ latch = FALSE
    /\ cycle = FALSE
    /\ faults = 0

(* A call that fails takes one of the faults of the setup. *)
Upto(bound) == faults < bound /\ faults' = faults + 1
Fault == Upto(setup.faults)
Bad == {"none", "prepare", "deactivate", "publish", "publishes", "active"}
Outcome(bad) == IF bad = "none" THEN UNCHANGED faults ELSE Fault

-----------------------------------------------------------------------------
(* The main loop.  The functions of the code are operators on f; bad names *)
(* the call of the handler that fails, "publishes" when every publication  *)
(* of it does.                                                             *)

(* publish_run_control_status *)
PublishStatus(g, token, result, actual, ok) ==
    LET h == [g EXCEPT !.actual = actual]
    IN  IF ok THEN [h EXCEPT !.completed = token, !.result = result] ELSE h

(* deactivate *)
Deactivate(g) == [g EXCEPT !.prepared = FALSE, !.ready = IF g.prepared THEN FALSE ELSE @]

(* filter_state_changed for PW_FILTER_STATE_ERROR.  A request whose status *)
(* could not be published is still pending here, with the state it wanted. *)
Errored(g, bad) ==
    LET h == [g EXCEPT !.state = "error"]
        c == IF setup.run /\ h.requested = h.actual
             THEN [PublishStatus(h, h.last, "ok", h.actual, bad # "publishes") EXCEPT !.requested = UNKNOWN]
             ELSE h
    IN  [Deactivate(c) EXCEPT !.error = TRUE, !.quit = TRUE]

(* fail_on_main_loop *)
Fail(g, bad) ==
    LET h == [g EXCEPT !.error = TRUE, !.quit = TRUE]
    IN  IF h.state = "error" THEN h ELSE Errored(h, bad)

PublishOrFail(g, token, result, actual, bad) ==
    LET ok == bad \notin {"publish", "publishes"}
        h == PublishStatus(g, token, result, actual, ok)
    IN  IF ok THEN h ELSE Fail(h, bad)

(* complete_run_control *)
Complete(g, result, actual, bad) ==
    [PublishOrFail(g, g.last, result, actual, bad) EXCEPT !.requested = UNKNOWN]

(* update_processing_state, prepare_process_thread *)
UpdateProcessing(g, state, bad) ==
    LET starts == /\ state = "streaming"
                  /\ ~setup.run \/ RUNNING \in {g.requested, g.actual}
        stops == state \in {"paused", "unconnected"}
        fails == \/ starts /\ ~g.prepared /\ bad = "prepare"
                 \/ stops /\ g.prepared /\ bad = "deactivate"
        h == IF starts /\ fails THEN [g EXCEPT !.ready = FALSE]
             ELSE IF starts /\ ~g.prepared
             THEN [g EXCEPT !.prepared = TRUE, !.ready = TRUE, !.fresh = TRUE]
             ELSE IF stops THEN Deactivate(g)
             ELSE g
    IN  [filter |-> h, ok |-> ~fails,
         actual |-> IF fails THEN g.actual ELSE IF starts THEN RUNNING
                    ELSE IF stops THEN STOPPED ELSE g.actual]

(* A plausible slip: a change nobody asked for is not published. *)
Bug_StateUnpublished(g, state, bad) ==
    LET u == UpdateProcessing([g EXCEPT !.state = state], state, bad)
        h == u.filter
        c == IF u.ok /\ u.actual = h.requested THEN Complete(h, "ok", u.actual, bad) ELSE h
    IN  IF u.ok THEN c ELSE Fail(c, bad)

(* filter_state_changed *)
StateChanged(g, state, bad) ==
    LET u == UpdateProcessing([g EXCEPT !.state = state], state, bad)
        h == u.filter
        c == IF ~setup.run THEN h
             ELSE IF ~u.ok /\ h.requested # UNKNOWN THEN Complete(h, "failed", u.actual, bad)
             ELSE IF u.ok /\ u.actual = h.requested THEN Complete(h, "ok", u.actual, bad)
             ELSE IF h.requested = UNKNOWN /\ u.actual # h.actual
             THEN PublishOrFail(h, h.completed, "ok", u.actual, bad)
             ELSE h
    IN  IF u.ok THEN c ELSE Fail(c, bad)

(* A plausible slip: a request for a state the filter is already in waits  *)
(* for a change of state.                                                  *)
Bug_WaitForChange(g, token, want, bad) ==
    IF g.requested # UNKNOWN THEN PublishOrFail(g, token, "busy", g.actual, bad)
    ELSE IF token <= g.last THEN PublishOrFail(g, token, "stale", g.actual, bad)
    ELSE [g EXCEPT !.last = token, !.requested = want, !.active = (want = RUNNING)]

(* The run-control part of filter_param_changed; the call to set_active    *)
(* takes effect when the server sends Start or Pause.                      *)
RequestRun(g, token, want, bad) ==
    IF g.requested # UNKNOWN THEN PublishOrFail(g, token, "busy", g.actual, bad)
    ELSE IF token <= g.last
    THEN PublishOrFail(g, token, IF token = g.last THEN "already" ELSE "stale", g.actual, bad)
    ELSE IF want = g.actual THEN Complete([g EXCEPT !.last = token], "ok", g.actual, bad)
    ELSE LET h == [g EXCEPT !.last = token, !.requested = want]
             a == [h EXCEPT !.active = (want = RUNNING)]
             u == UpdateProcessing(a, a.state, bad)
         IN  IF bad = "active" THEN Complete(h, "failed", h.actual, bad)
             ELSE IF <<want, a.state>> \in {<<RUNNING, "streaming">>, <<STOPPED, "paused">>}
             THEN Complete(u.filter, IF u.ok THEN "ok" ELSE "failed", u.actual, bad)
             ELSE a

(* The reset part of filter_param_changed. *)
RequestReset(g, token, bad) ==
    LET h == IF token <= g.last_reset THEN g
             ELSE [g EXCEPT !.last_reset = token,
                            !.late_reset = @ \/ (g.actual = STOPPED /\ g.requested = UNKNOWN /\ g.ready)]
    IN  IF bad \in {"publish", "publishes"} THEN Fail(h, bad) ELSE h

MainLoop == main = "idle"
DataIdle == data.pc = "idle"
(* Without RT_PROCESS a handler of the main loop never meets a cycle. *)
MainHandler == MainLoop /\ (setup.rt \/ DataIdle)

(* prepare_process_thread runs on the data loop, between two cycles. *)
Handle(g, bad) ==
    /\ Outcome(bad)
    /\ f' = g
    /\ f'.prepared => f.prepared \/ DataIdle
    /\ UNCHANGED <<setup, main, data, worker, param, in, out, events, latch, cycle>>

(* impl_send_command: the server starts the node, then adds it to the graph. *)
Start(bad) ==
    /\ MainHandler /\ f.state = "paused" /\ f.active
    /\ Handle([StateChanged(f, "streaming", bad) EXCEPT !.started = TRUE], bad)

(* The node leaves the graph, on the data loop, before it is paused. *)
Pause(bad) ==
    /\ MainHandler /\ f.state = "streaming" /\ f.started /\ DataIdle
    /\ Handle(StateChanged([f EXCEPT !.started = FALSE], "paused", bad), bad)

(* The server takes a node that failed out of the graph. *)
LeaveGraph ==
    /\ MainHandler /\ f.state = "error" /\ f.started /\ DataIdle
    /\ Handle([f EXCEPT !.started = FALSE], "none")

RunRequest(token, want, bad) ==
    /\ MainHandler /\ setup.run /\ f.state \in {"paused", "streaming"}
    /\ Handle(RequestRun(f, token, want, bad), bad)

ResetRequest(token, bad) ==
    /\ MainHandler /\ setup.reset /\ f.state \in {"paused", "streaming"}
    /\ Handle(RequestReset(f, token, bad), bad)

(* error_event *)
ErrorEvent ==
    /\ MainHandler /\ "error" \in events
    /\ f' = Fail(f, "none")
    /\ events' = events \ {"error"}
    /\ UNCHANGED <<setup, main, data, worker, param, in, out, latch, cycle, faults>>

(* A plausible slip: the latch stays set. *)
Bug_KeepLatch ==
    /\ MainHandler /\ "fifo" \in events
    /\ events' = events \ {"fifo"}
    /\ main' = "fifo"
    /\ UNCHANGED <<setup, f, data, worker, param, in, out, latch, cycle, faults>>

(* fifo_process_event clears the latch, then asks for a cycle. *)
FifoEventClear ==
    /\ MainHandler /\ "fifo" \in events
    /\ events' = events \ {"fifo"}
    /\ latch' = FALSE
    /\ main' = "fifo"
    /\ UNCHANGED <<setup, f, data, worker, param, in, out, cycle, faults>>

FifoEventTrigger ==
    /\ main = "fifo"
    /\ main' = "idle"
    /\ cycle' = TRUE
    /\ UNCHANGED <<setup, f, data, worker, param, in, out, events, latch, faults>>

(* clear_buffers and filter_remove_buffer, for all buffers of a port; what *)
(* still waits in the queue of the port goes with them.                    *)
Removed(g, retained, quiet) ==
    LET h == [g EXCEPT !.prepared = FALSE, !.ready = IF g.prepared THEN FALSE ELSE @]
    IN  IF ~retained THEN g ELSE IF quiet /\ ~g.prepared THEN h ELSE Fail(h, "none")

RemoveInput(i) ==
    /\ MainHandler /\ DataIdle /\ Fault
    /\ f' = Removed(f, in[i].buffer # NoFrame, FALSE)
    /\ in' = [in EXCEPT ![i] = [@ EXCEPT !.ring = <<>>, !.free = setup.pool, !.buffer = NoFrame,
                                         !.available = FALSE, !.seen = in[i].produced]]
    /\ UNCHANGED <<setup, main, data, worker, param, out, events, latch, cycle>>

RemoveOutput ==
    /\ MainHandler /\ DataIdle /\ setup.outputs = 1 /\ Fault
    /\ f' = [Removed(f, out.held, f.actual = STOPPED /\ ~out.unavailable) EXCEPT !.fresh = TRUE]
    /\ out' = [out EXCEPT !.free = OutPool, !.held = FALSE, !.lent = 0, !.returned = 0]
    /\ UNCHANGED <<setup, main, data, worker, param, in, events, latch, cycle>>

(* pw_ndarray_filter_run returns once the loop was quit, by an error or by *)
(* pw_ndarray_filter_quit; then the owner calls free_filter.               *)
Return ==
    /\ MainLoop
    /\ main' = "returned"
    /\ f' = [f EXCEPT !.quit = TRUE]
    /\ UNCHANGED <<setup, data, worker, param, in, out, events, latch, cycle, faults>>

Destroy ==
    /\ main = "returned"
    /\ main' = "disconnect"
    /\ f' = [f EXCEPT !.destroying = TRUE]
    /\ UNCHANGED <<setup, data, worker, param, in, out, events, latch, cycle, faults>>

(* pw_filter_disconnect takes the node out of the graph, and the filter    *)
(* hears of the last state.                                                *)
Disconnect ==
    /\ main = "disconnect" /\ DataIdle
    /\ main' = "stop_worker"
    /\ f' = StateChanged([f EXCEPT !.started = FALSE], "unconnected", "none")
    /\ UNCHANGED <<setup, data, worker, param, in, out, events, latch, cycle, faults>>

(* stop_parameter_loop joins the worker's thread; what follows frees all.  *)
StopWorker ==
    /\ main = "stop_worker" /\ worker.pc = "idle"
    /\ main' = "freed"
    /\ f' = Deactivate(f)
    /\ UNCHANGED <<setup, data, worker, param, in, out, events, latch, cycle, faults>>

-----------------------------------------------------------------------------
(* The data loop: impl_node_process of the filter, then process.           *)

DataLoop == setup.rt \/ MainLoop

(* signal_process_error: the first error is kept and signalled. *)
SignalError ==
    /\ f' = [f EXCEPT !.error = TRUE]
    /\ events' = IF f.error THEN events ELSE events \cup {"error"}

Arrivals == {"none", "frame", "absent"}

(* A producer has a buffer for what it sends; only an independent input    *)
(* may be told that a frame is absent.                                     *)
MayArrive(arrival) ==
    /\ \A p \in setup.params : arrival[p] # "none" => param[p].free # {}
    /\ \A i \in setup.inputs :
          /\ arrival[i] # "none" => in[i].free > 0
          /\ arrival[i] = "frame" => in[i].produced < setup.frames
          /\ arrival[i] = "absent" => setup.independent

PushInput(i, kind) ==
    IF kind = "none" THEN in[i]
    ELSE LET n == IF kind = "frame" THEN in[i].produced + 1 ELSE in[i].produced
         IN  [in[i] EXCEPT !.produced = n, !.free = @ - 1,
                           !.ring = Append(@, IF kind = "frame" THEN n ELSE Absent)]

PushParam(p, kind) ==
    IF kind = "none" THEN param[p]
    ELSE LET b == CHOOSE x \in param[p].free : TRUE
         IN  [param[p] EXCEPT !.free = @ \ {b}, !.ring = Append(@, [buffer |-> b, kind |-> kind])]

(* A plausible slip: process does not look at prepared. *)
Bug_BeginUnprepared(arrival) ==
    /\ DataLoop /\ DataIdle /\ f.started /\ MayArrive(arrival)
    /\ cycle' = FALSE
    /\ in' = [i \in setup.inputs |-> PushInput(i, arrival[i])]
    /\ param' = [p \in setup.params |-> PushParam(p, arrival[p])]
    /\ data' = [data EXCEPT !.pc = IF setup.params = {} THEN "take" ELSE "collect",
                            !.todo = SetToSortSeq(setup.params, <)]
    /\ f' = [f EXCEPT !.fresh = FALSE]
    /\ UNCHANGED <<setup, main, worker, out, events, latch, faults>>

(* A cycle begins: the buffers in the io areas are pushed and recycled.    *)
(* process returns at once when the filter is not prepared.                *)
Begin(arrival) ==
    /\ DataLoop /\ DataIdle /\ f.started /\ MayArrive(arrival)
    /\ cycle' = FALSE
    /\ in' = [i \in setup.inputs |-> PushInput(i, arrival[i])]
    /\ param' = [p \in setup.params |-> PushParam(p, arrival[p])]
    /\ out' = [out EXCEPT !.free = @ + out.returned, !.returned = 0]
    /\ IF f.prepared /\ ~f.destroying
       THEN /\ data' = [data EXCEPT !.pc = IF setup.params = {} THEN "take" ELSE "collect",
                                    !.todo = SetToSortSeq(setup.params, <)]
            /\ f' = [f EXCEPT !.fresh = FALSE]
       ELSE UNCHANGED <<data, f>>
    /\ UNCHANGED <<setup, main, worker, events, latch, faults>>

(* A cycle of the driver's own, and one it was asked for. *)
Cycle == \E arrival \in [setup.params \cup setup.inputs -> Arrivals] : Begin(arrival)
RequestedCycle == cycle /\ Begin([x \in setup.params \cup setup.inputs |-> "none"])

At(pc) == DataLoop /\ data.pc = pc
Port == Head(data.todo)
NextPort == [data EXCEPT !.pc = IF Len(data.todo) = 1 THEN "take" ELSE "collect",
                         !.todo = Tail(@), !.buffer = NoBuffer, !.retried = FALSE]

RingBuffers(ring) == {ring[k].buffer : k \in DOMAIN ring}


(* dequeue_parameter: a buffer the worker is done with goes back.  While   *)
(* one is pending the newer ones go back, else the newest is scheduled.    *)
Collect ==
    /\ At("collect")
    /\ LET p == param[Port]
           done == IF p.completed THEN {p.pending} \ {NoBuffer} ELSE {}
           q == [p EXCEPT !.completed = FALSE, !.free = @ \cup done,
                          !.pending = IF p.completed THEN NoBuffer ELSE @]
           updates == SelectSeq(q.ring, LAMBDA x : x.kind = "frame")
       IN  IF q.pending # NoBuffer \/ updates = <<>>
           THEN /\ param' = [param EXCEPT ![Port] =
                                [q EXCEPT !.ring = <<>>, !.free = @ \cup RingBuffers(q.ring)]]
                /\ data' = IF q.pending # NoBuffer THEN [data EXCEPT !.pc = "retry"] ELSE NextPort
           ELSE LET b == updates[Len(updates)].buffer
                IN  /\ param' = [param EXCEPT ![Port] =
                           [q EXCEPT !.ring = <<>>, !.free = @ \cup (RingBuffers(q.ring) \ {b})]]
                    /\ data' = [data EXCEPT !.pc = "project", !.buffer = b]
    /\ UNCHANGED <<setup, f, main, worker, in, out, events, latch, cycle, faults>>

(* schedule_parameter: the view is written, then the buffer published.     *)
(* pending_parameter is empty here, so the exchange does not fail.         *)
Project ==
    /\ At("project")
    /\ param' = [param EXCEPT ![Port] = [@ EXCEPT !.view = data.buffer, !.pending = data.buffer]]
    /\ data' = [data EXCEPT !.pc = "arm"]
    /\ UNCHANGED <<setup, f, main, worker, in, out, events, latch, cycle, faults>>

(* A buffer that does not hold the ndarray of the port is given back. *)
ProjectFails ==
    /\ At("project") /\ Fault /\ SignalError
    /\ param' = [param EXCEPT ![Port].free = @ \cup {data.buffer}]
    /\ data' = NextPort
    /\ UNCHANGED <<setup, main, worker, in, out, latch, cycle>>

(* A plausible slip: a busy parameter is never tried again. *)
Bug_NoRetry ==
    /\ At("retry")
    /\ data' = NextPort
    /\ UNCHANGED <<setup, f, main, worker, param, in, out, events, latch, cycle, faults>>

(* retry_parameter *)
Retry ==
    /\ At("retry")
    /\ param' = [param EXCEPT ![Port].retry = FALSE]
    /\ data' = IF param[Port].retry THEN [data EXCEPT !.pc = "arm", !.retried = TRUE] ELSE NextPort
    /\ UNCHANGED <<setup, f, main, worker, in, out, events, latch, cycle, faults>>

Arm ==
    /\ At("arm")
    /\ param' = [param EXCEPT ![Port].scheduled = TRUE]
    /\ data' = [data EXCEPT !.pc = "signal"]
    /\ UNCHANGED <<setup, f, main, worker, in, out, events, latch, cycle, faults>>

Signal ==
    /\ At("signal")
    /\ events' = events \cup {"param"}
    /\ data' = NextPort
    /\ UNCHANGED <<setup, f, main, worker, param, in, out, latch, cycle, faults>>

(* The signal fails, and what was scheduled is taken back.  With two       *)
(* Parameter Ports the worker may have it by now, so this is left out.     *)
SignalFails ==
    /\ At("signal") /\ Cardinality(setup.params) = 1 /\ Fault
    /\ param' = [param EXCEPT ![Port].scheduled = FALSE]
    /\ data' = [data EXCEPT !.pc = "undo"]
    /\ UNCHANGED <<setup, f, main, worker, in, out, events, latch, cycle>>

Undo ==
    /\ At("undo") /\ SignalError
    /\ param' = IF data.retried THEN [param EXCEPT ![Port].retry = TRUE]
                ELSE [param EXCEPT ![Port] =
                         [@ EXCEPT !.pending = NoBuffer, !.free = @ \cup {data.buffer}]]
    /\ data' = NextPort
    /\ UNCHANGED <<setup, main, worker, in, out, latch, cycle, faults>>

(* A plausible slip: the drain-to-latest rule applied to a FIFO input. *)
Bug_TakeNewest(q) ==
    IF q.buffer # NoFrame \/ q.ring = <<>> THEN q
    ELSE LET n == Len(q.ring)
         IN  [q EXCEPT !.buffer = q.ring[n], !.available = q.ring[n] # Absent,
                       !.ring = <<>>, !.free = @ + n - 1]

(* dequeue_fifo_input: a retained frame stays, and absent ones are skipped. *)
TakeOldest(q) ==
    LET frames == {k \in DOMAIN q.ring : q.ring[k] # Absent}
        first == Min(frames)
    IN  IF q.buffer # NoFrame THEN q
        ELSE IF frames = {}
        THEN [q EXCEPT !.ring = <<>>, !.free = @ + Len(q.ring), !.available = FALSE]
        ELSE [q EXCEPT !.buffer = q.ring[first], !.available = TRUE, !.free = @ + first - 1,
                       !.ring = SubSeq(@, first + 1, Len(@))]

(* Without FIFO_INPUTS the newest buffer is taken and the others go back. *)
TakeNewest(q) ==
    IF q.ring = <<>> THEN q
    ELSE LET last == q.ring[Len(q.ring)]
         IN  [q EXCEPT !.buffer = last, !.available = last # Absent, !.ring = <<>>,
                       !.free = @ + Len(q.ring) - 1]

(* recycle_inputs *)
Recycled(q) ==
    IF q.buffer = NoFrame THEN q
    ELSE [q EXCEPT !.buffer = NoFrame, !.available = FALSE, !.free = @ + 1]

AllRecycled(inputs) == [i \in setup.inputs |-> Recycled(inputs[i])]

TakenInputs(inputs) ==
    [i \in setup.inputs |-> IF setup.fifo THEN TakeOldest(inputs[i]) ELSE TakeNewest(inputs[i])]

TakenOutput ==
    IF out.held \/ out.free = 0 THEN out ELSE [out EXCEPT !.held = TRUE, !.free = @ - 1]

Enough(inputs) ==
    IF setup.independent /\ setup.inputs # {} THEN \E i \in setup.inputs : inputs[i].available
    ELSE \A i \in setup.inputs : inputs[i].available

Ready == Enough(TakenInputs(in)) /\ (setup.outputs = 1 => TakenOutput.held)

(* Something is missing: a FIFO filter keeps what it has taken. *)
NotReady ==
    /\ At("take") /\ ~Ready
    /\ in' = IF setup.fifo THEN TakenInputs(in) ELSE AllRecycled(TakenInputs(in))
    /\ out' = TakenOutput
    /\ data' = [data EXCEPT !.pc = "idle"]
    /\ UNCHANGED <<setup, f, main, worker, param, events, latch, cycle, faults>>

(* The callback is called with the frames that are available. *)
Process ==
    /\ At("take") /\ Ready
    /\ in' = [i \in setup.inputs |->
                 LET q == TakenInputs(in)[i]
                 IN  IF q.available THEN [q EXCEPT !.seen = q.buffer] ELSE q]
    /\ out' = [TakenOutput EXCEPT !.unavailable = FALSE]
    /\ data' = [data EXCEPT !.pc = "process"]
    /\ UNCHANGED <<setup, f, main, worker, param, events, latch, cycle, faults>>

(* A buffer is refused before the callback. *)
Refuse ==
    /\ At("take") /\ Ready /\ (setup.inputs # {} \/ setup.outputs = 1)
    /\ Fault /\ SignalError
    /\ in' = AllRecycled(TakenInputs(in))
    /\ out' = [TakenOutput EXCEPT !.unavailable = FALSE]
    /\ data' = [data EXCEPT !.pc = "idle"]
    /\ UNCHANGED <<setup, main, worker, param, latch, cycle>>

(* schedule_fifo_backlog: a FIFO filter that already has its next frames   *)
(* wakes the main loop, unless it has done so.                             *)
Backlog(inputs) == setup.fifo /\ setup.inputs # {} /\ Enough(inputs)

(* The callback succeeded; its output is published or kept for later.      *)
ProcessReturns(unavailable, signalled) ==
    LET next == IF setup.fifo THEN TakenInputs(AllRecycled(in)) ELSE AllRecycled(in)
        wakes == Backlog(next) /\ ~latch
    IN  /\ At("process")
        /\ unavailable => out.held
        /\ in' = next
        /\ out' = IF unavailable \/ ~out.held THEN [out EXCEPT !.unavailable = unavailable]
                  ELSE [out EXCEPT !.held = FALSE, !.lent = @ + 1]
        /\ data' = [data EXCEPT !.pc = "idle"]
        /\ IF signalled
           THEN /\ latch' = (latch \/ wakes)
                /\ events' = IF wakes THEN events \cup {"fifo"} ELSE events
                /\ UNCHANGED <<f, faults>>
           ELSE wakes /\ Fault /\ SignalError /\ UNCHANGED latch
        /\ UNCHANGED <<setup, main, worker, param, cycle>>

ProcessFails ==
    /\ At("process") /\ Fault /\ SignalError
    /\ in' = AllRecycled(in)
    /\ data' = [data EXCEPT !.pc = "idle"]
    /\ UNCHANGED <<setup, main, worker, param, out, latch, cycle>>

(* External: the consumer puts an output back in the io area. *)
OutputReturned ==
    /\ out.lent > 0
    /\ out' = [out EXCEPT !.lent = @ - 1, !.returned = @ + 1]
    /\ UNCHANGED <<setup, f, main, data, worker, param, in, events, latch, cycle, faults>>

-----------------------------------------------------------------------------
(* The parameter worker: parameter_event and update_parameter.             *)

WorkerPort == Head(worker.todo)
WorkerNext(pc) == [pc |-> pc, todo |-> Tail(worker.todo), buffer |-> NoBuffer]
AfterPort == WorkerNext(IF Len(worker.todo) = 1 THEN "idle" ELSE "scan")

WorkerWakes ==
    /\ worker.pc = "idle" /\ "param" \in events /\ main # "freed"
    /\ events' = events \ {"param"}
    /\ worker' = IF f.destroying THEN worker
                 ELSE [worker EXCEPT !.pc = "scan", !.todo = SetToSortSeq(setup.params, <)]
    /\ UNCHANGED <<setup, f, main, data, param, in, out, latch, cycle, faults>>

(* parameter_scheduled is exchanged; a pending buffer goes to the callback. *)
WorkerTakes ==
    /\ worker.pc = "scan"
    /\ param' = [param EXCEPT ![WorkerPort].scheduled = FALSE]
    /\ worker' = IF param[WorkerPort].scheduled /\ ~f.destroying /\ param[WorkerPort].pending # NoBuffer
                 THEN [worker EXCEPT !.pc = "call", !.buffer = param[WorkerPort].pending]
                 ELSE AfterPort
    /\ UNCHANGED <<setup, f, main, data, in, out, events, latch, cycle, faults>>

(* The callback consumed the parameter, or failed. *)
WorkerDone(ok) ==
    /\ worker.pc = "call"
    /\ IF ok THEN UNCHANGED <<f, events, faults>> ELSE Fault /\ SignalError
    /\ param' = [param EXCEPT ![WorkerPort].completed = TRUE]
    /\ worker' = AfterPort
    /\ UNCHANGED <<setup, main, data, in, out, latch, cycle>>

(* The callback answered -EBUSY. *)
WorkerBusy ==
    /\ worker.pc = "call" /\ Upto(setup.busy)
    /\ param' = [param EXCEPT ![WorkerPort].retry = TRUE]
    /\ worker' = AfterPort
    /\ UNCHANGED <<setup, f, main, data, in, out, events, latch, cycle>>

-----------------------------------------------------------------------------
Server == \E bad \in Bad : Start(bad) \/ Pause(bad)
Requests ==
    \E token \in 1..MaxToken, bad \in Bad :
        (\E want \in {RUNNING, STOPPED} : RunRequest(token, want, bad)) \/ ResetRequest(token, bad)
MainEvents == ErrorEvent \/ FifoEventClear \/ FifoEventTrigger
Removal == (\E i \in setup.inputs : RemoveInput(i)) \/ RemoveOutput
Teardown == Return \/ Destroy \/ Disconnect \/ StopWorker
MainStep == Server \/ LeaveGraph \/ Requests \/ MainEvents \/ Removal \/ Teardown

ParameterStep ==
    \/ Collect \/ Project \/ ProjectFails \/ Retry
    \/ Arm \/ Signal \/ SignalFails \/ Undo
ProcessStep ==
    \/ NotReady \/ Process \/ Refuse \/ ProcessFails
    \/ \E unavailable, signalled \in BOOLEAN : ProcessReturns(unavailable, signalled)
DataStep == ParameterStep \/ ProcessStep

WorkerStep == WorkerWakes \/ WorkerTakes \/ WorkerBusy \/ \E ok \in BOOLEAN : WorkerDone(ok)

Next == MainStep \/ Cycle \/ RequestedCycle \/ DataStep \/ WorkerStep \/ OutputReturned

(* The loops run, the driver serves RequestProcess, and the server acts on *)
(* the active flag; it may also pause and start the node on its own.       *)
Fairness ==
    /\ WF_vars(DataStep)
    /\ WF_vars(RequestedCycle)
    /\ WF_vars(WorkerStep)
    /\ WF_vars(MainEvents)
    /\ WF_vars(Start("none"))
    /\ SF_vars(~f.active /\ Pause("none"))

Spec == Init /\ [][Next]_vars
FairSpec == Spec /\ Fairness

-----------------------------------------------------------------------------
Running == main \in {"idle", "fifo"}


Retained(q) == IF q.buffer = NoFrame THEN <<>> ELSE <<q.buffer>>

(* A FIFO input presents each frame to the process callback once and in    *)
(* order, over missing peers, starved outputs, outputs kept for later and  *)
(* restarts: until an error ends the processing, the frames that wait are  *)
(* those after the last one presented, without a gap.  Every buffer of an  *)
(* input is with the filter or with its producer, also without FIFO, and   *)
(* every output buffer with the filter or with its consumer.               *)
InputsInOrder ==
    /\ \A i \in setup.inputs :
        LET q == in[i]
            held == IF data.pc = "process" /\ q.available THEN <<>> ELSE Retained(q)
            waiting == SelectSeq(held \o q.ring, LAMBDA n : n # Absent)
        IN  /\ q.free + Len(Retained(q)) + Len(q.ring) = setup.pool
            /\ setup.fifo /\ ~f.error =>
                  waiting = [k \in 1..(q.produced - q.seen) |-> q.seen + k]
    /\ out.free + out.lent + out.returned + (IF out.held THEN 1 ELSE 0) = setup.outputs * OutPool

(* The types of what the main loop keeps. *)
Filters ==
    [state : {"paused", "streaming", "error", "unconnected"}, active : BOOLEAN, started : BOOLEAN,
     prepared : BOOLEAN, ready : BOOLEAN, fresh : BOOLEAN, error : BOOLEAN,
     destroying : BOOLEAN, quit : BOOLEAN, requested : {UNKNOWN, STOPPED, RUNNING},
     actual : {STOPPED, RUNNING}, last : Nat, completed : Nat,
     result : {"ok", "failed", "busy", "already", "stale"}, last_reset : Nat, late_reset : BOOLEAN]

(* No error was raised, or the main loop has not yet heard of it. *)
Intact(g) == ~g.error \/ g.state \in {"paused", "streaming"}

(* What each handler of the main loop keeps true of the filter. *)
FilterInv(g, run) ==
    /\ g.state = "error" => g.error
    /\ g.started => g.state \in {"streaming", "error"}
    /\ Intact(g) => /\ g.ready <=> g.prepared
                    /\ g.prepared => g.state = "streaming"
                    /\ run => (g.actual = RUNNING <=> g.prepared)
    /\ run => /\ ~g.late_reset
              /\ g.requested # UNKNOWN => g.requested # g.actual

(* The filter's own state, its owner's view of it and the cycle agree: a   *)
(* cycle is past its first test only while the filter is in the graph and, *)
(* until an error ends it, prepared; and a request is pending only for a   *)
(* state the filter is not in.                                             *)
IInv ==
    /\ setup \in SetupRecords /\ f \in Filters
    /\ FilterInv(f, setup.run)
    /\ ~DataIdle => f.started /\ (Intact(f) => f.prepared)
    /\ main \in {"stop_worker", "freed"} => ~f.started /\ f.state \in {"unconnected", "error"}

(* The owner's callbacks keep their order until an error is raised: process *)
(* is called after prepare_process_thread and before deactivate, and reset, *)
(* of a filter with run control, never between the two.                     *)
OwnerSerialized ==
    /\ data.pc = "process" /\ ~f.error => f.ready
    /\ setup.run => ~f.late_reset

(* The run-control state that was last published is the truth: RUNNING     *)
(* exactly while the filter processes, through requests, pauses by the     *)
(* server, failed preparations and removed buffers, until an error ends it. *)
StatusMatchesOwner ==
    setup.run /\ ~f.error => (f.actual = RUNNING <=> f.prepared)

(* Every accepted run request is answered, unless the filter fails or its  *)
(* loop ends.                                                              *)
RequestsComplete ==
    f.requested # UNKNOWN ~> f.requested = UNKNOWN \/ f.error \/ ~Running

Waiting ==
    /\ DataIdle /\ setup.fifo /\ setup.inputs # {} /\ Enough(in)
    /\ setup.outputs = 1 => out.held \/ out.free > 0
    /\ f.prepared /\ f.started /\ ~f.fresh /\ ~f.error /\ Running

(* Frames a FIFO filter already has do not wait for the next arrival: the  *)
(* latch and the main loop's event bring another cycle, if the driver      *)
(* serves the request.                                                     *)
BacklogServed == []<>~Waiting

Begins == DataIdle /\ data'.pc # "idle"
HasPending(p, b) == IF p \in setup.params THEN param[p].pending = b ELSE FALSE
Processing == f.prepared /\ f.started /\ ~f.error /\ Running

(* While cycles go on, a parameter buffer is given back to its producer    *)
(* after the worker has used it, also when it was busy at first.           *)
ParameterReturns ==
    []<><<Begins>>_vars =>
        \A p \in ParamPorts, b \in Buffers :
            HasPending(p, b) ~> ~Processing \/ ~HasPending(p, b)
=============================================================================
