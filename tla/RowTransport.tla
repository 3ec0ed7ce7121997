---------------------------- MODULE RowTransport -----------------------------
(***************************************************************************)
(* The exact-return contract of a row source (pipewireao.row-transport):   *)
(* src/pipewire/impl-node.c and impl-port.c.  The source drives a graph    *)
(* with one consumer of its rows and one more node that is async.  A row   *)
(* goes from the source's port through the reliable tee and the input mix  *)
(* to a FIFO filter, which keeps it until it has an output buffer; its     *)
(* buffer id comes back through the same ports when the graph has          *)
(* finished.  A ready the driver refuses is kept as a pending retry.       *)
(*                                                                         *)
(* The source is not in this repository: it is modelled from how the core  *)
(* calls it, and from the tests that stand in for it.  The activations are *)
(* those of GraphCycle, with the steps of a trigger taken together.        *)
(***************************************************************************)
EXTENDS Integers, Sequences, FiniteSets

CONSTANTS
    Ids,          \* the buffers of the source's port
    Consumers,    \* a local node, or an exported client's
    OneInFlight,  \* the source offers a row only when none of its rows is out
    MayFail,      \* the source may fail a RequestProcess command
    MaxStops      \* how often the driver is stopped

Invalid == "SPA_ID_INVALID"
Nodes == {"driver", "filter", "async"}
Targets == {"filter", "async"}

ASSUME RowAssumption ==
    /\ IsFiniteSet(Ids) /\ Invalid \notin Ids
    /\ Consumers \subseteq {"local", "exported"} /\ OneInFlight \in BOOLEAN /\ MayFail \in BOOLEAN
    /\ MaxStops \in Nat

VARIABLES
    \* the source: its rt.io, the rows it has offered and not got back, and a
    \* call of ready it has queued
    io, out, readyDue,
    \* the link: what its consumer is, the io of the mix, and row_borrowed_id
    \* when row_borrowed
    consumer, mix, borrowed,
    \* the filter: its port's rt.io, its dequeued and its queued buffers, and
    \* whether it has an output buffer
    inIo, held, queued, output,
    status,       \* activation->status
    \* the driver: rt.prepared, info.state = RUNNING, row_cycle_inflight, the
    \* rt.reliable_* fields and a signalled reliable_event
    prepared, running, inflight, dispatched, retryPending, releasePending, event,
    kept,         \* pending_request_process
    pc, stops

linkVars == <<mix, borrowed>>
sourceVars == <<io, out, readyDue>>
filterVars == <<inIo, held, queued, output>>
driverVars == <<prepared, running, inflight, dispatched, retryPending, releasePending>>
vars == <<sourceVars, consumer, linkVars, filterVars, status, driverVars, event, kept, pc, stops>>

Have(id) == [status |-> "have", id |-> id]
Need(id) == [status |-> "need", id |-> id]

Init ==
    /\ io = Need(Invalid) /\ out = {} /\ readyDue = FALSE
    /\ consumer \in Consumers /\ mix = Need(Invalid) /\ borrowed = Invalid
    /\ inIo = Need(Invalid) /\ held = <<>> /\ queued = <<>> /\ output = TRUE
    /\ status = [n \in Nodes |-> IF n = "driver" THEN "inactive" ELSE "finished"]
    /\ prepared = FALSE /\ running = FALSE /\ inflight = FALSE /\ dispatched = FALSE
    /\ retryPending = FALSE /\ releasePending = FALSE /\ event = FALSE /\ kept = FALSE
    /\ pc = [driver |-> "idle", filter |-> "idle", async |-> "idle", main |-> "idle",
             request |-> "idle"]
    /\ stops = 0

\* The thread's next step; none changes what the consumer is.
Goto(t, label) == pc' = [pc EXCEPT ![t] = label] /\ UNCHANGED consumer

\* input->row_transport
Remote == consumer = "exported"

\* pw_impl_node_reliable_cycle_complete
CycleComplete == \A n \in Nodes : status[n] = "finished"

-----------------------------------------------------------------------------
(* The consumer's half: process_node of the filter *)

\* pw_impl_port_publish_row_return: an exported client puts the id it is done
\* with in the io it shares with the server.
CanPublish(r) == Remote /\ r.in.status # "have" /\ r.in.id # Invalid
PublishBusy(r) == CanPublish(r) /\ r.mix # Need(Invalid)
Publish(r) ==
    IF CanPublish(r) /\ ~PublishBusy(r)
    THEN [r EXCEPT !.mix.id = r.in.id, !.in.id = Invalid] ELSE r


\* schedule_mix_input
MixInput(r) == [r EXCEPT !.in = r.mix, !.mix = Need(Invalid)]

\* impl_node_process of the filter: take the row, process the oldest if there
\* is an output for it, and give one processed buffer back.
TakeRow(r) == IF r.in.status = "have" THEN [r EXCEPT !.held = Append(@, r.in.id)] ELSE r
ProcessRow(r) ==
    IF output /\ r.held # <<>>
    THEN [r EXCEPT !.held = Tail(@), !.queued = Append(@, Head(r.held)), !.used = TRUE]
    ELSE r
GiveBack(r) ==
    IF r.in.status # "have" /\ r.in.id # Invalid THEN r
    ELSE IF r.queued = <<>> THEN [r EXCEPT !.in = Need(Invalid)]
    ELSE [r EXCEPT !.in = Need(Head(r.queued)), !.queued = Tail(@)]

Process(r) ==
    LET p == Publish(r) IN
    IF PublishBusy(r) THEN r ELSE Publish(GiveBack(ProcessRow(TakeRow(MixInput(p)))))

Awake(n) ==
    /\ pc[n] = "idle" /\ status[n] = "triggered"
    /\ status' = [status EXCEPT ![n] = "awake"]
    /\ Goto(n, IF n = "filter" THEN "process" ELSE "finish")
    /\ UNCHANGED <<sourceVars, linkVars, filterVars, driverVars, event, kept, stops>>

\* The filter's work; the output buffer it used may come back later.
FilterProcess ==
    LET r == Process([mix |-> mix, in |-> inIo, held |-> held, queued |-> queued,
                      used |-> FALSE]) IN
    /\ pc["filter"] = "process"
    /\ mix' = r.mix /\ inIo' = r.in /\ held' = r.held /\ queued' = r.queued
    /\ output' = (output /\ ~r.used)
    /\ Goto("filter", "release")
    /\ UNCHANGED <<sourceVars, borrowed, status, driverVars, event, kept, stops>>

\* A local consumer's port has a reliable peer.
SetRelease ==
    /\ pc["filter"] = "release"
    /\ releasePending' = (releasePending \/ (~Remote /\ inIo.status # "have" /\ inIo.id # Invalid))
    /\ Goto("filter", "finish")
    /\ UNCHANGED <<sourceVars, linkVars, filterVars, status, prepared, running, inflight, dispatched,
                   retryPending, event, kept, stops>>

\* AWAKE -> FINISHED, unless the activation was reset meanwhile
Finish(n) ==
    /\ pc[n] = "finish"
    /\ IF status[n] = "awake"
       THEN /\ status' = [status EXCEPT ![n] = "finished"]
            /\ Goto(n, IF n = "filter" THEN "trigger" ELSE "signal")
       ELSE Goto(n, "idle") /\ UNCHANGED status
    /\ UNCHANGED <<sourceVars, linkVars, filterVars, driverVars, event, kept, stops>>

\* trigger_targets of the filter: the driver's last dependency
TriggerDriver ==
    /\ pc["filter"] = "trigger"
    /\ status' = [status EXCEPT !["driver"] = IF @ = "not_triggered" THEN "triggered" ELSE @]
    /\ Goto("filter", "signal")
    /\ UNCHANGED <<sourceVars, linkVars, filterVars, driverVars, event, kept, stops>>

\* Bug: only the end of the driver's own processing looks for returns.
Bug_NoWake(n) ==
    /\ pc[n] = "signal"
    /\ event' = event
    /\ Goto(n, "idle")
    /\ UNCHANGED <<sourceVars, linkVars, filterVars, status, driverVars, kept, stops>>

\* PW_NODE_ACTIVATION_FLAG_ROW_RETURN: wake the driver's reliable_event.
SignalDriver(n) ==
    /\ pc[n] = "signal"
    /\ event' = TRUE
    /\ Goto(n, "idle")
    /\ UNCHANGED <<sourceVars, linkVars, filterVars, status, driverVars, kept, stops>>

\* impl_port_reuse_buffer of the filter: an output buffer comes back, and with
\* PW_FILTER_FLAG_OUTPUT_RETURN_RETRY raises RequestProcess.
OutputReturn ==
    /\ pc["request"] = "idle" /\ ~output
    /\ output' = TRUE
    /\ Goto("request", "store")
    /\ UNCHANGED <<sourceVars, linkVars, inIo, held, queued, status, driverVars, event, kept, stops>>

\* handle_request_process_command; while the driver starts, the command is kept
\* in pending_request_process.  The event of an exported filter is handled by
\* the main thread, that of a local one by the thread that gave the buffer back.
RequestStore ==
    /\ pc["request"] = "store"
    /\ Remote => pc["main"] \in {"idle", "prepare"}
    /\ retryPending' = (retryPending \/ running)
    /\ kept' = (kept \/ (~running /\ pc["main"] # "idle"))
    /\ Goto("request", IF running THEN "signal" ELSE "idle")
    /\ UNCHANGED <<sourceVars, linkVars, filterVars, status, prepared, running, inflight, dispatched,
                   releasePending, event, stops>>

\* and its pw_loop_signal_event
RequestSignal ==
    /\ pc["request"] = "signal"
    /\ event' = TRUE
    /\ Goto("request", "idle")
    /\ UNCHANGED <<sourceVars, linkVars, filterVars, status, driverVars, kept, stops>>

-----------------------------------------------------------------------------
(* The driver's half, on the driver's data loop *)

\* process_node of the driver at the end of its cycle
DriverProcess ==
    /\ pc["driver"] = "idle" /\ status["driver"] = "triggered"
    /\ status' = [status EXCEPT !["driver"] = "finished"]
    /\ Goto("driver", "flush")
    /\ UNCHANGED <<sourceVars, linkVars, filterVars, driverVars, event, kept, stops>>

\* reliable_request_event
ReliableEvent ==
    /\ pc["driver"] = "idle" /\ event
    /\ event' = FALSE
    /\ Goto("driver", "flush")
    /\ UNCHANGED <<sourceVars, linkVars, filterVars, status, driverVars, kept, stops>>

\* flush_reliable_input_returns is called from node_ready, and from the other
\* two before flush_reliable_retry.
AfterFlush == IF pc["driver"] = "flush" THEN "retry" ELSE "admit"

FlushSkip ==
    /\ pc["driver"] \in {"flush", "flush_ready"} /\ ~CycleComplete
    /\ Goto("driver", AfterFlush)
    /\ UNCHANGED <<sourceVars, linkVars, filterVars, status, driverVars, event, kept, stops>>

\* pw_impl_port_reuse_row_output: the id a local consumer left in its rt.io, or
\* an exported one in the shared io.  The source takes an id that is out.
Returned == IF Remote THEN mix ELSE inIo
Releases ==
    /\ IF Remote THEN Returned.status = "need" ELSE releasePending /\ Returned.status # "have"
    /\ Returned.id # Invalid
ReleaseFails == Returned.id \notin out \/ (Remote /\ Returned.id # borrowed)

\* Bug: the id is left where it was found.
Bug_KeepId ==
    IF Releases /\ ~ReleaseFails
    THEN out' = out \ {Returned.id} /\ UNCHANGED <<mix, inIo, borrowed>>
    ELSE UNCHANGED <<out, mix, inIo, borrowed>>

ReuseRowOutput ==
    IF Releases /\ ~ReleaseFails
    THEN /\ out' = out \ {Returned.id}
         /\ mix' = IF Remote THEN [mix EXCEPT !.id = Invalid] ELSE mix
         /\ inIo' = IF Remote THEN inIo ELSE [inIo EXCEPT !.id = Invalid]
         /\ borrowed' = IF Remote THEN Invalid ELSE borrowed
    ELSE UNCHANGED <<out, mix, inIo, borrowed>>

Scan ==
    /\ pc["driver"] \in {"flush", "flush_ready"} /\ CycleComplete
    /\ ReuseRowOutput
    /\ releasePending' = (Releases /\ ReleaseFails /\ releasePending)
    /\ Goto("driver", AfterFlush)
    /\ UNCHANGED <<io, readyDue, held, queued, output, status, prepared, running, inflight, dispatched,
                   retryPending, event, kept, stops>>

\* driver_has_borrowed_row, driver_has_source_row
HasBorrowed == Remote /\ borrowed # Invalid
HasSourceRow == io.status = "have"

\* flush_reliable_retry, up to its CAS and its command
RetryWanted == ~releasePending /\ ~dispatched /\ retryPending /\ CycleComplete
FlushRetry ==
    /\ pc["driver"] = "retry"
    /\ IF RetryWanted /\ ~running
       THEN retryPending' = FALSE /\ UNCHANGED <<dispatched, readyDue>>
       ELSE IF RetryWanted /\ ~(HasBorrowed /\ HasSourceRow)
       THEN \/ retryPending' = FALSE /\ dispatched' = TRUE /\ readyDue' = TRUE
            \/ MayFail /\ UNCHANGED <<retryPending, dispatched, readyDue>>
       ELSE UNCHANGED <<retryPending, dispatched, readyDue>>
    /\ Goto("driver", "idle")
    /\ UNCHANGED <<io, out, linkVars, filterVars, status, prepared, running, inflight, releasePending,
                   event, kept, stops>>

\* between the Start and the Pause command
Started == running \/ pc["main"] \in {"running", "running_request"}

\* The source offers a row and calls ready, or makes the call it has queued.
Offer ==
    /\ pc["driver"] = "idle" /\ prepared /\ Started /\ ~HasSourceRow
    /\ OneInFlight => out = {}
    /\ \E id \in Ids \ out : io' = Have(id) /\ out' = out \cup {id}
    /\ Goto("driver", IF inflight THEN "flush_ready" ELSE "cycle")
    /\ UNCHANGED <<readyDue, linkVars, filterVars, status, driverVars, event, kept, stops>>

\* node_ready returns -EIO when the driver is not prepared.
ReadyQueued ==
    /\ pc["driver"] = "idle" /\ Started /\ readyDue
    /\ readyDue' = FALSE
    /\ Goto("driver", IF ~prepared THEN "idle" ELSE IF inflight THEN "flush_ready" ELSE "cycle")
    /\ UNCHANGED <<io, out, linkVars, filterVars, status, driverVars, event, kept, stops>>

\* Bug: only the loan is looked at.
Bug_AdmitUnfinished == releasePending \/ (HasBorrowed /\ (~dispatched \/ HasSourceRow))

\* node_ready's checks once a row cycle is in flight
Refused ==
    \/ ~CycleComplete \/ releasePending
    \/ HasBorrowed /\ (~dispatched \/ HasSourceRow)

Admit ==
    /\ pc["driver"] = "admit"
    /\ Goto("driver", IF Refused THEN "refuse" ELSE "cycle")
    /\ UNCHANGED <<sourceVars, linkVars, filterVars, status, driverVars, event, kept, stops>>

\* Bug: the refused call is forgotten.
Bug_ForgetRefused ==
    /\ pc["driver"] = "refuse"
    /\ dispatched' = FALSE /\ retryPending' = retryPending
    /\ Goto("driver", "refuse_signal")
    /\ UNCHANGED <<sourceVars, linkVars, filterVars, status, prepared, running, inflight,
                   releasePending, event, kept, stops>>

\* the label retry: the latch, then the wake
Refuse ==
    /\ pc["driver"] = "refuse"
    /\ dispatched' = FALSE /\ retryPending' = TRUE
    /\ Goto("driver", "refuse_signal")
    /\ UNCHANGED <<sourceVars, linkVars, filterVars, status, prepared, running, inflight,
                   releasePending, event, kept, stops>>

RefuseSignal ==
    /\ pc["driver"] = "refuse_signal"
    /\ event' = TRUE
    /\ Goto("driver", "idle")
    /\ UNCHANGED <<sourceVars, linkVars, filterVars, status, driverVars, kept, stops>>

\* Bug: the tee does not look at the loan.
Bug_TeeLent ==
    IF HasSourceRow /\ mix.status # "have"
    THEN io' = Need(mix.id) /\ mix' = Have(io.id) /\ borrowed' = IF Remote THEN io.id ELSE borrowed
    ELSE UNCHANGED <<io, mix, borrowed>>

\* Bug: the tee does not look for a row.
Bug_TeeAlways ==
    IF mix.status # "have" /\ ~HasBorrowed
    THEN io' = Need(mix.id) /\ mix' = Have(io.id) /\ borrowed' = IF Remote THEN io.id ELSE borrowed
    ELSE UNCHANGED <<io, mix, borrowed>>

\* tee_process_reliable hands the row to a mix that is free, and takes what the
\* mix has for it.
TeeProcess ==
    IF HasSourceRow /\ mix.status # "have" /\ ~HasBorrowed
    THEN io' = Need(mix.id) /\ mix' = Have(io.id) /\ borrowed' = IF Remote THEN io.id ELSE borrowed
    ELSE UNCHANGED <<io, mix, borrowed>>

\* The rest of node_ready: every activation is rearmed, the tee runs, and the
\* targets are triggered.
StartCycle ==
    /\ pc["driver"] = "cycle"
    /\ dispatched' = FALSE /\ inflight' = TRUE
    /\ status' = [n \in Nodes |-> "not_triggered"]
    /\ TeeProcess
    /\ Goto("driver", "trigger")
    /\ UNCHANGED <<out, readyDue, filterVars, prepared, running, retryPending, releasePending, event,
                   kept, stops>>

TriggerTargets ==
    /\ pc["driver"] = "trigger"
    /\ status' = [n \in Nodes |-> IF n \in Targets THEN "triggered" ELSE status[n]]
    /\ Goto("driver", "idle")
    /\ UNCHANGED <<sourceVars, linkVars, filterVars, driverVars, event, kept, stops>>

-----------------------------------------------------------------------------
(* The main thread *)

\* pw_impl_node_set_state(RUNNING), and node_update_state in three steps:
\* do_node_prepare, the Start command, and the assignment of info.state.  A
\* source that starts with a row still on offer calls ready again.
SetRunning ==
    /\ pc["main"] = "idle" /\ ~running
    /\ Goto("main", "prepare")
    /\ UNCHANGED <<sourceVars, linkVars, filterVars, status, driverVars, event, kept, stops>>

Prepare ==
    /\ pc["main"] = "prepare" /\ pc["driver"] = "idle"
    /\ prepared' = TRUE
    /\ status' = [status EXCEPT !["driver"] = "finished"]
    /\ Goto("main", "start")
    /\ UNCHANGED <<sourceVars, linkVars, filterVars, running, inflight, dispatched, retryPending,
                   releasePending, event, kept, stops>>

SendStart ==
    /\ pc["main"] = "start"
    /\ readyDue' = (readyDue \/ HasSourceRow)
    /\ Goto("main", IF kept THEN "running_request" ELSE "running")
    /\ UNCHANGED <<io, out, linkVars, filterVars, status, driverVars, event, kept, stops>>

Running ==
    /\ pc["main"] \in {"running", "running_request"}
    /\ running' = TRUE
    /\ IF pc["main"] = "running_request"
       THEN readyDue' = TRUE /\ kept' = FALSE
       ELSE UNCHANGED <<readyDue, kept>>
    /\ Goto("main", "idle")
    /\ UNCHANGED <<io, out, linkVars, filterVars, status, prepared, inflight, dispatched, retryPending,
                   releasePending, event, stops>>

\* do_node_unprepare.  Its triggers find no target that waits for one.
Unprepare ==
    /\ pc["main"] = "idle" /\ running /\ prepared /\ stops < MaxStops /\ pc["driver"] = "idle"
    /\ stops' = stops + 1
    /\ status' = [status EXCEPT !["driver"] = "inactive"]
    /\ prepared' = FALSE /\ inflight' = FALSE /\ dispatched' = FALSE /\ retryPending' = FALSE
    /\ Goto("main", "stopped")
    /\ UNCHANGED <<sourceVars, linkVars, filterVars, running, releasePending, event, kept>>

Stopped ==
    /\ pc["main"] = "stopped"
    /\ running' = FALSE /\ readyDue' = FALSE
    /\ Goto("main", "idle")
    /\ UNCHANGED <<io, out, linkVars, filterVars, status, prepared, inflight, dispatched,
                   retryPending, releasePending, event, kept, stops>>

-----------------------------------------------------------------------------
TargetStep(n) ==
    \/ Awake(n) \/ Finish(n) \/ SignalDriver(n)
    \/ n = "filter" /\ (FilterProcess \/ SetRelease \/ TriggerDriver)
RequestStep == OutputReturn \/ RequestStore \/ RequestSignal
Handler ==
    \/ FlushSkip \/ Scan \/ FlushRetry \/ Admit \/ Refuse \/ RefuseSignal
    \/ StartCycle \/ TriggerTargets
MainStep == SetRunning \/ Prepare \/ SendStart \/ Running \/ Stopped

Next ==
    \/ \E n \in Targets : TargetStep(n)
    \/ RequestStep \/ Handler \/ DriverProcess \/ ReliableEvent \/ ReadyQueued
    \/ Offer \/ MainStep \/ Unprepare

\* A thread goes on with what it does, the main thread does what it was asked
\* to, outputs come back, and the driver's loop serves every fd that is ready
\* however many others are.  Nothing makes the source offer a row, or stops it.
Fairness ==
    /\ \A n \in Targets : WF_vars(TargetStep(n))
    /\ WF_vars(RequestStep) /\ WF_vars(Handler) /\ SF_vars(MainStep)
    /\ SF_vars(DriverProcess) /\ SF_vars(ReliableEvent) /\ SF_vars(ReadyQueued)

Spec == Init /\ [][Next]_vars
FairSpec == Spec /\ Fairness

-----------------------------------------------------------------------------
IoBuffers == {Have(id) : id \in Ids} \cup {Need(id) : id \in Ids \cup {Invalid}}

\* Every variable keeps its type: in particular an io that has data names a
\* buffer, which the tee's check of the source's io sees to.
TypeOK ==
    /\ io \in IoBuffers /\ mix \in IoBuffers /\ inIo \in IoBuffers
    /\ out \subseteq Ids /\ borrowed \in Ids \cup {Invalid} /\ consumer \in Consumers
    /\ held \in Seq(Ids) /\ queued \in Seq(Ids)
    /\ status \in [Nodes -> {"inactive", "not_triggered", "triggered", "awake", "finished"}]
    /\ {output, readyDue, prepared, running, inflight, dispatched, retryPending, releasePending,
        event, kept} \subseteq BOOLEAN
    /\ stops \in 0..MaxStops

Places(id) ==
    Cardinality({x \in {<<"io", io>>, <<"mix", mix>>, <<"in", inIo>>} : x[2].id = id}) +
    Cardinality({i \in DOMAIN held : held[i] = id}) +
    Cardinality({i \in DOMAIN queued : queued[i] = id})

\* A row is neither lost nor doubled on its way: a buffer the source has not
\* got back is in exactly one port, mix or queue, and one it has got back in
\* none, so that the source may write to it.
Custody == \A id \in Ids : Places(id) = IF id \in out THEN 1 ELSE 0

\* "at most one published block is outstanding": an exported consumer has one
\* row at a time, the loan names it until its id has come back, and no stop or
\* restart of the driver makes the core forget the loan.
OneRowLent ==
    Remote => \A id \in Ids : id \in out /\ io # Have(id) <=> borrowed = id

\* No return is refused: the client never finds the shared io taken when it
\* gives an id back (-EBUSY), and the driver never finds an id there that is
\* not the one it lent (-EINVAL).
ReturnsAreExact ==
    /\ pc["filter"] = "process" => ~PublishBusy([mix |-> mix, in |-> inIo])
    /\ pc["driver"] \in {"flush", "flush_ready"} /\ CycleComplete => ~(Releases /\ ReleaseFails)

\* The driver looks for returns, and hands over a row, in io areas that the
\* consumer's thread uses without a lock: never while it processes.
IoNotShared ==
    pc["driver"] = "cycle" \/ (pc["driver"] \in {"flush", "flush_ready"} /\ CycleComplete) =>
        pc["filter"] \notin {"process", "release"}

\* A row that was handed over is given back to the source, though it may have
\* to wait for an output and the source offers no other row meanwhile.  Not
\* when the filter asks for a cycle between the Start command and the
\* assignment of info.state: that request waits for the next start.
RowsComeBack == \A id \in Ids : id \in out /\ io # Have(id) ~> id \notin out \/ kept

\* A row the source offered is handed over, whatever refused its ready.
OffersAccepted == HasSourceRow ~> ~HasSourceRow
=============================================================================
