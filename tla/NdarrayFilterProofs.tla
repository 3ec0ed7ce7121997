------------------------- MODULE NdarrayFilterProofs --------------------------
(***************************************************************************)
(* The owner of an ndarray filter sees its callbacks in order, and the     *)
(* published run-control state is the truth: for every set of ports and    *)
(* buffers, every configuration and any number of requests and failures.   *)
(* There is a lemma for each function of the main loop.                    *)
(***************************************************************************)
EXTENDS NdarrayFilter, TLAPS

USE DEF UNKNOWN, STOPPED, RUNNING

\* deactivate leaves a filter that is neither prepared nor, if it was, ready.
LEMMA DeactivateType ==
    ASSUME NEW g \in Filters
    PROVE  /\ Deactivate(g) \in Filters
           /\ ~Deactivate(g).prepared
           /\ Deactivate(g).ready = (g.ready /\ ~g.prepared)
           /\ Deactivate(g).actual = g.actual
           /\ Deactivate(g).requested = g.requested
           /\ Deactivate(g).state = g.state
           /\ Deactivate(g).error = g.error
           /\ Deactivate(g).started = g.started
           /\ Deactivate(g).late_reset = g.late_reset
BY DEF Deactivate, Filters

\* The error state needs nothing but the types, and that no reset came late.
LEMMA ErroredInv ==
    ASSUME NEW g \in Filters, NEW bad, setup \in SetupRecords,
           setup.run => ~g.late_reset
    PROVE  /\ Errored(g, bad) \in Filters
           /\ Errored(g, bad).state = "error"
           /\ Errored(g, bad).started = g.started
           /\ FilterInv(Errored(g, bad), setup.run)
<1> DEFINE h == [g EXCEPT !.state = "error"]
           p == PublishStatus(h, h.last, "ok", h.actual, bad # "publishes")
           c == IF setup.run /\ h.requested = h.actual THEN [p EXCEPT !.requested = UNKNOWN] ELSE h
           d == Deactivate(c)
<1>1. /\ h \in Filters /\ h.state = "error" /\ h.actual = g.actual /\ h.requested = g.requested
      /\ h.started = g.started /\ h.late_reset = g.late_reset
    BY DEF Filters
<1>2. /\ p \in Filters /\ p.state = "error" /\ p.actual = h.actual
      /\ p.started = h.started /\ p.late_reset = h.late_reset
    BY DEF PublishStatus, Filters
<1>3. /\ c \in Filters /\ c.state = "error" /\ c.started = g.started /\ c.late_reset = g.late_reset
      /\ setup.run => (c.requested # UNKNOWN => c.requested # c.actual)
    BY <1>1, <1>2 DEF Filters
<1> HIDE DEF c
<1>4. /\ d \in Filters /\ d.state = "error" /\ d.started = g.started /\ d.late_reset = g.late_reset
      /\ d.requested = c.requested /\ d.actual = c.actual
    BY <1>3, DeactivateType
<1> HIDE DEF d
<1>5. Errored(g, bad) = [d EXCEPT !.error = TRUE, !.quit = TRUE]
    BY DEF Errored, c, d
<1>6. QED BY <1>3, <1>4, <1>5 DEF Filters, FilterInv, Intact

\* fail_on_main_loop
LEMMA FailInv ==
    ASSUME NEW g \in Filters, NEW bad, setup \in SetupRecords,
           setup.run => ~g.late_reset,
           g.state = "error" => FilterInv(g, setup.run)
    PROVE  /\ Fail(g, bad) \in Filters
           /\ Fail(g, bad).state = "error"
           /\ Fail(g, bad).started = g.started
           /\ FilterInv(Fail(g, bad), setup.run)
<1> DEFINE h == [g EXCEPT !.error = TRUE, !.quit = TRUE]
<1>1. /\ h \in Filters /\ h.state = g.state /\ h.error /\ h.late_reset = g.late_reset
      /\ h.started = g.started /\ h.requested = g.requested /\ h.actual = g.actual
    BY DEF Filters
<1>2. CASE h.state = "error"
    BY <1>1, <1>2 DEF Fail, FilterInv, Intact
<1>3. CASE h.state # "error"
  <2>1. Fail(g, bad) = Errored(h, bad)
      BY <1>3 DEF Fail
  <2> HIDE DEF h
  <2>2. QED BY <1>1, <2>1, ErroredInv
<1>4. QED BY <1>2, <1>3

Results == {"ok", "failed", "busy", "already", "stale"}

\* A status that is published changes nothing but the status; one that is
\* not ends in the error state.
LEMMA PublishOrFailInv ==
    ASSUME NEW g \in Filters, NEW token \in Nat, NEW result \in Results,
           NEW actual \in {STOPPED, RUNNING}, NEW bad, NEW r,
           setup \in SetupRecords, g.state # "error", setup.run => ~g.late_reset,
           r = PublishOrFail(g, token, result, actual, bad)
    PROVE  /\ r \in Filters /\ r.started = g.started
           /\ \/ r.state = "error" /\ FilterInv(r, setup.run)
              \/ /\ r.state = g.state /\ r.error = g.error /\ r.prepared = g.prepared
                 /\ r.ready = g.ready /\ r.requested = g.requested
                 /\ r.late_reset = g.late_reset /\ r.actual = actual
<1> DEFINE h == PublishStatus(g, token, result, actual, FALSE)
<1>1. CASE bad \notin {"publish", "publishes"}
  <2>1. r = [[g EXCEPT !.actual = actual] EXCEPT !.completed = token, !.result = result]
      BY <1>1 DEF PublishOrFail, PublishStatus
  <2>2. QED BY <2>1 DEF Filters, Results
<1>2. CASE bad \in {"publish", "publishes"}
  <2>1. h = [g EXCEPT !.actual = actual]
      BY DEF PublishStatus
  <2>2. h \in Filters /\ h.state # "error" /\ h.late_reset = g.late_reset /\ h.started = g.started
      BY <2>1 DEF Filters
  <2>3. r = Fail(h, bad)
      BY <1>2 DEF PublishOrFail, PublishStatus
  <2> HIDE DEF h
  <2>4. QED BY <2>2, <2>3, FailInv
<1>3. QED BY <1>1, <1>2

\* complete_run_control also ends the request.
LEMMA CompleteInv ==
    ASSUME NEW g \in Filters, NEW result \in Results,
           NEW actual \in {STOPPED, RUNNING}, NEW bad, NEW c,
           setup \in SetupRecords, g.state # "error", setup.run => ~g.late_reset,
           c = Complete(g, result, actual, bad)
    PROVE  /\ c \in Filters /\ c.started = g.started /\ c.requested = UNKNOWN
           /\ \/ c.state = "error" /\ FilterInv(c, setup.run)
              \/ /\ c.state = g.state /\ c.error = g.error /\ c.prepared = g.prepared
                 /\ c.ready = g.ready /\ c.late_reset = g.late_reset /\ c.actual = actual
<1> DEFINE r == PublishOrFail(g, g.last, result, actual, bad)
<1>1. /\ r \in Filters /\ r.started = g.started
      /\ \/ r.state = "error" /\ FilterInv(r, setup.run)
         \/ /\ r.state = g.state /\ r.error = g.error /\ r.prepared = g.prepared
            /\ r.ready = g.ready /\ r.requested = g.requested
            /\ r.late_reset = g.late_reset /\ r.actual = actual
  <2>1. g.last \in Nat
      BY DEF Filters
  <2>2. QED BY <2>1, PublishOrFailInv
<1>2. c = [r EXCEPT !.requested = UNKNOWN]
    BY DEF Complete
<1> HIDE DEF r
<1>3. QED BY <1>1, <1>2 DEF Filters, FilterInv, Intact

\* update_processing_state: what it reports is what it has done.
LEMMA UpdateProcessingType ==
    ASSUME NEW g \in Filters, NEW state, NEW bad, NEW u,
           setup \in SetupRecords, u = UpdateProcessing(g, state, bad)
    PROVE  /\ u.filter \in Filters /\ u.ok \in BOOLEAN /\ u.actual \in {STOPPED, RUNNING}
           /\ u.filter.state = g.state /\ u.filter.error = g.error
           /\ u.filter.started = g.started /\ u.filter.actual = g.actual
           /\ u.filter.requested = g.requested /\ u.filter.late_reset = g.late_reset
           /\ u.ok => /\ (g.ready <=> g.prepared) => (u.filter.ready <=> u.filter.prepared)
                      /\ state \in {"paused", "unconnected"} =>
                            ~u.filter.prepared /\ u.actual = STOPPED
                      /\ state = "streaming" /\ (~setup.run \/ RUNNING \in {g.requested, g.actual}) =>
                            u.filter.prepared /\ u.actual = RUNNING
                      /\ state = "streaming" /\ setup.run /\ RUNNING \notin {g.requested, g.actual} =>
                            u.filter.prepared = g.prepared /\ u.actual = g.actual
           /\ ~u.ok => /\ u.actual = g.actual /\ ~u.filter.prepared
                       /\ \/ state = "streaming" /\ ~u.filter.ready /\ ~g.prepared
                          \/ state # "streaming" /\ g.prepared
<1> DEFINE starts == state = "streaming" /\ (~setup.run \/ RUNNING \in {g.requested, g.actual})
           stops == state \in {"paused", "unconnected"}
           fails == \/ starts /\ ~g.prepared /\ bad = "prepare"
                    \/ stops /\ g.prepared /\ bad = "deactivate"
           on == [g EXCEPT !.prepared = TRUE, !.ready = TRUE, !.fresh = TRUE]
           off == [g EXCEPT !.ready = FALSE]
           h == IF starts /\ fails THEN off ELSE IF starts /\ ~g.prepared THEN on
                ELSE IF stops THEN Deactivate(g) ELSE g
           a == IF fails THEN g.actual ELSE IF starts THEN RUNNING
                ELSE IF stops THEN STOPPED ELSE g.actual
<1>1. u = [filter |-> h, ok |-> ~fails, actual |-> a]
    BY DEF UpdateProcessing
<1>2. u.filter = h /\ u.ok = ~fails /\ u.actual = a
    BY <1>1
<1>3. /\ on \in Filters /\ on.prepared /\ on.ready
      /\ on.state = g.state /\ on.error = g.error /\ on.started = g.started
      /\ on.actual = g.actual /\ on.requested = g.requested /\ on.late_reset = g.late_reset
    BY DEF Filters
<1>4. /\ off \in Filters /\ ~off.ready /\ off.prepared = g.prepared
      /\ off.state = g.state /\ off.error = g.error /\ off.started = g.started
      /\ off.actual = g.actual /\ off.requested = g.requested /\ off.late_reset = g.late_reset
    BY DEF Filters
<1>5. g.actual \in {STOPPED, RUNNING} /\ g.prepared \in BOOLEAN /\ g.ready \in BOOLEAN
    BY DEF Filters
<1>6. /\ Deactivate(g) \in Filters /\ ~Deactivate(g).prepared
      /\ Deactivate(g).ready = (g.ready /\ ~g.prepared)
      /\ Deactivate(g).state = g.state /\ Deactivate(g).error = g.error
      /\ Deactivate(g).started = g.started /\ Deactivate(g).actual = g.actual
      /\ Deactivate(g).requested = g.requested /\ Deactivate(g).late_reset = g.late_reset
    BY DeactivateType
<1> HIDE DEF on, off
<1>7. CASE starts /\ fails
  <2>1. u.filter = off /\ ~u.ok /\ u.ok \in BOOLEAN /\ u.actual = g.actual
      BY <1>2, <1>7
  <2>2. QED BY <2>1, <1>4, <1>5, <1>7
<1>8. CASE starts /\ ~fails
  <2>1. u.filter = (IF g.prepared THEN g ELSE on) /\ u.ok /\ u.ok \in BOOLEAN /\ u.actual = RUNNING
      BY <1>2, <1>8
  <2>2. QED BY <2>1, <1>3, <1>5, <1>8
<1>9. CASE stops
  <2>1. u.filter = Deactivate(g) /\ u.ok = ~fails /\ u.actual = IF fails THEN g.actual ELSE STOPPED
      BY <1>2, <1>9
  <2>2. QED BY <2>1, <1>5, <1>6, <1>9
<1>10. CASE ~starts /\ ~stops
  <2>1. u.filter = g /\ u.ok /\ u.ok \in BOOLEAN /\ u.actual = g.actual
      BY <1>2, <1>10
  <2>2. QED BY <2>1, <1>5, <1>10
<1>11. QED BY <1>7, <1>8, <1>9, <1>10

\* filter_state_changed, for a node that is not in the graph.
LEMMA StateChangedInv ==
    ASSUME NEW g \in Filters, NEW state \in {"paused", "streaming", "unconnected"}, NEW bad, NEW r,
           setup \in SetupRecords, FilterInv(g, setup.run), ~g.started,
           Intact(g) \/ state = "unconnected",
           r = StateChanged(g, state, bad)
    PROVE  /\ r \in Filters /\ ~r.started /\ r.state \in {state, "error"}
           /\ FilterInv(r, setup.run)
<1> DEFINE e == [g EXCEPT !.state = state]
           u == UpdateProcessing(e, state, bad)
           h == u.filter
           c == IF ~setup.run THEN h
                ELSE IF ~u.ok /\ h.requested # UNKNOWN THEN Complete(h, "failed", u.actual, bad)
                ELSE IF u.ok /\ u.actual = h.requested THEN Complete(h, "ok", u.actual, bad)
                ELSE IF h.requested = UNKNOWN /\ u.actual # h.actual
                THEN PublishOrFail(h, h.completed, "ok", u.actual, bad)
                ELSE h
<1>1. /\ e \in Filters /\ e.state = state /\ e.error = g.error /\ e.prepared = g.prepared
      /\ e.ready = g.ready /\ e.started = g.started /\ e.actual = g.actual
      /\ e.requested = g.requested /\ e.late_reset = g.late_reset
    BY DEF Filters
<1>2. /\ h \in Filters /\ u.ok \in BOOLEAN /\ u.actual \in {STOPPED, RUNNING}
      /\ h.state = state /\ h.error = g.error /\ ~h.started /\ h.actual = g.actual
      /\ h.requested = g.requested /\ h.late_reset = g.late_reset
      /\ u.ok => /\ (g.ready <=> g.prepared) => (h.ready <=> h.prepared)
                 /\ state \in {"paused", "unconnected"} => ~h.prepared /\ u.actual = STOPPED
                 /\ state = "streaming" /\ (~setup.run \/ RUNNING \in {g.requested, g.actual}) =>
                       h.prepared /\ u.actual = RUNNING
                 /\ state = "streaming" /\ setup.run /\ RUNNING \notin {g.requested, g.actual} =>
                       h.prepared = g.prepared /\ u.actual = g.actual
  <2> HIDE DEF e
  <2>1. QED BY <1>1, UpdateProcessingType
<1>3. r = IF u.ok THEN c ELSE Fail(c, bad)
    BY DEF StateChanged
<1>4. /\ h.state # "error" /\ h.completed \in Nat /\ h.requested \in {UNKNOWN, STOPPED, RUNNING}
      /\ h.prepared \in BOOLEAN /\ h.ready \in BOOLEAN /\ "ok" \in Results /\ "failed" \in Results
      /\ setup.run \in BOOLEAN /\ (setup.run => ~h.late_reset)
    BY <1>2 DEF Filters, SetupRecords, Results, FilterInv
<1> HIDE DEF u
<1>5. /\ c \in Filters /\ c.started = h.started
      /\ \/ c.state = "error" /\ FilterInv(c, setup.run)
         \/ /\ c.state = h.state /\ c.error = h.error /\ c.prepared = h.prepared
            /\ c.ready = h.ready /\ c.late_reset = h.late_reset
  <2>1. CASE c = h
      BY <2>1, <1>2
  <2>2. CASE c = Complete(h, "failed", u.actual, bad)
    <3> HIDE DEF c, h
    <3>1. QED BY <2>2, <1>2, <1>4, CompleteInv
  <2>3. CASE c = Complete(h, "ok", u.actual, bad)
    <3> HIDE DEF c, h
    <3>1. QED BY <2>3, <1>2, <1>4, CompleteInv
  <2>4. CASE c = PublishOrFail(h, h.completed, "ok", u.actual, bad)
    <3> HIDE DEF c, h
    <3>1. QED BY <2>4, <1>2, <1>4, PublishOrFailInv
  <2>5. QED BY <2>1, <2>2, <2>3, <2>4
<1>6. CASE ~u.ok
  <2>1. r = Fail(c, bad) /\ (setup.run => ~c.late_reset)
      BY <1>3, <1>4, <1>5, <1>6 DEF FilterInv
  <2> HIDE DEF c, h
  <2>2. QED BY <2>1, <1>2, <1>5, FailInv
<1>7. CASE u.ok /\ ~setup.run
  <2>1. r = h
      BY <1>3, <1>7
  <2> HIDE DEF c, h
  <2>2. QED BY <2>1, <1>2, <1>4, <1>7 DEF FilterInv, Intact
<1>8. CASE u.ok /\ setup.run
  <2> r = c
      BY <1>3, <1>8
  <2>1. CASE u.actual = h.requested
    <3>1. c = Complete(h, "ok", u.actual, bad)
        BY <1>8, <2>1
    <3> HIDE DEF c, h
    <3>2. /\ c.requested = UNKNOWN
          /\ \/ c.state = "error" /\ FilterInv(c, setup.run)
             \/ c.actual = u.actual
        BY <3>1, <1>2, <1>4, CompleteInv
    <3>3. QED BY <3>2, <1>2, <1>4, <1>5, <1>8, <2>1 DEF FilterInv, Intact
  <2>2. CASE u.actual # h.requested /\ h.requested = UNKNOWN /\ u.actual # h.actual
    <3>1. c = PublishOrFail(h, h.completed, "ok", u.actual, bad)
        BY <1>8, <2>2
    <3> HIDE DEF c, h
    <3>2. \/ c.state = "error" /\ FilterInv(c, setup.run)
          \/ c.actual = u.actual /\ c.requested = h.requested
        BY <3>1, <1>2, <1>4, PublishOrFailInv
    <3>3. QED BY <3>2, <1>2, <1>4, <1>5, <1>8, <2>2 DEF FilterInv, Intact
  <2>3. CASE u.actual # h.requested /\ ~(h.requested = UNKNOWN /\ u.actual # h.actual)
    <3>1. c = h
        BY <1>8, <2>3
    <3> HIDE DEF c, h
    <3>2. QED BY <3>1, <1>2, <1>4, <1>8, <2>3 DEF FilterInv, Intact
  <2>4. QED BY <2>1, <2>2, <2>3
<1>9. QED BY <1>2, <1>6, <1>7, <1>8

\* The answer to a run request: it may prepare the filter, it never takes it
\* out of a cycle.
LEMMA RequestRunInv ==
    ASSUME NEW g \in Filters, NEW token \in Nat, NEW want \in {RUNNING, STOPPED}, NEW bad, NEW r,
           setup \in SetupRecords, FilterInv(g, setup.run),
           g.state \in {"paused", "streaming"},
           r = RequestRun(g, token, want, bad)
    PROVE  /\ r \in Filters /\ r.started = g.started /\ r.state \in {g.state, "error"}
           /\ FilterInv(r, setup.run)
           /\ r.state # "error" /\ g.prepared => r.prepared
<1> DEFINE k == [g EXCEPT !.last = token]
           h == [g EXCEPT !.last = token, !.requested = want]
           a == [h EXCEPT !.active = (want = RUNNING)]
           u == UpdateProcessing(a, a.state, bad)
<1>1. /\ g.state # "error" /\ g.actual \in {STOPPED, RUNNING} /\ g.prepared \in BOOLEAN
      /\ g.ready \in BOOLEAN /\ g.requested \in {UNKNOWN, STOPPED, RUNNING}
      /\ (setup.run => ~g.late_reset) /\ Intact(g)
      /\ Results = {"ok", "failed", "busy", "already", "stale"}
    BY DEF Filters, FilterInv, Intact, Results
<1>2. /\ k \in Filters /\ k.state = g.state /\ k.error = g.error /\ k.prepared = g.prepared
      /\ k.ready = g.ready /\ k.started = g.started /\ k.actual = g.actual
      /\ k.late_reset = g.late_reset
    BY DEF Filters
<1>3. /\ h \in Filters /\ h.state = g.state /\ h.error = g.error /\ h.prepared = g.prepared
      /\ h.ready = g.ready /\ h.started = g.started /\ h.actual = g.actual
      /\ h.late_reset = g.late_reset
    BY DEF Filters
<1>4. /\ a \in Filters /\ a.state = g.state /\ a.error = g.error /\ a.prepared = g.prepared
      /\ a.ready = g.ready /\ a.started = g.started /\ a.actual = g.actual
      /\ a.late_reset = g.late_reset /\ a.requested = want
    BY <1>3 DEF Filters
<1>5. ASSUME NEW result \in Results, r = PublishOrFail(g, token, result, g.actual, bad)
      PROVE  /\ r \in Filters /\ r.started = g.started /\ r.state \in {g.state, "error"}
             /\ FilterInv(r, setup.run) /\ (r.state # "error" /\ g.prepared => r.prepared)
  <2>1. /\ r \in Filters /\ r.started = g.started
        /\ \/ r.state = "error" /\ FilterInv(r, setup.run)
           \/ /\ r.state = g.state /\ r.error = g.error /\ r.prepared = g.prepared
              /\ r.ready = g.ready /\ r.requested = g.requested
              /\ r.late_reset = g.late_reset /\ r.actual = g.actual
    <3> HIDE DEF k, h, a, u
    <3>1. g.state # "error" /\ (setup.run => ~g.late_reset) /\ g.actual \in {STOPPED, RUNNING}
        BY <1>1
    <3>2. QED BY <3>1, <1>5, PublishOrFailInv
  <2>2. QED BY <2>1, <1>1 DEF FilterInv, Intact
<1>6. ASSUME NEW x \in Filters, NEW result \in Results, NEW actual \in {STOPPED, RUNNING},
             r = Complete(x, result, actual, bad), x.state = g.state, x.error = g.error,
             x.started = g.started, x.late_reset = g.late_reset,
             x.ready <=> x.prepared, x.prepared => x.state = "streaming",
             setup.run => (actual = RUNNING <=> x.prepared), g.prepared => x.prepared
      PROVE  /\ r \in Filters /\ r.started = g.started /\ r.state \in {g.state, "error"}
             /\ FilterInv(r, setup.run) /\ (r.state # "error" /\ g.prepared => r.prepared)
  <2>1. /\ r \in Filters /\ r.started = x.started /\ r.requested = UNKNOWN
        /\ \/ r.state = "error" /\ FilterInv(r, setup.run)
           \/ /\ r.state = x.state /\ r.error = x.error /\ r.prepared = x.prepared
              /\ r.ready = x.ready /\ r.late_reset = x.late_reset /\ r.actual = actual
    <3> HIDE DEF k, h, a, u
    <3>1. x.state # "error" /\ (setup.run => ~x.late_reset) /\ r = Complete(x, result, actual, bad)
        BY <1>1, <1>6
    <3>2. QED BY <3>1, CompleteInv
  <2>2. QED BY <2>1, <1>1, <1>6 DEF FilterInv, Intact
<1>7. CASE g.requested # UNKNOWN
  <2>1. r = PublishOrFail(g, token, "busy", g.actual, bad)
      BY <1>7 DEF RequestRun
  <2>2. QED BY <2>1, <1>1, <1>5
<1>8. CASE g.requested = UNKNOWN /\ token <= g.last
  <2>1. \/ r = PublishOrFail(g, token, "already", g.actual, bad)
        \/ r = PublishOrFail(g, token, "stale", g.actual, bad)
      BY <1>8 DEF RequestRun
  <2>2. QED BY <2>1, <1>1, <1>5
<1>9. CASE g.requested = UNKNOWN /\ ~(token <= g.last) /\ want = g.actual
  <2>1. r = Complete(k, "ok", g.actual, bad)
      BY <1>9 DEF RequestRun
  <2>2. /\ k.ready <=> k.prepared
        /\ k.prepared => k.state = "streaming"
        /\ setup.run => (g.actual = RUNNING <=> k.prepared)
      BY <1>1, <1>2 DEF FilterInv
  <2> HIDE DEF k
  <2>3. QED BY <2>1, <2>2, <1>1, <1>2, <1>6
<1>10. CASE g.requested = UNKNOWN /\ ~(token <= g.last) /\ want # g.actual /\ bad = "active"
  <2>1. r = Complete(h, "failed", g.actual, bad)
      BY <1>10, <1>3 DEF RequestRun
  <2>2. /\ h.ready <=> h.prepared
        /\ h.prepared => h.state = "streaming"
        /\ setup.run => (g.actual = RUNNING <=> h.prepared)
      BY <1>1, <1>3 DEF FilterInv
  <2> HIDE DEF h
  <2>3. QED BY <2>1, <2>2, <1>1, <1>3, <1>6
<1>11. CASE /\ g.requested = UNKNOWN /\ ~(token <= g.last) /\ want # g.actual /\ bad # "active"
            /\ <<want, a.state>> \in {<<RUNNING, "streaming">>, <<STOPPED, "paused">>}
  <2>1. r = Complete(u.filter, IF u.ok THEN "ok" ELSE "failed", u.actual, bad)
      BY <1>11 DEF RequestRun
  <2>2. \/ want = RUNNING /\ g.state = "streaming"
        \/ want = STOPPED /\ g.state = "paused"
      BY <1>4, <1>11
  <2> HIDE DEF a
  <2>3. /\ u.filter \in Filters /\ u.ok \in BOOLEAN /\ u.actual \in {STOPPED, RUNNING}
        /\ u.filter.state = g.state /\ u.filter.error = g.error
        /\ u.filter.started = g.started /\ u.filter.late_reset = g.late_reset
        /\ u.ok => /\ (g.ready <=> g.prepared) => (u.filter.ready <=> u.filter.prepared)
                   /\ g.state = "paused" => ~u.filter.prepared /\ u.actual = STOPPED
                   /\ g.state = "streaming" /\ want = RUNNING => u.filter.prepared /\ u.actual = RUNNING
        /\ ~u.ok => /\ u.actual = g.actual /\ ~u.filter.prepared
                    /\ \/ g.state = "streaming" /\ ~u.filter.ready /\ ~g.prepared
                       \/ g.state # "streaming" /\ g.prepared
      BY <1>4, UpdateProcessingType
  <2>4. /\ g.ready <=> g.prepared
        /\ g.prepared => g.state = "streaming"
        /\ setup.run => (g.actual = RUNNING <=> g.prepared)
      BY <1>1 DEF FilterInv
  <2> HIDE DEF u
  <2>5. ~u.ok => g.state = "streaming" /\ ~g.prepared
      BY <2>2, <2>3, <2>4, <1>1, <1>11
  <2>6. /\ u.filter.ready <=> u.filter.prepared
        /\ u.filter.prepared => u.filter.state = "streaming"
        /\ setup.run => (u.actual = RUNNING <=> u.filter.prepared)
        /\ g.prepared => u.filter.prepared
    <3>1. u.filter.ready \in BOOLEAN /\ u.filter.prepared \in BOOLEAN
        BY <2>3 DEF Filters
    <3>2. QED BY <2>2, <2>3, <2>4, <2>5, <3>1
  <2>7. (IF u.ok THEN "ok" ELSE "failed") \in Results
      BY <1>1
  <2>8. QED BY <2>1, <2>3, <2>6, <2>7, <1>6
<1>12. CASE /\ g.requested = UNKNOWN /\ ~(token <= g.last) /\ want # g.actual /\ bad # "active"
            /\ <<want, a.state>> \notin {<<RUNNING, "streaming">>, <<STOPPED, "paused">>}
  <2>1. r = a
      BY <1>12 DEF RequestRun
  <2> HIDE DEF a
  <2>2. QED BY <2>1, <1>1, <1>4, <1>12 DEF FilterInv, Intact
<1>13. QED BY <1>7, <1>8, <1>9, <1>10, <1>11, <1>12

\* The answer to a reset request; with run control it never meets a filter
\* that is ready for cycles.
LEMMA RequestResetInv ==
    ASSUME NEW g \in Filters, NEW token \in Nat, NEW bad, NEW r,
           setup \in SetupRecords, FilterInv(g, setup.run),
           g.state \in {"paused", "streaming"},
           r = RequestReset(g, token, bad)
    PROVE  /\ r \in Filters /\ r.started = g.started /\ r.state \in {g.state, "error"}
           /\ FilterInv(r, setup.run)
           /\ r.state # "error" /\ g.prepared => r.prepared
<1> DEFINE late == g.late_reset \/ (g.actual = STOPPED /\ g.requested = UNKNOWN /\ g.ready)
           h == IF token <= g.last_reset THEN g
                ELSE [g EXCEPT !.last_reset = token, !.late_reset = late]
<1>1. r = IF bad \in {"publish", "publishes"} THEN Fail(h, bad) ELSE h
    BY DEF RequestReset
<1>2. /\ late \in BOOLEAN
      /\ setup.run => ~g.late_reset /\ ~late
  <2>1. g.late_reset \in BOOLEAN /\ g.ready \in BOOLEAN /\ g.prepared \in BOOLEAN
      BY DEF Filters
  <2>2. setup.run => ~g.late_reset /\ (g.ready => g.actual = RUNNING)
      BY <2>1 DEF FilterInv, Intact
  <2>3. QED BY <2>1, <2>2
<1> HIDE DEF late
<1>3. /\ h \in Filters /\ h.state = g.state /\ h.error = g.error /\ h.started = g.started
      /\ h.prepared = g.prepared /\ h.ready = g.ready /\ h.actual = g.actual
      /\ h.requested = g.requested /\ (setup.run => ~h.late_reset)
  <2>1. CASE token <= g.last_reset
    <3>1. h = g
        BY <2>1
    <3>2. QED BY <3>1, <1>2
  <2>2. CASE ~(token <= g.last_reset)
    <3>1. h = [g EXCEPT !.last_reset = token, !.late_reset = late]
        BY <2>2
    <3> HIDE DEF h
    <3>2. QED BY <3>1, <1>2 DEF Filters
  <2>3. QED BY <2>1, <2>2
<1> HIDE DEF h
<1>4. FilterInv(h, setup.run)
    BY <1>3 DEF FilterInv, Intact
<1>5. CASE r = h
    BY <1>3, <1>4, <1>5
<1>6. CASE r = Fail(h, bad)
    BY <1>3, <1>4, <1>6, FailInv
<1>7. QED BY <1>1, <1>5, <1>6

\* The buffers of a port are removed.
LEMMA RemovedInv ==
    ASSUME NEW g \in Filters, NEW retained, NEW quiet, NEW r,
           setup \in SetupRecords, FilterInv(g, setup.run),
           r = Removed(g, retained, quiet)
    PROVE  /\ r \in Filters /\ r.started = g.started
           /\ FilterInv(r, setup.run)
<1> DEFINE h == [g EXCEPT !.prepared = FALSE, !.ready = IF g.prepared THEN FALSE ELSE @]
<1>1. /\ h \in Filters /\ h.state = g.state /\ h.error = g.error /\ h.started = g.started
      /\ ~h.prepared /\ h.ready = (g.ready /\ ~g.prepared) /\ h.actual = g.actual
      /\ h.requested = g.requested /\ h.late_reset = g.late_reset
    BY DEF Filters
<1>2. r = IF ~retained THEN g ELSE IF quiet /\ ~g.prepared THEN h ELSE Fail(h, "none")
    BY DEF Removed
<1> HIDE DEF h
<1>3. g.ready \in BOOLEAN /\ g.prepared \in BOOLEAN
    BY DEF Filters
<1>4. CASE r = g
    BY <1>4
<1>5. CASE r = h /\ quiet /\ ~g.prepared
    BY <1>1, <1>3, <1>5 DEF FilterInv, Intact
<1>6. CASE r = Fail(h, "none")
  <2>1. /\ setup.run => ~h.late_reset
        /\ h.state = "error" => FilterInv(h, setup.run)
      BY <1>1, <1>3 DEF FilterInv, Intact
  <2>2. QED BY <1>1, <1>6, <2>1, FailInv
<1>7. QED BY <1>2, <1>4, <1>5, <1>6

(* A filter as pw_ndarray_filter_new leaves it satisfies the invariant. *)
LEMMA InitIInv == Init => IInv
<1> SUFFICES ASSUME Init PROVE IInv
    OBVIOUS
<1>1. setup \in SetupRecords
    BY FilterAssumption DEF Init
<1>2. setup.run \in BOOLEAN
    BY <1>1 DEF SetupRecords
<1>3. /\ f \in Filters /\ f.state = "paused" /\ ~f.started /\ ~f.prepared /\ ~f.ready
      /\ f.actual = STOPPED /\ f.requested = UNKNOWN /\ ~f.late_reset
    BY <1>2 DEF Init, Filters
<1>4. main = "idle" /\ data.pc = "idle"
    BY DEF Init
<1>5. QED BY <1>1, <1>3, <1>4 DEF IInv, FilterInv, DataIdle

\* A step that leaves the filter alone, and begins no cycle, keeps IInv.
LEMMA QuietStep ==
    ASSUME IInv, f' = f, setup' = setup,
           data.pc = "idle" => data'.pc = "idle",
           main' \in {"stop_worker", "freed"} => main \in {"stop_worker", "freed"}
    PROVE  IInv'
BY DEF IInv, DataIdle, FilterInv, Intact, Filters, SetupRecords

\* signal_process_error marks the filter from another thread.
LEMMA ErrorStep ==
    ASSUME IInv, f' = [f EXCEPT !.error = TRUE], setup' = setup, main' = main,
           data.pc = "idle" => data'.pc = "idle"
    PROVE  IInv'
<1>1. /\ f' \in Filters /\ f'.error /\ f'.state = f.state /\ f'.started = f.started
      /\ f'.prepared = f.prepared /\ f'.ready = f.ready /\ f'.actual = f.actual
      /\ f'.requested = f.requested /\ f'.late_reset = f.late_reset
    BY DEF IInv, Filters
<1>2. setup' \in SetupRecords
    BY DEF IInv, SetupRecords
<1>3. FilterInv(f, setup.run)'
    BY <1>1 DEF IInv, FilterInv, Intact
<1>4. QED BY <1>1, <1>2, <1>3 DEF IInv, DataIdle, Intact

\* A handler of the main loop that answers with the filter g.
LEMMA HandleStep ==
    ASSUME IInv, MainLoop, NEW g \in Filters, NEW bad, Handle(g, bad),
           FilterInv(g, setup.run),
           ~DataIdle => g.started /\ (Intact(g) => g.prepared)
    PROVE  IInv'
<1>1. f' = g /\ setup' = setup /\ main' = main /\ data' = data
    BY DEF Handle
<1>2. FilterInv(f, setup.run)'
    BY <1>1 DEF FilterInv, Intact
<1>3. setup' \in SetupRecords
    BY <1>1 DEF IInv, SetupRecords
<1>4. main' \notin {"stop_worker", "freed"}
    BY <1>1 DEF MainLoop
<1>5. QED BY <1>1, <1>2, <1>3, <1>4 DEF IInv, DataIdle, Intact

\* The actions of the main loop, of the data loop and of the worker.
LEMMA NextIInv == IInv /\ [Next]_vars => IInv'
<1> SUFFICES ASSUME IInv, [Next]_vars PROVE IInv'
    OBVIOUS
<1>1. /\ setup \in SetupRecords /\ f \in Filters /\ FilterInv(f, setup.run)
      /\ ~DataIdle => f.started /\ (Intact(f) => f.prepared)
      /\ main \in {"stop_worker", "freed"} => ~f.started /\ f.state \in {"unconnected", "error"}
    BY DEF IInv
<1>2. ASSUME NEW bad, Start(bad) PROVE IInv'
  <2> DEFINE r == StateChanged(f, "streaming", bad)
             g == [r EXCEPT !.started = TRUE]
  <2>1. MainLoop /\ f.state = "paused" /\ Handle(g, bad)
      BY <1>2 DEF Start, MainHandler
  <2>2. ~f.started /\ Intact(f) /\ DataIdle
      BY <1>1, <2>1 DEF FilterInv, Intact
  <2>3. r \in Filters /\ r.state \in {"streaming", "error"} /\ FilterInv(r, setup.run)
      BY <1>1, <2>2, StateChangedInv
  <2> HIDE DEF r
  <2>4. g \in Filters /\ FilterInv(g, setup.run)
      BY <2>3 DEF Filters, FilterInv, Intact
  <2> HIDE DEF g
  <2>5. QED BY <2>1, <2>2, <2>4, HandleStep
<1>3. ASSUME NEW bad, Pause(bad) PROVE IInv'
  <2> DEFINE h == [f EXCEPT !.started = FALSE]
             g == StateChanged(h, "paused", bad)
  <2>1. MainLoop /\ f.state = "streaming" /\ DataIdle /\ Handle(g, bad)
      BY <1>3 DEF Pause, MainHandler
  <2>2. h \in Filters /\ FilterInv(h, setup.run) /\ ~h.started /\ Intact(h)
      BY <1>1, <2>1 DEF Filters, FilterInv, Intact
  <2> HIDE DEF h
  <2>3. g \in Filters /\ FilterInv(g, setup.run)
      BY <1>1, <2>2, StateChangedInv
  <2> HIDE DEF g
  <2>4. QED BY <2>1, <2>3, HandleStep
<1>4. CASE LeaveGraph
  <2> DEFINE g == [f EXCEPT !.started = FALSE]
  <2>1. MainLoop /\ f.state = "error" /\ DataIdle /\ Handle(g, "none")
      BY <1>4 DEF LeaveGraph, MainHandler
  <2>2. g \in Filters /\ FilterInv(g, setup.run)
      BY <1>1, <2>1 DEF Filters, FilterInv, Intact
  <2> HIDE DEF g
  <2>3. QED BY <2>1, <2>2, HandleStep
<1>5. ASSUME NEW token \in 1..MaxToken, NEW want \in {RUNNING, STOPPED}, NEW bad,
             RunRequest(token, want, bad)
      PROVE  IInv'
  <2> DEFINE g == RequestRun(f, token, want, bad)
  <2>1. MainLoop /\ f.state \in {"paused", "streaming"} /\ Handle(g, bad) /\ token \in Nat
      BY <1>5, FilterAssumption DEF RunRequest, MainHandler
  <2>2. /\ g \in Filters /\ g.started = f.started /\ g.state \in {f.state, "error"}
        /\ FilterInv(g, setup.run) /\ (g.state # "error" /\ f.prepared => g.prepared)
      BY <1>1, <2>1, RequestRunInv
  <2> HIDE DEF g
  <2>3. ~DataIdle => g.started /\ (Intact(g) => g.prepared)
      BY <1>1, <2>1, <2>2 DEF Intact, FilterInv
  <2>4. QED BY <2>1, <2>2, <2>3, HandleStep
<1>6. ASSUME NEW token \in 1..MaxToken, NEW bad, ResetRequest(token, bad) PROVE IInv'
  <2> DEFINE g == RequestReset(f, token, bad)
  <2>1. MainLoop /\ f.state \in {"paused", "streaming"} /\ Handle(g, bad) /\ token \in Nat
      BY <1>6, FilterAssumption DEF ResetRequest, MainHandler
  <2>2. /\ g \in Filters /\ g.started = f.started /\ g.state \in {f.state, "error"}
        /\ FilterInv(g, setup.run) /\ (g.state # "error" /\ f.prepared => g.prepared)
      BY <1>1, <2>1, RequestResetInv
  <2> HIDE DEF g
  <2>3. ~DataIdle => g.started /\ (Intact(g) => g.prepared)
      BY <1>1, <2>1, <2>2 DEF Intact, FilterInv
  <2>4. QED BY <2>1, <2>2, <2>3, HandleStep
<1>7. CASE ErrorEvent
  <2>1. f' = Fail(f, "none") /\ setup' = setup /\ main' = "idle"
      BY <1>7 DEF ErrorEvent, MainHandler, MainLoop
  <2>2. /\ f' \in Filters /\ f'.state = "error" /\ f'.started = f.started
        /\ FilterInv(f', setup.run)
    <3>1. setup.run => ~f.late_reset
        BY <1>1 DEF FilterInv
    <3>2. QED BY <1>1, <2>1, <3>1, FailInv
  <2>3. data' = data
      BY <1>7 DEF ErrorEvent
  <2>4. ~Intact(f')
      BY <2>2 DEF FilterInv, Intact
  <2>5. QED BY <1>1, <2>1, <2>2, <2>3, <2>4 DEF IInv, DataIdle, FilterInv, Intact
<1>8. CASE FifoEventClear \/ FifoEventTrigger
  <2>1. f' = f /\ setup' = setup /\ data' = data /\ main' \in {"fifo", "idle"}
      BY <1>8 DEF FifoEventClear, FifoEventTrigger
  <2>2. QED BY <2>1, QuietStep
<1>9. ASSUME NEW i \in setup.inputs, RemoveInput(i) PROVE IInv'
  <2> DEFINE retained == in[i].buffer # NoFrame
  <2>1. f' = Removed(f, retained, FALSE) /\ setup' = setup /\ data' = data /\ DataIdle /\ main' = "idle"
      BY <1>9 DEF RemoveInput, MainHandler, MainLoop
  <2> HIDE DEF retained
  <2>2. f' \in Filters /\ FilterInv(f', setup.run)
      BY <1>1, <2>1, RemovedInv
  <2>3. QED BY <1>1, <2>1, <2>2 DEF IInv, DataIdle, FilterInv, Intact
<1>10. CASE RemoveOutput
  <2> DEFINE quiet == f.actual = STOPPED /\ ~out.unavailable
             held == out.held
             r == Removed(f, held, quiet)
  <2>1. f' = [r EXCEPT !.fresh = TRUE] /\ setup' = setup /\ data' = data /\ DataIdle /\ main' = "idle"
      BY <1>10 DEF RemoveOutput, MainHandler, MainLoop
  <2> HIDE DEF quiet, held
  <2>2. r \in Filters /\ FilterInv(r, setup.run)
      BY <1>1, RemovedInv
  <2> HIDE DEF r
  <2>3. f' \in Filters /\ FilterInv(f', setup.run)
      BY <2>1, <2>2 DEF Filters, FilterInv, Intact
  <2>4. QED BY <1>1, <2>1, <2>3 DEF IInv, DataIdle, FilterInv, Intact
<1>11. CASE Return \/ Destroy
  <2>1. /\ f' = [f EXCEPT !.quit = TRUE] \/ f' = [f EXCEPT !.destroying = TRUE]
        /\ setup' = setup /\ data' = data /\ main' \in {"returned", "disconnect"}
      BY <1>11 DEF Return, Destroy
  <2>2. /\ f' \in Filters /\ f'.state = f.state /\ f'.error = f.error /\ f'.started = f.started
        /\ f'.prepared = f.prepared /\ f'.ready = f.ready /\ f'.actual = f.actual
        /\ f'.requested = f.requested /\ f'.late_reset = f.late_reset
    <3>1. CASE f' = [f EXCEPT !.quit = TRUE]
        BY <1>1, <3>1 DEF Filters
    <3>2. CASE f' = [f EXCEPT !.destroying = TRUE]
        BY <1>1, <3>2 DEF Filters
    <3>3. QED BY <2>1, <3>1, <3>2
  <2>3. FilterInv(f', setup.run) /\ (Intact(f') <=> Intact(f))
      BY <1>1, <2>2 DEF FilterInv, Intact
  <2>4. QED BY <1>1, <2>1, <2>2, <2>3 DEF IInv, DataIdle, FilterInv, Intact
<1>12. CASE Disconnect
  <2> DEFINE h == [f EXCEPT !.started = FALSE]
  <2>1. /\ f' = StateChanged(h, "unconnected", "none")
        /\ setup' = setup /\ data' = data /\ DataIdle
      BY <1>12 DEF Disconnect
  <2>2. h \in Filters /\ FilterInv(h, setup.run) /\ ~h.started
      BY <1>1 DEF Filters, FilterInv, Intact
  <2> HIDE DEF h
  <2>3. f' \in Filters /\ ~f'.started /\ f'.state \in {"unconnected", "error"} /\ FilterInv(f', setup.run)
      BY <1>1, <2>1, <2>2, StateChangedInv
  <2>4. QED BY <1>1, <2>1, <2>3 DEF IInv, DataIdle, FilterInv, Intact
<1>13. CASE StopWorker
  <2>1. f' = Deactivate(f) /\ setup' = setup /\ data' = data /\ main = "stop_worker"
      BY <1>13 DEF StopWorker
  <2>2. /\ f' \in Filters /\ ~f'.prepared /\ f'.ready = (f.ready /\ ~f.prepared)
        /\ f'.actual = f.actual /\ f'.requested = f.requested /\ f'.state = f.state
        /\ f'.error = f.error /\ f'.started = f.started /\ f'.late_reset = f.late_reset
      BY <1>1, <2>1, DeactivateType
  <2>3. ~f.started /\ f.state \in {"unconnected", "error"} /\ DataIdle
      BY <1>1, <2>1
  <2>4. FilterInv(f', setup.run)
    <3>1. f.ready \in BOOLEAN /\ f.prepared \in BOOLEAN /\ f'.ready \in BOOLEAN
        BY <1>1, <2>2 DEF Filters
    <3>2. QED BY <1>1, <2>2, <2>3, <3>1 DEF FilterInv, Intact
  <2>5. QED BY <1>1, <2>1, <2>2, <2>3, <2>4 DEF IInv, DataIdle, FilterInv, Intact
<1>14. ASSUME NEW arrival, Begin(arrival) PROVE IInv'
  <2>1. /\ setup' = setup /\ main' = main /\ DataIdle /\ f.started
        /\ \/ f.prepared /\ f' = [f EXCEPT !.fresh = FALSE]
           \/ f' = f /\ data' = data
      BY <1>14 DEF Begin
  <2>2. CASE f' = f /\ data' = data
      BY <2>1, <2>2, QuietStep
  <2>3. CASE f.prepared /\ f' = [f EXCEPT !.fresh = FALSE]
    <3>1. /\ f' \in Filters /\ f'.state = f.state /\ f'.error = f.error /\ f'.started = f.started
          /\ f'.prepared = f.prepared /\ f'.ready = f.ready /\ f'.actual = f.actual
          /\ f'.requested = f.requested /\ f'.late_reset = f.late_reset
        BY <1>1, <2>3 DEF Filters
    <3>2. FilterInv(f', setup.run)
        BY <1>1, <3>1 DEF FilterInv, Intact
    <3>3. QED BY <1>1, <2>1, <2>3, <3>1, <3>2 DEF IInv, DataIdle, FilterInv, Intact
  <2>4. QED BY <2>1, <2>2, <2>3
<1>15. CASE ParameterStep
  <2>1. CASE Collect \/ Project \/ Retry \/ Arm \/ Signal \/ SignalFails
    <3>1. f' = f /\ setup' = setup /\ main' = main /\ data.pc # "idle"
        BY <2>1 DEF Collect, Project, Retry, Arm, Signal, SignalFails, At
    <3>2. QED BY <3>1, QuietStep
  <2>2. CASE ProjectFails \/ Undo
    <3>1. f' = [f EXCEPT !.error = TRUE] /\ setup' = setup /\ main' = main /\ data.pc # "idle"
        BY <2>2 DEF ProjectFails, Undo, SignalError, At
    <3>2. QED BY <3>1, ErrorStep
  <2>3. QED BY <1>15, <2>1, <2>2 DEF ParameterStep
<1>16. CASE ProcessStep
  <2>1. CASE NotReady \/ Process
    <3>1. f' = f /\ setup' = setup /\ main' = main /\ data.pc # "idle"
        BY <2>1 DEF NotReady, Process, At
    <3>2. QED BY <3>1, QuietStep
  <2>2. CASE Refuse \/ ProcessFails
    <3>1. f' = [f EXCEPT !.error = TRUE] /\ setup' = setup /\ main' = main /\ data.pc # "idle"
        BY <2>2 DEF Refuse, ProcessFails, SignalError, At
    <3>2. QED BY <3>1, ErrorStep
  <2>3. ASSUME NEW unavailable \in BOOLEAN, NEW signalled \in BOOLEAN,
               ProcessReturns(unavailable, signalled)
        PROVE  IInv'
    <3>1. /\ setup' = setup /\ main' = main /\ data.pc # "idle"
          /\ f' = f \/ f' = [f EXCEPT !.error = TRUE]
        BY <2>3 DEF ProcessReturns, SignalError, At
    <3>2. QED BY <3>1, QuietStep, ErrorStep
  <2>4. QED BY <1>16, <2>1, <2>2, <2>3 DEF ProcessStep
<1>17. CASE WorkerStep \/ OutputReturned
  <2>1. CASE WorkerWakes \/ WorkerTakes \/ WorkerBusy \/ OutputReturned
    <3>1. f' = f /\ setup' = setup /\ main' = main /\ data' = data
        BY <2>1 DEF WorkerWakes, WorkerTakes, WorkerBusy, OutputReturned
    <3>2. QED BY <3>1, QuietStep
  <2>2. ASSUME NEW ok \in BOOLEAN, WorkerDone(ok) PROVE IInv'
    <3>1. /\ setup' = setup /\ main' = main /\ data' = data
          /\ f' = f \/ f' = [f EXCEPT !.error = TRUE]
        BY <2>2 DEF WorkerDone, SignalError
    <3>2. QED BY <3>1, QuietStep, ErrorStep
  <2>3. QED BY <1>17, <2>1, <2>2 DEF WorkerStep
<1>18. CASE UNCHANGED vars
  <2>1. f' = f /\ setup' = setup /\ main' = main /\ data' = data
      BY <1>18 DEF vars
  <2>2. QED BY <2>1, QuietStep
<1>19. CASE MainStep
  <2>1. CASE Server
      BY <2>1, <1>2, <1>3 DEF Server
  <2>2. CASE Requests
      BY <2>2, <1>5, <1>6 DEF Requests
  <2>3. CASE MainEvents \/ Removal \/ Teardown
      BY <2>3, <1>7, <1>8, <1>9, <1>10, <1>11, <1>12, <1>13 DEF MainEvents, Removal, Teardown
  <2>4. QED BY <1>19, <1>4, <2>1, <2>2, <2>3 DEF MainStep
<1>20. CASE Cycle \/ RequestedCycle
    BY <1>20, <1>14 DEF Cycle, RequestedCycle
<1>21. QED
    BY <1>15, <1>16, <1>17, <1>18, <1>19, <1>20 DEF Next, DataStep

\* The filter's own state, its owner's view of it and the cycle agree, in
\* every interleaving of the three threads.
THEOREM FilterInvariant == Spec => []IInv
<1>1. QED BY InitIInv, NextIInv, PTL DEF Spec

\* Until an error is raised, process is only called between
\* prepare_process_thread and deactivate; with run control, reset never is.
THEOREM OwnerCallbacksInOrder == Spec => []OwnerSerialized
<1>1. IInv => OwnerSerialized
  <2> SUFFICES ASSUME IInv PROVE OwnerSerialized
      OBVIOUS
  <2>1. data.pc = "process" /\ ~f.error => f.ready
      BY DEF IInv, DataIdle, FilterInv, Intact
  <2>2. setup.run => ~f.late_reset
      BY DEF IInv, FilterInv
  <2>3. QED BY <2>1, <2>2 DEF OwnerSerialized
<1>2. QED BY <1>1, FilterInvariant, PTL

\* Until an error is raised, the status published last says RUNNING exactly
\* while the filter is prepared.
THEOREM PublishedStatusIsTrue == Spec => []StatusMatchesOwner
<1>1. IInv => StatusMatchesOwner
    BY DEF IInv, FilterInv, Intact, StatusMatchesOwner
<1>2. QED BY <1>1, FilterInvariant, PTL
=============================================================================
