-------------------------- MODULE RowTransportProofs --------------------------
(***************************************************************************)
(* The custody of rows, for every set of buffers: the loan of an exported  *)
(* consumer, through any number of stops and restarts of the driver, and   *)
(* the ports of a local one while the driver is not stopped.               *)
(***************************************************************************)
EXTENDS RowTransport, TLAPS, FiniteSetTheorems, FunctionTheorems

\* Where the row on loan is: between the tee and the filter or on its way
\* back (mix), or with the filter.  Outside process_node the filter has
\* nothing in its own io and nothing queued.
Nowhere == borrowed = Invalid /\ mix = Need(Invalid) /\ held = <<>>
InMix == borrowed \in Ids /\ mix \in {Have(borrowed), Need(borrowed)} /\ held = <<>>
InFilter == borrowed \in Ids /\ mix = Need(Invalid) /\ held = <<borrowed>>

\* The row on offer is out, and every other row that is out is on loan.
LoanInv ==
    /\ consumer = "exported"
    /\ io = Need(Invalid) \/ \E id \in Ids : io = Have(id) /\ id \in out
    /\ out \subseteq Ids
    /\ inIo = Need(Invalid) /\ queued = <<>> /\ output \in BOOLEAN
    /\ Nowhere \/ InMix \/ InFilter
    /\ OneRowLent

\* What the records of the two kinds are.
LEMMA Ios ==
    ASSUME NEW a, NEW b
    PROVE  /\ Have(a).status = "have" /\ Have(a).id = a
           /\ Need(a).status = "need" /\ Need(a).id = a
           /\ Have(a) # Need(b) /\ (Have(a) = Have(b) <=> a = b) /\ (Need(a) = Need(b) <=> a = b)
           /\ [Need(a) EXCEPT !.id = b] = Need(b)
    BY DEF Have, Need

\* At first no row is out.
LEMMA InitLoanInv == Init /\ Remote => LoanInv
    BY RowAssumption DEF Init, LoanInv, Nowhere, OneRowLent, Need, Have, Remote

\* The record of the filter's pass, by its fields, and what each function of
\* the pass does to it.
Pass(r, m, i, h, q, u) ==
    /\ DOMAIN r = {"mix", "in", "held", "queued", "used"}
    /\ r.mix = m /\ r.in = i /\ r.held = h /\ r.queued = q /\ r.used = u

\* schedule_mix_input empties the shared io into the port's.
LEMMA MixPass ==
    ASSUME NEW r, NEW m, NEW i, NEW h, NEW q, NEW u, Pass(r, m, i, h, q, u)
    PROVE  Pass(MixInput(r), Need(Invalid), m, h, q, u)
    BY DEF MixInput, Pass

\* The filter dequeues the row its port has.
LEMMA TakePass ==
    ASSUME NEW r, NEW m, NEW i, NEW h, NEW q, NEW u, Pass(r, m, i, h, q, u)
    PROVE  Pass(TakeRow(r), m, i, IF i.status = "have" THEN Append(h, i.id) ELSE h, q, u)
    BY DEF TakeRow, Pass

\* The oldest row is processed when there is an output buffer for it.
LEMMA ProcessPass ==
    ASSUME NEW r, NEW m, NEW i, NEW h, NEW q, NEW u, Pass(r, m, i, h, q, u)
    PROVE  IF output /\ h # <<>> THEN Pass(ProcessRow(r), m, i, Tail(h), Append(q, Head(h)), TRUE)
           ELSE Pass(ProcessRow(r), m, i, h, q, u)
    BY DEF ProcessRow, Pass

\* One processed buffer goes back to a port that has no id on it.
LEMMA GivePass ==
    ASSUME NEW r, NEW m, NEW i, NEW h, NEW q, NEW u, Pass(r, m, i, h, q, u)
    PROVE  IF i.status # "have" /\ i.id # Invalid THEN Pass(GiveBack(r), m, i, h, q, u)
           ELSE IF q = <<>> THEN Pass(GiveBack(r), m, Need(Invalid), h, q, u)
           ELSE Pass(GiveBack(r), m, Need(Head(q)), h, Tail(q), u)
    BY DEF GiveBack, Pass

\* The id goes back to the shared io, which the mix left free.
LEMMA PublishPass ==
    ASSUME NEW r, NEW a, NEW h, NEW q, NEW u, Remote, Pass(r, Need(Invalid), Need(a), h, q, u)
    PROVE  Pass(Publish(r), Need(a), Need(Invalid), h, q, u)
<1>1. CASE a = Invalid
    BY <1>1 DEF Publish, CanPublish, Pass, Need
<1>2. CASE a # Invalid
  <2>1. CanPublish(r) /\ ~PublishBusy(r)
    BY <1>2 DEF CanPublish, PublishBusy, Pass, Need
  <2>2. Publish(r) = [r EXCEPT !.mix.id = r.in.id, !.in.id = Invalid]
    BY <2>1 DEF Publish
  <2>3. Publish(r).mix = [r.mix EXCEPT !.id = r.in.id] /\ Publish(r).in = [r.in EXCEPT !.id = Invalid]
    BY <2>2 DEF Pass
  <2>4. Publish(r).mix = Need(a) /\ Publish(r).in = Need(Invalid)
    BY <2>3, Ios DEF Pass
  <2>5. QED BY <2>2, <2>4 DEF Pass
<1>3. QED BY <1>1, <1>2

\* One pass of the filter leaves the row on loan in its queue or puts the id
\* back in the shared io, and never finds that io taken.
LEMMA FilterPass ==
    ASSUME LoanInv, NEW r, Pass(r, mix, inIo, held, queued, FALSE)
    PROVE  /\ ~PublishBusy(r)
           /\ \E u \in BOOLEAN :
                \/ /\ Nowhere
                   /\ Pass(Process(r), Need(Invalid), Need(Invalid), <<>>, <<>>, u)
                \/ /\ ~Nowhere
                   /\ \/ Pass(Process(r), Need(borrowed), Need(Invalid), <<>>, <<>>, u)
                      \/ Pass(Process(r), Need(Invalid), Need(Invalid), <<borrowed>>, <<>>, u)
<1> USE RowAssumption
<1> DEFINE r1 == MixInput(r)
           r2 == TakeRow(r1)
           r3 == ProcessRow(r2)
           r4 == GiveBack(r3)
<1>0. Pass(r, mix, Need(Invalid), held, <<>>, FALSE) /\ Remote
    BY DEF LoanInv, Remote
<1>1. ~CanPublish(r) /\ ~PublishBusy(r) /\ Publish(r) = r
    BY <1>0 DEF CanPublish, PublishBusy, Publish, Need, Pass
<1>2. Process(r) = Publish(r4)
    BY <1>1 DEF Process
<1>3. Pass(r1, Need(Invalid), mix, held, <<>>, FALSE)
    BY <1>0, MixPass
<1>4. Pass(r2, Need(Invalid), mix, IF mix.status = "have" THEN Append(held, mix.id) ELSE held, <<>>, FALSE)
    BY <1>3, TakePass
<1> HIDE DEF r1, r2, r3, r4
<1>5. CASE Nowhere
  <2>1. Pass(r2, Need(Invalid), Need(Invalid), <<>>, <<>>, FALSE)
    BY <1>4, <1>5, Ios DEF Nowhere
  <2>2. Pass(r3, Need(Invalid), Need(Invalid), <<>>, <<>>, FALSE)
    BY <2>1, ProcessPass DEF r3
  <2>3. Pass(r4, Need(Invalid), Need(Invalid), <<>>, <<>>, FALSE)
    BY <2>2, GivePass, Ios DEF r4
  <2>4. QED BY <1>0, <1>1, <1>2, <1>5, <2>3, PublishPass
<1>6. CASE InMix \/ InFilter
  <2>1. borrowed \in Ids /\ borrowed # Invalid /\ ~Nowhere
    BY <1>6 DEF InMix, InFilter, Nowhere
  <2>2. CASE mix = Need(borrowed)
    <3>1. Pass(r2, Need(Invalid), Need(borrowed), <<>>, <<>>, FALSE)
      BY <1>4, <1>6, <2>1, <2>2, Ios DEF InMix, InFilter
    <3>2. Pass(r3, Need(Invalid), Need(borrowed), <<>>, <<>>, FALSE)
      BY <3>1, ProcessPass DEF r3
    <3>3. Pass(r4, Need(Invalid), Need(borrowed), <<>>, <<>>, FALSE)
      <4>1. Need(borrowed).status # "have" /\ Need(borrowed).id # Invalid
        BY <2>1, Ios
      <4>2. QED BY <3>2, <4>1, GivePass DEF r4
    <3>4. QED BY <1>0, <1>1, <1>2, <2>1, <3>3, PublishPass
  <2>3. CASE mix # Need(borrowed)
    <3>1. PICK i \in {Have(borrowed), Need(Invalid)} :
             Pass(r2, Need(Invalid), i, <<borrowed>>, <<>>, FALSE)
      <4>1. CASE InMix
        <5>1. mix = Have(borrowed) /\ held = <<>>
          BY <2>3, <4>1 DEF InMix
        <5>2. Append(<<>>, borrowed) = <<borrowed>>
          OBVIOUS
        <5>3. mix.status = "have" /\ mix.id = borrowed
          BY <5>1, Ios
        <5>4. Pass(r2, Need(Invalid), Have(borrowed), <<borrowed>>, <<>>, FALSE)
          BY <1>4, <5>1, <5>2, <5>3
        <5>5. QED BY <5>4
      <4>2. CASE InFilter
        BY <1>4, <4>2, Ios DEF InFilter
      <4>3. QED BY <1>6, <4>1, <4>2
    <3>2. i.status = "have" \/ i.id = Invalid
      BY <3>1, Ios
    <3>3. CASE output
      <4>1. Tail(<<borrowed>>) = <<>> /\ Append(<<>>, Head(<<borrowed>>)) = <<borrowed>> /\ <<borrowed>> # <<>>
        OBVIOUS
      <4>2. Pass(r3, Need(Invalid), i, <<>>, <<borrowed>>, TRUE)
        <5> DEFINE h == <<borrowed>>
        <5>1. Pass(r2, Need(Invalid), i, h, <<>>, FALSE) /\ h # <<>>
          BY <3>1, <4>1
        <5> HIDE DEF h
        <5>2. Pass(ProcessRow(r2), Need(Invalid), i, Tail(h), Append(<<>>, Head(h)), TRUE)
          BY <3>3, <5>1 DEF ProcessRow, Pass
        <5>3. QED BY <4>1, <5>2 DEF r3, h
      <4>3. Pass(r4, Need(Invalid), Need(borrowed), <<>>, <<>>, TRUE)
        <5>1. Head(<<borrowed>>) = borrowed
          OBVIOUS
        <5>2. QED BY <3>2, <4>1, <4>2, <5>1, GivePass DEF r4
      <4>4. QED BY <1>0, <1>1, <1>2, <2>1, <4>3, PublishPass
    <3>4. CASE ~output
      <4>1. Pass(r3, Need(Invalid), i, <<borrowed>>, <<>>, FALSE)
        BY <3>1, <3>4, ProcessPass DEF r3
      <4>2. Pass(r4, Need(Invalid), Need(Invalid), <<borrowed>>, <<>>, FALSE)
        BY <3>2, <4>1, GivePass DEF r4
      <4>3. QED BY <1>0, <1>1, <1>2, <2>1, <4>2, PublishPass
    <3>5. QED BY <3>3, <3>4
  <2>4. QED BY <2>2, <2>3
<1>7. QED BY <1>5, <1>6 DEF LoanInv

\* What the invariant is about.
loanVars == <<io, out, consumer, mix, borrowed, inIo, held, queued, output>>

\* An id in the shared io is the one on loan.
LEMMA ReturnIsLoan ==
    ASSUME LoanInv, Releases
    PROVE  mix = Need(borrowed) /\ borrowed \in Ids /\ borrowed \in out /\ Returned = mix
           /\ ~ReleaseFails /\ held = <<>>
<1>1. Remote /\ Returned = mix /\ mix.status = "need" /\ mix.id # Invalid
    BY DEF LoanInv, Remote, Releases, Returned
<1>2. InMix
    BY <1>1, Ios DEF LoanInv, Nowhere, InFilter
<1>3. mix = Need(borrowed) /\ borrowed \in Ids /\ mix.id = borrowed /\ held = <<>>
    BY <1>1, <1>2, Ios DEF InMix
<1>4. borrowed \in out
    BY <1>1, <1>3 DEF LoanInv, OneRowLent
<1>5. QED BY <1>1, <1>3, <1>4 DEF ReleaseFails

\* A step that leaves these alone keeps the invariant.
LEMMA LoanUnchanged == ASSUME LoanInv, UNCHANGED loanVars PROVE LoanInv'
    BY DEF LoanInv, loanVars, Nowhere, InMix, InFilter, OneRowLent, Remote

\* The source offers a row that is not out.
LEMMA OfferLoan == ASSUME LoanInv, Offer PROVE LoanInv'
<1>1. PICK id \in Ids \ out : io' = Have(id) /\ out' = out \cup {id}
    BY DEF Offer
<1>2. UNCHANGED <<consumer, mix, borrowed, inIo, held, queued, output>>
    BY DEF Offer, Goto, linkVars, filterVars
<1>3. io = Need(Invalid)
    BY Ios DEF Offer, HasSourceRow, LoanInv
<1>4. OneRowLent'
  <2> SUFFICES ASSUME NEW x \in Ids PROVE x \in out' /\ io' # Have(x) <=> borrowed' = x
    BY DEF OneRowLent
  <2>1. x \in out <=> borrowed = x
    BY <1>3, Ios DEF LoanInv, OneRowLent, Remote
  <2>2. QED BY <1>1, <1>2, <2>1, Ios
<1>5. QED BY <1>1, <1>2, <1>4 DEF LoanInv, Nowhere, InMix, InFilter

\* The filter keeps the row on loan or gives its id back.
LEMMA FilterLoan == ASSUME LoanInv, FilterProcess PROVE LoanInv'
<1> DEFINE r == [mix |-> mix, in |-> inIo, held |-> held, queued |-> queued, used |-> FALSE]
<1>1. Pass(r, mix, inIo, held, queued, FALSE)
    BY DEF Pass
<1>2. /\ mix' = Process(r).mix /\ inIo' = Process(r).in /\ held' = Process(r).held
      /\ queued' = Process(r).queued /\ output' \in BOOLEAN
      /\ UNCHANGED <<io, out, consumer, borrowed>>
    BY DEF FilterProcess, Goto, sourceVars
<1> HIDE DEF r
<1>3. \/ Nowhere /\ mix' = Need(Invalid) /\ held' = <<>>
      \/ ~Nowhere /\ mix' = Need(borrowed) /\ held' = <<>>
      \/ ~Nowhere /\ mix' = Need(Invalid) /\ held' = <<borrowed>>
    BY <1>1, <1>2, FilterPass DEF Pass
<1>4. inIo' = Need(Invalid) /\ queued' = <<>>
    BY <1>1, <1>2, FilterPass DEF Pass
<1>5. (Nowhere \/ InMix \/ InFilter)'
    BY <1>2, <1>3 DEF LoanInv, Nowhere, InMix, InFilter
<1>6. QED BY <1>2, <1>4, <1>5 DEF LoanInv, OneRowLent, Remote

\* The driver takes the id back and ends the loan.
LEMMA ScanLoan == ASSUME LoanInv, Scan PROVE LoanInv'
<1> USE RowAssumption
<1>1. UNCHANGED <<io, consumer, held, queued, output>> /\ ReuseRowOutput /\ Remote
    BY DEF Scan, Goto, LoanInv, Remote
<1>2. CASE Releases
  <2>1. mix = Need(borrowed) /\ borrowed \in Ids /\ Returned.id = borrowed /\ ~ReleaseFails /\ held = <<>>
    BY <1>2, ReturnIsLoan, Ios
  <2>2. /\ out' = out \ {borrowed} /\ mix' = Need(Invalid) /\ borrowed' = Invalid
        /\ UNCHANGED inIo
    BY <1>1, <1>2, <2>1, Ios DEF ReuseRowOutput
  <2>3. OneRowLent'
    <3> SUFFICES ASSUME NEW x \in Ids PROVE x \in out' /\ io' # Have(x) <=> borrowed' = x
      BY DEF OneRowLent
    <3>1. x \in out /\ io # Have(x) <=> borrowed = x
      BY <1>1 DEF LoanInv, OneRowLent
    <3>2. QED BY <1>1, <2>2, <3>1
  <2>4. io' = Need(Invalid) \/ \E id \in Ids : io' = Have(id) /\ id \in out'
    BY <1>1, <2>1, <2>2 DEF LoanInv, OneRowLent
  <2>5. Nowhere'
    BY <1>1, <2>1, <2>2 DEF Nowhere
  <2>6. QED BY <1>1, <2>2, <2>3, <2>4, <2>5 DEF LoanInv
<1>3. CASE ~Releases
    BY <1>1, <1>3, LoanUnchanged DEF ReuseRowOutput, loanVars
<1>4. QED BY <1>2, <1>3

\* The tee lends the row on offer when there is no loan.
LEMMA CycleLoan == ASSUME LoanInv, StartCycle PROVE LoanInv'
<1> USE RowAssumption
<1>1. UNCHANGED <<out, consumer, inIo, held, queued, output>> /\ TeeProcess /\ Remote
    BY DEF StartCycle, Goto, filterVars, LoanInv, Remote
<1>2. CASE HasSourceRow /\ mix.status # "have" /\ ~HasBorrowed
  <2>1. Nowhere
    BY <1>1, <1>2 DEF HasBorrowed, LoanInv, InMix, InFilter
  <2>2. PICK id \in Ids : io = Have(id) /\ id \in out
    BY <1>2, Ios DEF HasSourceRow, LoanInv
  <2>3. io' = Need(Invalid) /\ mix' = Have(id) /\ borrowed' = id
    BY <1>1, <1>2, <2>1, <2>2, Ios DEF TeeProcess, Nowhere
  <2>4. OneRowLent'
    <3> SUFFICES ASSUME NEW x \in Ids PROVE x \in out' /\ io' # Have(x) <=> borrowed' = x
      BY DEF OneRowLent
    <3>1. x \in out /\ io # Have(x) <=> borrowed = x
      BY <1>1 DEF LoanInv, OneRowLent
    <3>2. borrowed # x
      BY <2>1 DEF Nowhere
    <3>3. QED BY <1>1, <2>2, <2>3, <3>1, <3>2, Ios
  <2>5. InMix'
    BY <1>1, <2>1, <2>3 DEF InMix, Nowhere
  <2>6. QED BY <1>1, <2>3, <2>4, <2>5 DEF LoanInv
<1>3. CASE ~(HasSourceRow /\ mix.status # "have" /\ ~HasBorrowed)
    BY <1>1, <1>3, LoanUnchanged DEF TeeProcess, loanVars
<1>4. QED BY <1>2, <1>3

\* Every step keeps the invariant; the main thread's, and with them the stops
\* and restarts, leave the loan alone.
LEMMA NextLoanInv == LoanInv /\ [Next]_vars => LoanInv'
<1> SUFFICES ASSUME LoanInv, [Next]_vars PROVE LoanInv'
    OBVIOUS
<1>1. ASSUME NEW n \in Targets, TargetStep(n) PROVE LoanInv'
  <2>1. CASE FilterProcess
    BY <2>1, FilterLoan
  <2>2. CASE Awake(n) \/ Finish(n) \/ SignalDriver(n) \/ SetRelease \/ TriggerDriver
    <3>1. UNCHANGED loanVars
      BY <2>2 DEF Awake, Finish, SignalDriver, SetRelease, TriggerDriver, Goto, loanVars,
                  sourceVars, linkVars, filterVars
    <3>2. QED BY <3>1, LoanUnchanged
  <2>3. QED BY <1>1, <2>1, <2>2 DEF TargetStep
<1>2. CASE OutputReturn
  <2>1. UNCHANGED <<io, out, consumer, mix, borrowed, inIo, held, queued>> /\ output' = TRUE
    BY <1>2 DEF OutputReturn, Goto, sourceVars, linkVars
  <2>2. QED BY <2>1 DEF LoanInv, Nowhere, InMix, InFilter, OneRowLent, Remote
<1>3. CASE Offer
    BY <1>3, OfferLoan
<1>4. CASE Scan
    BY <1>4, ScanLoan
<1>5. CASE StartCycle
    BY <1>5, CycleLoan
<1>6. CASE \/ RequestStore \/ RequestSignal \/ FlushSkip \/ FlushRetry \/ Admit \/ Refuse
           \/ RefuseSignal \/ TriggerTargets \/ DriverProcess \/ ReliableEvent \/ ReadyQueued
           \/ MainStep \/ Unprepare
  <2>1. CASE \/ RequestStore \/ RequestSignal \/ FlushSkip \/ FlushRetry \/ Admit \/ Refuse
             \/ RefuseSignal \/ TriggerTargets
    <3>1. UNCHANGED loanVars
      BY <2>1 DEF RequestStore, RequestSignal, FlushSkip, FlushRetry, Admit, Refuse, RefuseSignal,
                  TriggerTargets, Goto, loanVars, sourceVars, linkVars, filterVars
    <3>2. QED BY <3>1, LoanUnchanged
  <2>2. CASE DriverProcess \/ ReliableEvent \/ ReadyQueued \/ MainStep \/ Unprepare
    <3>1. UNCHANGED loanVars
      BY <2>2 DEF DriverProcess, ReliableEvent, ReadyQueued, MainStep, SetRunning, Prepare, SendStart,
                  Running, Stopped, Unprepare, Goto, loanVars, sourceVars, linkVars, filterVars
    <3>2. QED BY <3>1, LoanUnchanged
  <2>3. QED BY <1>6, <2>1, <2>2
<1>7. CASE UNCHANGED vars
  <2>1. UNCHANGED loanVars
    BY <1>7 DEF vars, loanVars, sourceVars, linkVars, filterVars
  <2>2. QED BY <2>1, LoanUnchanged
<1>8. QED BY <1>1, <1>2, <1>3, <1>4, <1>5, <1>6, <1>7 DEF Next, RequestStep, Handler

\* No step changes what the consumer is.
LEMMA ConsumerFixed == [Next]_vars => consumer' = consumer
<1> SUFFICES ASSUME [Next]_vars PROVE consumer' = consumer
    OBVIOUS
<1>1. CASE \E n \in Targets : TargetStep(n)
    BY <1>1 DEF TargetStep, Awake, Finish, SignalDriver, FilterProcess, SetRelease, TriggerDriver, Goto
<1>2. CASE RequestStep \/ DriverProcess \/ ReliableEvent \/ ReadyQueued \/ Offer
    BY <1>2 DEF RequestStep, OutputReturn, RequestStore, RequestSignal, DriverProcess, ReliableEvent,
                ReadyQueued, Offer, Goto
<1>3. CASE Handler
    BY <1>3 DEF Handler, FlushSkip, Scan, FlushRetry, Admit, Refuse, RefuseSignal, StartCycle,
                TriggerTargets, Goto
<1>4. CASE MainStep \/ Unprepare
    BY <1>4 DEF MainStep, SetRunning, Prepare, SendStart, Running, Stopped, Unprepare, Goto
<1>5. CASE UNCHANGED vars
    BY <1>5 DEF vars
<1>6. QED BY <1>1, <1>2, <1>3, <1>4, <1>5 DEF Next

\* The loan and the places of the row agree in every state of an exported
\* consumer's link: what tee_process_reliable, the client's process_node and
\* pw_impl_port_reuse_row_output do to io, mix and row_borrowed_id.
THEOREM LoanInvariant == Spec => [](Remote => LoanInv)
<1>1. Init => (Remote => LoanInv)
    BY InitLoanInv
<1>2. (Remote => LoanInv) /\ [Next]_vars => (Remote => LoanInv)'
    BY NextLoanInv, ConsumerFixed DEF Remote
<1>3. QED BY <1>1, <1>2, PTL DEF Spec

\* tee_process_reliable lends one row at a time to an exported consumer, and
\* row_borrowed_id names it until pw_impl_port_reuse_row_output has taken it
\* back, whatever the main thread does to the driver meanwhile.
THEOREM OneLoan == Spec => []OneRowLent
<1>1. (Remote => LoanInv) => OneRowLent
    BY DEF LoanInv, OneRowLent
<1>2. QED BY <1>1, LoanInvariant, PTL

-----------------------------------------------------------------------------
(* The types of the variables *)

\* An io area has data with a buffer, or needs data and may name a buffer.
LEMMA IoCases ==
    ASSUME NEW b \in IoBuffers
    PROVE  /\ b.status = "have" => b.id \in Ids /\ b = Have(b.id)
           /\ b.status # "have" => b.id \in Ids \cup {Invalid} /\ b = Need(b.id)
    BY DEF IoBuffers, Have, Need

\* What a pass of the filter works on.
PassType(r) ==
    \E m, i \in IoBuffers, h, q \in Seq(Ids), u \in BOOLEAN : Pass(r, m, i, h, q, u)

\* An id the filter publishes is one its port needs no more.
LEMMA PublishType == ASSUME NEW r, PassType(r) PROVE PassType(Publish(r))
<1>1. PICK m \in IoBuffers, i \in IoBuffers, h \in Seq(Ids), q \in Seq(Ids), u \in BOOLEAN :
           Pass(r, m, i, h, q, u)
    BY DEF PassType
<1>2. CASE CanPublish(r) /\ ~PublishBusy(r)
  <2>1. r.mix = Need(Invalid) /\ i.status # "have" /\ r.in = i
    BY <1>1, <1>2 DEF CanPublish, PublishBusy, Pass
  <2>2. i = Need(i.id) /\ i.id \in Ids \cup {Invalid}
    BY <2>1, IoCases
  <2>3. Publish(r) = [r EXCEPT !.mix.id = r.in.id, !.in.id = Invalid]
    BY <1>2 DEF Publish
  <2>4. Publish(r).mix = [r.mix EXCEPT !.id = r.in.id] /\ Publish(r).in = [r.in EXCEPT !.id = Invalid]
    BY <1>1, <2>3 DEF Pass
  <2>5. Publish(r).mix = Need(i.id) /\ Publish(r).in = Need(Invalid)
    <3>1. [Need(Invalid) EXCEPT !.id = i.id] = Need(i.id) /\ [Need(i.id) EXCEPT !.id = Invalid] = Need(Invalid)
      BY DEF Need
    <3>2. QED BY <2>1, <2>2, <2>4, <3>1
  <2>6. Pass(Publish(r), Need(i.id), Need(Invalid), h, q, u)
    BY <1>1, <2>3, <2>5 DEF Pass
  <2>7. Need(i.id) \in IoBuffers /\ Need(Invalid) \in IoBuffers
    BY <2>2 DEF IoBuffers
  <2>8. QED BY <2>6, <2>7 DEF PassType
<1>3. CASE ~(CanPublish(r) /\ ~PublishBusy(r))
    BY <1>3 DEF Publish
<1>4. QED BY <1>2, <1>3

\* The filter's pass keeps the types.
LEMMA ProcessType == ASSUME NEW r, PassType(r) PROVE PassType(Process(r))
<1>0. Need(Invalid) \in IoBuffers
    BY DEF IoBuffers
<1>1. ASSUME NEW x, PassType(x) PROVE PassType(MixInput(x))
  <2>1. PICK m \in IoBuffers, i \in IoBuffers, h \in Seq(Ids), q \in Seq(Ids), u \in BOOLEAN :
             Pass(x, m, i, h, q, u)
    BY <1>1 DEF PassType
  <2>2. QED BY <1>0, <2>1, MixPass DEF PassType
<1>2. ASSUME NEW x, PassType(x) PROVE PassType(TakeRow(x))
  <2>1. PICK m \in IoBuffers, i \in IoBuffers, h \in Seq(Ids), q \in Seq(Ids), u \in BOOLEAN :
             Pass(x, m, i, h, q, u)
    BY <1>2 DEF PassType
  <2>2. (IF i.status = "have" THEN Append(h, i.id) ELSE h) \in Seq(Ids)
    BY IoCases
  <2>3. Pass(TakeRow(x), m, i, IF i.status = "have" THEN Append(h, i.id) ELSE h, q, u)
    BY <2>1, TakePass
  <2>4. QED BY <2>2, <2>3 DEF PassType
<1>3. ASSUME NEW x, PassType(x) PROVE PassType(ProcessRow(x))
  <2>1. PICK m \in IoBuffers, i \in IoBuffers, h \in Seq(Ids), q \in Seq(Ids), u \in BOOLEAN :
             Pass(x, m, i, h, q, u)
    BY <1>3 DEF PassType
  <2>2. h # <<>> => Tail(h) \in Seq(Ids) /\ Append(q, Head(h)) \in Seq(Ids)
    OBVIOUS
  <2>3. CASE output /\ h # <<>>
    <3>1. Pass(ProcessRow(x), m, i, Tail(h), Append(q, Head(h)), TRUE)
      BY <2>1, <2>3 DEF ProcessRow, Pass
    <3>2. QED BY <2>2, <2>3, <3>1 DEF PassType
  <2>4. CASE ~(output /\ h # <<>>)
    <3>1. Pass(ProcessRow(x), m, i, h, q, u)
      BY <2>1, <2>4 DEF ProcessRow, Pass
    <3>2. QED BY <3>1 DEF PassType
  <2>5. QED BY <2>3, <2>4
<1>4. ASSUME NEW x, PassType(x) PROVE PassType(GiveBack(x))
  <2>1. PICK m \in IoBuffers, i \in IoBuffers, h \in Seq(Ids), q \in Seq(Ids), u \in BOOLEAN :
             Pass(x, m, i, h, q, u)
    BY <1>4 DEF PassType
  <2>2. q # <<>> => Tail(q) \in Seq(Ids) /\ Head(q) \in Ids
    OBVIOUS
  <2>3. q # <<>> => Need(Head(q)) \in IoBuffers
    BY <2>2 DEF IoBuffers
  <2>4. CASE i.status # "have" /\ i.id # Invalid
    BY <2>1, <2>4, GivePass DEF PassType
  <2>5. CASE ~(i.status # "have" /\ i.id # Invalid) /\ q = <<>>
    <3>1. Pass(GiveBack(x), m, Need(Invalid), h, q, u)
      BY <2>1, <2>5, GivePass
    <3>2. QED BY <1>0, <3>1 DEF PassType
  <2>6. CASE ~(i.status # "have" /\ i.id # Invalid) /\ q # <<>>
    <3>1. Pass(GiveBack(x), m, Need(Head(q)), h, Tail(q), u)
      BY <2>1, <2>6, GivePass
    <3>2. QED BY <2>2, <2>3, <2>6, <3>1 DEF PassType
  <2>7. QED BY <2>4, <2>5, <2>6
<1>5. PassType(Publish(GiveBack(ProcessRow(TakeRow(MixInput(Publish(r)))))))
    BY <1>1, <1>2, <1>3, <1>4, PublishType
<1>6. QED BY <1>5 DEF Process

\* The types of the flags, one by one.
Flags ==
    /\ output \in BOOLEAN /\ readyDue \in BOOLEAN /\ prepared \in BOOLEAN /\ running \in BOOLEAN
    /\ inflight \in BOOLEAN /\ dispatched \in BOOLEAN /\ retryPending \in BOOLEAN
    /\ releasePending \in BOOLEAN /\ event \in BOOLEAN /\ kept \in BOOLEAN

Data ==
    /\ io \in IoBuffers /\ mix \in IoBuffers /\ inIo \in IoBuffers
    /\ out \subseteq Ids /\ borrowed \in Ids \cup {Invalid}
    /\ held \in Seq(Ids) /\ queued \in Seq(Ids)

StatusType ==
    /\ status \in [Nodes -> {"inactive", "not_triggered", "triggered", "awake", "finished"}]
    /\ consumer \in Consumers /\ stops \in 0..MaxStops

\* TypeOK, part by part.
LEMMA TypeParts == TypeOK <=> Data /\ Flags /\ StatusType
    BY DEF TypeOK, Data, Flags, StatusType

\* The variables have their types at first.
LEMMA InitTypeOK == Init => TypeOK
<1> SUFFICES ASSUME Init PROVE Data /\ Flags /\ StatusType
    BY TypeParts
<1>1. Data
    BY DEF Init, Data, IoBuffers
<1>2. Flags
    BY DEF Init, Flags
<1>3. StatusType
    BY RowAssumption DEF Init, StatusType, Nodes
<1>4. QED BY <1>1, <1>2, <1>3

\* The flags.
LEMMA NextFlags == ASSUME Flags, StatusType, [Next]_vars PROVE Flags'
<1>1. CASE \E n \in Targets : TargetStep(n)
  <2>1. CASE FilterProcess
    BY <2>1 DEF FilterProcess, Flags, sourceVars, driverVars
  <2>2. CASE \E n \in Targets : Awake(n) \/ Finish(n) \/ SignalDriver(n) \/ SetRelease \/ TriggerDriver
    BY <2>2 DEF Awake, Finish, SignalDriver, SetRelease, TriggerDriver, Flags, sourceVars, driverVars,
                filterVars
  <2>3. QED BY <1>1, <2>1, <2>2 DEF TargetStep
<1>2. CASE RequestStep
    BY <1>2 DEF RequestStep, OutputReturn, RequestStore, RequestSignal, Flags, sourceVars, driverVars,
                filterVars
<1>3. CASE FlushSkip \/ Admit \/ Refuse \/ RefuseSignal \/ TriggerTargets \/ FlushRetry
    BY <1>3 DEF FlushSkip, Admit, Refuse, RefuseSignal, TriggerTargets, FlushRetry, Flags,
                sourceVars, driverVars, filterVars
<1>9. CASE StartCycle
    BY <1>9 DEF StartCycle, Flags, filterVars
<1>4. CASE Scan
    BY <1>4 DEF Scan, Flags
<1>5. CASE DriverProcess \/ ReliableEvent \/ ReadyQueued \/ Offer
    BY <1>5 DEF DriverProcess, ReliableEvent, ReadyQueued, Offer, Flags, sourceVars, driverVars,
                filterVars
<1>6. CASE MainStep \/ Unprepare
    BY <1>6 DEF MainStep, SetRunning, Prepare, SendStart, Running, Stopped, Unprepare, Flags, sourceVars,
                driverVars, filterVars
<1>7. CASE UNCHANGED vars
    BY <1>7 DEF vars, Flags, sourceVars, driverVars, filterVars
<1>8. QED BY <1>1, <1>2, <1>3, <1>4, <1>5, <1>6, <1>7, <1>9 DEF Next, Handler

\* The activations.
LEMMA NextStatus == ASSUME StatusType, [Next]_vars PROVE StatusType'
<1>0. consumer' = consumer
    BY ConsumerFixed
<1>1. CASE \E n \in Targets : TargetStep(n)
    BY <1>0, <1>1 DEF TargetStep, FilterProcess, Awake, Finish, SignalDriver, SetRelease, TriggerDriver,
                StatusType, Targets, Nodes
<1>2. CASE RequestStep
    BY <1>0, <1>2 DEF RequestStep, OutputReturn, RequestStore, RequestSignal, StatusType
<1>3. CASE Handler
    BY <1>0, <1>3 DEF Handler, FlushSkip, Scan, Admit, Refuse, RefuseSignal, StartCycle, TriggerTargets,
                FlushRetry, StatusType
<1>5. CASE DriverProcess \/ ReliableEvent \/ ReadyQueued \/ Offer
    BY <1>0, <1>5 DEF DriverProcess, ReliableEvent, ReadyQueued, Offer, StatusType
<1>6. CASE MainStep \/ Unprepare
    BY <1>0, <1>6, RowAssumption DEF MainStep, SetRunning, Prepare, SendStart, Running, Stopped, Unprepare,
                StatusType
<1>7. CASE UNCHANGED vars
    BY <1>7 DEF vars, StatusType
<1>8. QED BY <1>1, <1>2, <1>3, <1>5, <1>6, <1>7 DEF Next

\* The buffers.
LEMMA NextData == ASSUME Data, Flags, [Next]_vars PROVE Data'
<1> USE RowAssumption
<1>1. CASE FilterProcess
  <2> DEFINE r == [mix |-> mix, in |-> inIo, held |-> held, queued |-> queued, used |-> FALSE]
  <2>1. Pass(r, mix, inIo, held, queued, FALSE)
    BY DEF Pass
  <2>2. /\ mix' = Process(r).mix /\ inIo' = Process(r).in /\ held' = Process(r).held
        /\ queued' = Process(r).queued /\ UNCHANGED <<io, out, borrowed>>
    BY <1>1 DEF FilterProcess, sourceVars
  <2> HIDE DEF r
  <2>3. PassType(Process(r))
    BY <2>1, ProcessType DEF PassType, Data
  <2>4. QED BY <2>2, <2>3 DEF PassType, Pass, Data
<1>2. CASE Scan
  <2>1. UNCHANGED <<io, held, queued>> /\ ReuseRowOutput
    BY <1>2 DEF Scan
  <2>2. CASE Releases /\ ~ReleaseFails
    <3>1. Returned \in IoBuffers /\ Returned.status # "have"
      BY <2>2 DEF Releases, Returned, Data
    <3>2. [Returned EXCEPT !.id = Invalid] = Need(Invalid)
      BY <3>1, IoCases, Ios
    <3>3. Need(Invalid) \in IoBuffers
      BY DEF IoBuffers
    <3>4. mix' \in IoBuffers /\ inIo' \in IoBuffers /\ out' \subseteq out /\ borrowed' \in {borrowed, Invalid}
      BY <2>1, <2>2, <3>2, <3>3 DEF ReuseRowOutput, Returned, Data
    <3>5. QED BY <2>1, <3>4 DEF Data
  <2>3. CASE ~(Releases /\ ~ReleaseFails)
    BY <2>1, <2>3 DEF ReuseRowOutput, Data
  <2>4. QED BY <2>2, <2>3
<1>3. CASE StartCycle
  <2>1. UNCHANGED <<out, inIo, held, queued>> /\ TeeProcess
    BY <1>3 DEF StartCycle, filterVars
  <2>2. CASE HasSourceRow /\ mix.status # "have" /\ ~HasBorrowed
    <3>1. io.id \in Ids /\ mix.id \in Ids \cup {Invalid}
      BY <2>2, IoCases DEF Data, HasSourceRow
    <3>2. Need(mix.id) \in IoBuffers /\ Have(io.id) \in IoBuffers
      BY <3>1 DEF IoBuffers
    <3>3. QED BY <2>1, <2>2, <3>1, <3>2 DEF TeeProcess, Data
  <2>3. CASE ~(HasSourceRow /\ mix.status # "have" /\ ~HasBorrowed)
    BY <2>1, <2>3 DEF TeeProcess, Data
  <2>4. QED BY <2>2, <2>3
<1>4. CASE Offer
  <2>1. PICK id \in Ids \ out : io' = Have(id) /\ out' = out \cup {id}
    BY <1>4 DEF Offer
  <2>2. Have(id) \in IoBuffers
    BY DEF IoBuffers
  <2>3. QED BY <1>4, <2>1, <2>2 DEF Offer, Data, linkVars, filterVars
<1>5. CASE \/ \E n \in Targets : Awake(n) \/ Finish(n) \/ SignalDriver(n)
           \/ SetRelease \/ TriggerDriver \/ RequestStep
    BY <1>5 DEF Awake, Finish, SignalDriver, SetRelease, TriggerDriver, RequestStep, OutputReturn,
                RequestStore, RequestSignal, Data, sourceVars, linkVars, filterVars
<1>6. CASE FlushSkip \/ FlushRetry \/ Admit \/ Refuse \/ RefuseSignal \/ TriggerTargets
    BY <1>6 DEF FlushSkip, FlushRetry, Admit, Refuse, RefuseSignal, TriggerTargets, Data, sourceVars,
                linkVars, filterVars
<1>7. CASE DriverProcess \/ ReliableEvent \/ ReadyQueued \/ MainStep \/ Unprepare
    BY <1>7 DEF DriverProcess, ReliableEvent, ReadyQueued, MainStep, SetRunning, Prepare, SendStart,
                Running, Stopped, Unprepare, Data, sourceVars, linkVars, filterVars
<1>8. CASE UNCHANGED vars
    BY <1>8 DEF vars, Data, sourceVars, linkVars, filterVars
<1>9. QED BY <1>1, <1>2, <1>3, <1>4, <1>5, <1>6, <1>7, <1>8 DEF Next, TargetStep, Handler

\* Every variable keeps its type: no step of the tee, the mix, the filter or
\* the scan for returns makes an io area have data without naming a buffer.
THEOREM TypeCorrect == Spec => []TypeOK
<1>1. TypeOK /\ [Next]_vars => TypeOK'
  <2> SUFFICES ASSUME TypeOK, [Next]_vars PROVE TypeOK'
    OBVIOUS
  <2>1. Data /\ Flags /\ StatusType
    BY TypeParts
  <2>2. Data' /\ Flags' /\ StatusType'
    BY <2>1, NextData, NextFlags, NextStatus
  <2>3. QED BY <2>2 DEF TypeOK, Data, Flags, StatusType
<1>2. QED BY <1>1, InitTypeOK, PTL DEF Spec

-----------------------------------------------------------------------------
(* Counting the places of a row *)

N(b) == IF b THEN 1 ELSE 0
Occ(q, id) == Cardinality({i \in DOMAIN q : q[i] = id})

IoNaming(a, b, c, id) == {x \in {<<"io", a>>, <<"mix", b>>, <<"in", c>>} : x[2].id = id}

\* The three io areas that name id.
LEMMA IoCount ==
    ASSUME NEW a, NEW b, NEW c, NEW id
    PROVE  Cardinality(IoNaming(a, b, c, id)) =
               N(a.id = id) + N(b.id = id) + N(c.id = id)
<1> DEFINE A == IF a.id = id THEN {<<"io", a>>} ELSE {}
           B == IF b.id = id THEN A \cup {<<"mix", b>>} ELSE A
           C == IF c.id = id THEN B \cup {<<"in", c>>} ELSE B
<1>1. IoNaming(a, b, c, id) = C
    BY DEF IoNaming
<1>2. IsFiniteSet(A) /\ Cardinality(A) = N(a.id = id)
    BY FS_EmptySet, FS_Singleton DEF N
<1>3. <<"mix", b>> \notin A /\ <<"in", c>> \notin B
    OBVIOUS
<1> HIDE DEF A
<1>4. IsFiniteSet(B) /\ Cardinality(B) = N(a.id = id) + N(b.id = id)
    BY <1>2, <1>3, FS_AddElement DEF N
<1> HIDE DEF B
<1>5. Cardinality(C) = N(a.id = id) + N(b.id = id) + N(c.id = id)
    <2>0. N(a.id = id) \in {0, 1} /\ N(b.id = id) \in {0, 1}
      BY DEF N
    <2>1. CASE c.id = id
      <3>1. C = B \cup {<<"in", c>>}
        BY <2>1
      <3>2. QED BY <1>3, <1>4, <2>0, <2>1, <3>1, FS_AddElement DEF N
    <2>2. CASE c.id # id
      <3>1. C = B
        BY <2>2
      <3>2. QED BY <1>4, <2>0, <2>2, <3>1 DEF N
    <2>3. QED BY <2>1, <2>2
<1>6. QED BY <1>1, <1>5

\* The count of a queue is a number,
LEMMA OccNat ==
    ASSUME NEW S, NEW q \in Seq(S), NEW id
    PROVE  IsFiniteSet({i \in DOMAIN q : q[i] = id}) /\ Occ(q, id) \in Nat
<1>1. DOMAIN q = 1..Len(q) /\ Len(q) \in Nat
    OBVIOUS
<1>2. IsFiniteSet(DOMAIN q)
    BY <1>1, FS_Interval
<1>3. IsFiniteSet({i \in DOMAIN q : q[i] = id})
    BY <1>2, FS_Subset
<1>4. QED BY <1>3, FS_CardinalityType DEF Occ

\* it grows by a row that is appended
LEMMA OccAppend ==
    ASSUME NEW S, NEW q \in Seq(S), NEW x \in S, NEW id
    PROVE  Occ(Append(q, x), id) = Occ(q, id) + N(x = id)
<1> DEFINE A == {i \in DOMAIN q : q[i] = id}
           n == Len(q) + 1
           B == {i \in DOMAIN Append(q, x) : Append(q, x)[i] = id}
<1>1. DOMAIN q = 1..Len(q) /\ Len(q) \in Nat /\ DOMAIN Append(q, x) = 1..n
    OBVIOUS
<1>2. n \notin A
    BY <1>1
<1>2a. IsFiniteSet(A)
    BY OccNat
<1>3. B = IF x = id THEN A \cup {n} ELSE A
    BY <1>1
<1> HIDE DEF A, B, n
<1>4. Cardinality(B) = Cardinality(A) + N(x = id)
    <2>1. CASE x = id
      BY <1>2, <1>2a, <1>3, <2>1, FS_AddElement DEF N
    <2>2. CASE x # id
      BY <1>2a, <1>3, <2>2, FS_CardinalityType DEF N
    <2>3. QED BY <2>1, <2>2
<1>5. QED BY <1>4 DEF Occ, A, B

\* and shrinks by one that is taken from the head.
LEMMA OccTail ==
    ASSUME NEW S, NEW q \in Seq(S), q # <<>>, NEW id
    PROVE  Occ(q, id) = Occ(Tail(q), id) + N(Head(q) = id)
<1> DEFINE A == {i \in DOMAIN q : q[i] = id}
           B == {i \in DOMAIN Tail(q) : Tail(q)[i] = id}
           C == {i \in A : i # 1}
           f == [i \in B |-> i + 1]
<1>0. Tail(q) \in Seq(S)
    OBVIOUS
<1>1. /\ DOMAIN q = 1..Len(q) /\ Len(q) \in Nat /\ Len(q) >= 1 /\ DOMAIN Tail(q) = 1..Len(q) - 1
      /\ Head(q) = q[1] /\ \A i \in 1..Len(q) - 1 : Tail(q)[i] = q[i + 1]
    OBVIOUS
<1>2. IsFiniteSet(A) /\ IsFiniteSet(B)
    BY <1>0, OccNat
<1>3. f \in Bijection(B, C)
  <2>1. f \in [B -> C]
    BY <1>1
  <2>2. \A i, j \in B : f[i] = f[j] => i = j
    BY <1>1
  <2>3. \A t \in C : \E i \in B : f[i] = t
    <3> SUFFICES ASSUME NEW t \in C PROVE t - 1 \in B /\ f[t - 1] = t
      OBVIOUS
    <3>1. t \in 2..Len(q) /\ q[t] = id
      BY <1>1
    <3>2. t - 1 \in 1..Len(q) - 1 /\ (t - 1) + 1 = t
      BY <1>1, <3>1
    <3>3. Tail(q)[t - 1] = id
      BY <1>1, <3>1, <3>2
    <3>4. QED BY <1>1, <3>2, <3>3
  <2> HIDE DEF A, B, C, f
  <2>4. QED BY <2>1, <2>2, <2>3, Fun_IsBij
<1>4. Cardinality(C) = Cardinality(B)
    BY <1>2, <1>3, FS_Bijection DEF ExistsBijection
<1>5. A = IF Head(q) = id THEN C \cup {1} ELSE C
    BY <1>1
<1>6. 1 \notin C
    OBVIOUS
<1>7. IsFiniteSet(C)
    BY <1>2, FS_Subset
<1> HIDE DEF A, B, C, f
<1>8. Cardinality(A) = Cardinality(B) + N(Head(q) = id)
    <2>1. CASE Head(q) = id
      BY <1>4, <1>5, <1>6, <1>7, <2>1, FS_AddElement DEF N
    <2>2. CASE Head(q) # id
      BY <1>4, <1>5, <1>7, <2>2, FS_CardinalityType DEF N
    <2>3. QED BY <2>1, <2>2
<1>9. QED BY <1>8 DEF Occ, A, B

\* An empty queue and one of one row.
LEMMA OccSmall ==
    ASSUME NEW x, NEW id
    PROVE  Occ(<<>>, id) = 0 /\ Occ(<<x>>, id) = N(x = id)
<1>1. Occ(<<>>, id) = 0
  <2>1. {i \in DOMAIN <<>> : <<>>[i] = id} = {}
    OBVIOUS
  <2>2. QED BY <2>1, FS_EmptySet DEF Occ
<1>2. Append(<<>>, x) = <<x>> /\ <<>> \in Seq({x}) /\ x \in {x}
    OBVIOUS
<1> DEFINE e == <<>>
<1>2b. e \in Seq({x})
    OBVIOUS
<1> HIDE DEF e
<1>2a. Occ(Append(e, x), id) = Occ(e, id) + N(x = id)
    BY <1>2, <1>2b, OccAppend
<1>3. Occ(<<x>>, id) = Occ(<<>>, id) + N(x = id)
    BY <1>2, <1>2a DEF e
<1>4. QED BY <1>1, <1>3 DEF N

Total(a, b, c, h, q, id) == N(a.id = id) + N(b.id = id) + N(c.id = id) + Occ(h, id) + Occ(q, id)

\* The places of a row, counted by where they are.
LEMMA PlacesTotal ==
    ASSUME NEW id
    PROVE  /\ Places(id) = Total(io, mix, inIo, held, queued, id)
           /\ Places(id)' = Total(io', mix', inIo', held', queued', id)
<1>1. Places(id) = Total(io, mix, inIo, held, queued, id)
  <2>1. Cardinality(IoNaming(io, mix, inIo, id)) =
               N(io.id = id) + N(mix.id = id) + N(inIo.id = id)
    BY IoCount
  <2>2. QED BY <2>1, Zenon DEF Places, Total, Occ, IoNaming
<1>2. Places(id)' = Total(io', mix', inIo', held', queued', id)
  <2>1. Cardinality(IoNaming(io', mix', inIo', id)) =
               N(io'.id = id) + N(mix'.id = id) + N(inIo'.id = id)
    BY IoCount
  <2>2. QED BY <2>1, Zenon DEF Places, Total, Occ, IoNaming
<1>3. QED BY <1>1, <1>2

-----------------------------------------------------------------------------
(* Whose turn it is with the io areas *)

Threads == {"driver", "filter", "async", "main", "request"}
Labels == {"idle", "process", "release", "finish", "trigger", "signal", "store", "flush",
           "flush_ready", "retry", "admit", "refuse", "refuse_signal", "cycle", "prepare", "start",
           "running", "running_request", "stopped"}

\* Whose turn it is with the io areas, while the driver is never stopped: the
\* filter's from the trigger to FINISHED, the driver's from there on.
TurnInv ==
    /\ StatusType /\ MaxStops = 0
    /\ pc \in [Threads -> Labels]
    /\ pc["filter"] \in {"process", "release", "finish"} => status["filter"] = "awake"
    /\ pc["driver"] = "trigger" => status["filter"] = "not_triggered"
    /\ ~inflight => status["filter"] = "finished" /\ pc["filter"] = "idle"
    /\ pc["driver"] = "cycle" => status["filter"] = "finished"

\* When a local consumer's port must have been emptied: from the admission of a
\* cycle to the filter's part in it.
PortEmptied ==
    \/ pc["driver"] = "cycle" \/ status["filter"] \in {"not_triggered", "triggered"}
    \/ pc["filter"] = "process" \/ ~inflight

\* A local consumer: an id it gives back is in its port's io, which is the
\* driver's to empty before the next cycle.
LocalInv ==
    /\ consumer = "local" /\ Data
    /\ io = Need(Invalid) \/ \E id \in Ids : io = Have(id)
    /\ mix = Need(Invalid) \/ \E id \in Ids : mix = Have(id)
    /\ inIo.status = "need"
    /\ inIo # Need(Invalid) => pc["filter"] = "release" \/ releasePending
    /\ PortEmptied => inIo = Need(Invalid)
    /\ Custody

\* At first nobody is at work.
LEMMA InitTurnInv == ASSUME Init, MaxStops = 0 PROVE TurnInv
<1>1. StatusType
    BY InitTypeOK, TypeParts
<1>2. pc \in [Threads -> Labels]
    BY DEF Init, Threads, Labels
<1>3. QED BY <1>1, <1>2 DEF Init, TurnInv, Nodes

\* Whose turn it is after a step.
LEMMA NextTurnInv == ASSUME TurnInv, [Next]_vars PROVE TurnInv'
<1> USE DEF Threads, Labels
<1>0. StatusType'
    BY NextStatus DEF TurnInv
<1>1. ASSUME NEW n \in Targets, TargetStep(n) PROVE TurnInv'
  <2>1. CASE Awake(n)
    BY <1>0, <2>1 DEF Awake, Goto, TurnInv, StatusType, Targets, Nodes, driverVars
  <2>2. CASE Finish(n)
    BY <1>0, <2>2 DEF Finish, Goto, TurnInv, StatusType, Targets, Nodes, driverVars
  <2>3. CASE SignalDriver(n)
    BY <1>0, <2>3 DEF SignalDriver, Goto, TurnInv, Targets, driverVars
  <2>4. CASE FilterProcess
    BY <1>0, <2>4 DEF FilterProcess, Goto, TurnInv, driverVars
  <2>5. CASE SetRelease
    BY <1>0, <2>5 DEF SetRelease, Goto, TurnInv
  <2>6. CASE TriggerDriver
    BY <1>0, <2>6 DEF TriggerDriver, Goto, TurnInv, StatusType, Nodes, driverVars
  <2>7. QED BY <1>1, <2>1, <2>2, <2>3, <2>4, <2>5, <2>6 DEF TargetStep
<1>2. CASE RequestStep
  <2>1. CASE OutputReturn
    BY <1>0, <2>1 DEF OutputReturn, Goto, TurnInv, driverVars
  <2>2. CASE RequestStore
    BY <1>0, <2>2 DEF RequestStore, Goto, TurnInv
  <2>3. CASE RequestSignal
    BY <1>0, <2>3 DEF RequestSignal, Goto, TurnInv, driverVars
  <2>4. QED BY <1>2, <2>1, <2>2, <2>3 DEF RequestStep
<1>3. CASE Handler
  <2>1. CASE FlushSkip
    BY <1>0, <2>1 DEF FlushSkip, AfterFlush, Goto, TurnInv, driverVars
  <2>2. CASE Scan
    BY <1>0, <2>2 DEF Scan, AfterFlush, Goto, TurnInv
  <2>3. CASE FlushRetry
    BY <1>0, <2>3 DEF FlushRetry, Goto, TurnInv
  <2>4. CASE Admit
    <3>1. ~Refused => status["filter"] = "finished"
      BY DEF Refused, CycleComplete, Nodes
    <3>2. QED BY <1>0, <2>4, <3>1 DEF Admit, Goto, TurnInv, driverVars
  <2>5. CASE Refuse
    BY <1>0, <2>5 DEF Refuse, Goto, TurnInv
  <2>6. CASE RefuseSignal
    BY <1>0, <2>6 DEF RefuseSignal, Goto, TurnInv, driverVars
  <2>7. CASE StartCycle
    <3>1. pc["filter"] \notin {"process", "release", "finish"}
      BY <2>7 DEF StartCycle, TurnInv
    <3>2. QED BY <1>0, <2>7, <3>1 DEF StartCycle, Goto, TurnInv, Nodes
  <2>8. CASE TriggerTargets
    <3>1. inflight /\ pc["filter"] \notin {"process", "release", "finish"}
      BY <2>8 DEF TriggerTargets, TurnInv
    <3>2. QED BY <1>0, <2>8, <3>1 DEF TriggerTargets, Goto, TurnInv, driverVars
  <2>9. QED BY <1>3, <2>1, <2>2, <2>3, <2>4, <2>5, <2>6, <2>7, <2>8 DEF Handler
<1>4. CASE DriverProcess
    BY <1>0, <1>4 DEF DriverProcess, Goto, TurnInv, StatusType, Nodes, driverVars
<1>5. CASE ReliableEvent
    BY <1>0, <1>5 DEF ReliableEvent, Goto, TurnInv, driverVars
<1>6. CASE ReadyQueued
    BY <1>0, <1>6 DEF ReadyQueued, Goto, TurnInv, driverVars
<1>7. CASE Offer
    BY <1>0, <1>7 DEF Offer, Goto, TurnInv, driverVars
<1>8. CASE MainStep
  <2>1. CASE SetRunning
    BY <1>0, <2>1 DEF SetRunning, Goto, TurnInv, driverVars
  <2>2. CASE Prepare
    BY <1>0, <2>2 DEF Prepare, Goto, TurnInv, StatusType, Nodes
  <2>3. CASE SendStart
    BY <1>0, <2>3 DEF SendStart, Goto, TurnInv, driverVars
  <2>4. CASE Running
    BY <1>0, <2>4 DEF Running, Goto, TurnInv
  <2>5. CASE Stopped
    BY <1>0, <2>5 DEF Stopped, Goto, TurnInv
  <2>6. QED BY <1>8, <2>1, <2>2, <2>3, <2>4, <2>5 DEF MainStep
<1>9. CASE Unprepare
    BY <1>9 DEF Unprepare, TurnInv, StatusType
<1>10. CASE UNCHANGED vars
    BY <1>0, <1>10 DEF vars, TurnInv, driverVars
<1>11. QED BY <1>1, <1>2, <1>3, <1>4, <1>5, <1>6, <1>7, <1>8, <1>9, <1>10 DEF Next

\* The driver and the consumer never use the io areas at the same time, as
\* long as the driver is not stopped.
THEOREM IosAreNotShared == ASSUME MaxStops = 0 PROVE Spec => []IoNotShared
<1>1. TurnInv => IoNotShared
    BY DEF TurnInv, IoNotShared, CycleComplete, Nodes
<1>2. Init => TurnInv
    BY InitTurnInv
<1>3. TurnInv /\ [Next]_vars => TurnInv'
    BY NextTurnInv
<1>4. QED BY <1>1, <1>2, <1>3, PTL DEF Spec

-----------------------------------------------------------------------------
(* A local consumer *)

\* One pass of a local filter moves a row from the mix to its queue, from there
\* to the processed ones and from these to its port's io, and loses none.
LEMMA LocalPass ==
    ASSUME LocalInv, inIo = Need(Invalid), NEW r, Pass(r, mix, inIo, held, queued, FALSE)
    PROVE  /\ Process(r).mix = Need(Invalid) /\ Process(r).in.status = "need"
           /\ \A id \in Ids :
                N(mix.id = id) + Occ(held, id) + Occ(queued, id) =
                    N(Process(r).in.id = id) + Occ(Process(r).held, id) + Occ(Process(r).queued, id)
<1> USE RowAssumption
<1> DEFINE r1 == MixInput(r)
           r2 == TakeRow(r1)
           r3 == ProcessRow(r2)
           r4 == GiveBack(r3)
           h1 == IF mix.status = "have" THEN Append(held, mix.id) ELSE held
<1>0. held \in Seq(Ids) /\ queued \in Seq(Ids) /\ ~Remote
    BY DEF LocalInv, Data, Remote
<1>1. \A x : ~CanPublish(x) /\ ~PublishBusy(x) /\ Publish(x) = x
    BY <1>0 DEF CanPublish, PublishBusy, Publish
<1>2. Process(r) = r4
    BY <1>1 DEF Process
<1>3. Pass(r2, Need(Invalid), mix, h1, queued, FALSE)
  <2>1. Pass(r1, Need(Invalid), mix, held, queued, FALSE)
    BY MixPass
  <2>2. QED BY <2>1, TakePass
<1>4. /\ h1 \in Seq(Ids) /\ ~(mix.status # "have" /\ mix.id # Invalid)
      /\ \A id \in Ids : Occ(h1, id) = Occ(held, id) + N(mix.id = id)
  <2>1. CASE mix = Need(Invalid)
    <3>1. mix.status = "need" /\ mix.id = Invalid /\ h1 = held
      BY <2>1, Ios
    <3>2. ASSUME NEW id \in Ids PROVE Occ(h1, id) = Occ(held, id) + N(mix.id = id)
      <4>1. N(mix.id = id) = 0
        BY <3>1 DEF N
      <4>2. Occ(held, id) \in Nat
        BY <1>0, OccNat
      <4>3. QED BY <3>1, <4>1, <4>2
    <3>3. QED BY <1>0, <3>1, <3>2
  <2>2. ASSUME NEW x \in Ids, mix = Have(x)
        PROVE  /\ h1 \in Seq(Ids) /\ ~(mix.status # "have" /\ mix.id # Invalid)
               /\ \A id \in Ids : Occ(h1, id) = Occ(held, id) + N(mix.id = id)
    <3>1. mix.status = "have" /\ mix.id = x /\ h1 = Append(held, x)
      BY <2>2, Ios
    <3>2. ASSUME NEW id \in Ids PROVE Occ(Append(held, x), id) = Occ(held, id) + N(x = id)
      BY <1>0, OccAppend
    <3>3. Append(held, x) \in Seq(Ids)
      BY <1>0
    <3>4. QED BY <3>1, <3>2, <3>3
  <2>3. QED BY <2>1, <2>2 DEF LocalInv
<1> HIDE DEF r1, r2, r3, r4, h1
<1>5. \E h, q \in Seq(Ids), u \in BOOLEAN :
        /\ Pass(r3, Need(Invalid), mix, h, q, u)
        /\ \A id \in Ids : Occ(h1, id) + Occ(queued, id) = Occ(h, id) + Occ(q, id)
  <2>1. CASE output /\ h1 # <<>>
    <3>1. Pass(r3, Need(Invalid), mix, Tail(h1), Append(queued, Head(h1)), TRUE)
      BY <1>3, <2>1 DEF r3, ProcessRow, Pass
    <3>2. Head(h1) \in Ids /\ Tail(h1) \in Seq(Ids)
      BY <1>4, <2>1
    <3>3. Append(queued, Head(h1)) \in Seq(Ids)
      BY <1>0, <3>2
    <3>4. ASSUME NEW id \in Ids
          PROVE  Occ(h1, id) + Occ(queued, id) = Occ(Tail(h1), id) + Occ(Append(queued, Head(h1)), id)
      <4>1. Occ(h1, id) = Occ(Tail(h1), id) + N(Head(h1) = id)
        BY <1>4, <2>1, OccTail
      <4>2. Occ(Append(queued, Head(h1)), id) = Occ(queued, id) + N(Head(h1) = id)
        BY <1>0, <3>2, OccAppend
      <4>3. Occ(Tail(h1), id) \in Nat /\ Occ(queued, id) \in Nat /\ N(Head(h1) = id) \in {0, 1}
        BY <1>0, <3>2, OccNat DEF N
      <4>4. QED BY <4>1, <4>2, <4>3
    <3>5. QED BY <3>1, <3>2, <3>3, <3>4
  <2>2. CASE ~(output /\ h1 # <<>>)
    <3>1. Pass(r3, Need(Invalid), mix, h1, queued, FALSE)
      BY <1>3, <2>2 DEF r3, ProcessRow, Pass
    <3>2. QED BY <1>0, <1>4, <3>1
  <2>3. QED BY <2>1, <2>2
<1>6. PICK h \in Seq(Ids), q \in Seq(Ids), u \in BOOLEAN :
        /\ Pass(r3, Need(Invalid), mix, h, q, u)
        /\ \A id \in Ids : Occ(h1, id) + Occ(queued, id) = Occ(h, id) + Occ(q, id)
    BY <1>5
<1>7. \E i, p : /\ p \in Seq(Ids) /\ Pass(r4, Need(Invalid), i, h, p, u) /\ i.status = "need"
                /\ \A id \in Ids : Occ(q, id) = N(i.id = id) + Occ(p, id)
  <2>1. CASE q = <<>>
    <3>1. Pass(r4, Need(Invalid), Need(Invalid), h, q, u)
      BY <1>4, <1>6, <2>1, GivePass DEF r4
    <3>2. ASSUME NEW id \in Ids PROVE Occ(q, id) = N(Need(Invalid).id = id) + Occ(q, id)
      <4>1. N(Need(Invalid).id = id) = 0
        BY Ios DEF N
      <4>2. Occ(q, id) \in Nat
        BY OccNat
      <4>3. QED BY <4>1, <4>2
    <3>3. QED BY <3>1, <3>2, Ios
  <2>2. CASE q # <<>>
    <3>1. Pass(r4, Need(Invalid), Need(Head(q)), h, Tail(q), u)
      BY <1>4, <1>6, <2>2, GivePass DEF r4
    <3>2. ASSUME NEW id \in Ids PROVE Occ(q, id) = N(Need(Head(q)).id = id) + Occ(Tail(q), id)
      <4>1. Occ(q, id) = Occ(Tail(q), id) + N(Head(q) = id)
        BY <2>2, OccTail
      <4>2. Tail(q) \in Seq(Ids)
        BY <2>2
      <4>3. Occ(Tail(q), id) \in Nat /\ N(Head(q) = id) \in {0, 1}
        BY <4>2, OccNat DEF N
      <4>4. Need(Head(q)).id = Head(q)
        BY Ios
      <4>5. QED BY <4>1, <4>3, <4>4
    <3>3. Tail(q) \in Seq(Ids)
      BY <2>2
    <3>4. Need(Head(q)).status = "need"
      BY Ios
    <3> DEFINE i == Need(Head(q))
               p == Tail(q)
    <3>5. /\ p \in Seq(Ids) /\ Pass(r4, Need(Invalid), i, h, p, u) /\ i.status = "need"
          /\ \A id \in Ids : Occ(q, id) = N(i.id = id) + Occ(p, id)
      BY <3>1, <3>2, <3>3, <3>4
    <3> HIDE DEF i, p
    <3>6. QED BY <3>5
  <2>3. QED BY <2>1, <2>2
<1>8. PICK i, p : /\ p \in Seq(Ids) /\ Pass(r4, Need(Invalid), i, h, p, u) /\ i.status = "need"
                  /\ \A id \in Ids : Occ(q, id) = N(i.id = id) + Occ(p, id)
    BY <1>7
<1>9. Process(r).mix = Need(Invalid) /\ Process(r).in = i /\ Process(r).held = h /\ Process(r).queued = p
    BY <1>2, <1>8 DEF Pass
<1>10. ASSUME NEW id \in Ids
       PROVE  N(mix.id = id) + Occ(held, id) + Occ(queued, id) = N(i.id = id) + Occ(h, id) + Occ(p, id)
  <2>1. Occ(h, id) \in Nat /\ Occ(q, id) \in Nat /\ Occ(held, id) \in Nat /\ Occ(queued, id) \in Nat
    BY <1>0, OccNat
  <2>2. N(mix.id = id) \in {0, 1} /\ N(i.id = id) \in {0, 1}
    BY DEF N
  <2>3. /\ Occ(h1, id) = Occ(held, id) + N(mix.id = id)
        /\ Occ(h1, id) + Occ(queued, id) = Occ(h, id) + Occ(q, id)
        /\ Occ(q, id) = N(i.id = id) + Occ(p, id)
    BY <1>4, <1>6, <1>8
  <2>4. Occ(p, id) \in Nat
    BY <1>8, OccNat
  <2>5. QED BY <2>1, <2>2, <2>3, <2>4
<1>11. QED BY <1>8, <1>9, <1>10

\* A step that moves no row and keeps what the turn depends on.
LEMMA LocalUnchanged ==
    ASSUME LocalInv, UNCHANGED <<io, out, consumer, mix, borrowed, inIo, held, queued>>,
           inIo # Need(Invalid) => (pc["filter"] = "release" \/ releasePending)',
           PortEmptied' => inIo = Need(Invalid)
    PROVE  LocalInv'
<1>1. Data'
    BY DEF LocalInv, Data
<1>2. Custody'
  <2>1. \A id \in Ids : Places(id)' = Places(id)
    BY DEF Places
  <2>2. QED BY <2>1 DEF LocalInv, Custody
<1>3. QED BY <1>1, <1>2 DEF LocalInv

\* A step that moves rows keeps Custody when the counts add up.
LEMMA CustodyStep ==
    ASSUME Custody,
           \A id \in Ids : Total(io', mix', inIo', held', queued', id) + N(id \in out) =
                           Total(io, mix, inIo, held, queued, id) + N(id \in out'),
           Data, Data'
    PROVE  Custody'
<1> SUFFICES ASSUME NEW id \in Ids PROVE Places(id)' = IF id \in out' THEN 1 ELSE 0
    BY DEF Custody
<1>1. Places(id) = N(id \in out)
    BY DEF Custody, N
<1>2. Places(id) = Total(io, mix, inIo, held, queued, id)
    BY PlacesTotal
<1>3. Places(id)' = Total(io', mix', inIo', held', queued', id)
    BY PlacesTotal
<1>4. Total(io', mix', inIo', held', queued', id) \in Nat
  <2>1. Occ(held', id) \in Nat /\ Occ(queued', id) \in Nat
    BY OccNat DEF Data
  <2>2. N(io'.id = id) \in Nat /\ N(mix'.id = id) \in Nat /\ N(inIo'.id = id) \in Nat
    BY DEF N
  <2>3. QED BY <2>1, <2>2 DEF Total
<1>5. N(id \in out) \in {0, 1} /\ N(id \in out') = IF id \in out' THEN 1 ELSE 0
    BY DEF N
<1>6. Total(io', mix', inIo', held', queued', id) + N(id \in out) = N(id \in out) + N(id \in out')
    BY <1>1, <1>2
<1>7. QED BY <1>3, <1>4, <1>5, <1>6

\* The filter's own step.
LEMMA FilterLocal == ASSUME LocalInv, TurnInv, Data', FilterProcess PROVE LocalInv'
<1> DEFINE r == [mix |-> mix, in |-> inIo, held |-> held, queued |-> queued, used |-> FALSE]
<1>1. Pass(r, mix, inIo, held, queued, FALSE)
    BY DEF Pass
<1>2. /\ mix' = Process(r).mix /\ inIo' = Process(r).in /\ held' = Process(r).held
      /\ queued' = Process(r).queued /\ UNCHANGED <<io, out, consumer, borrowed>>
    BY DEF FilterProcess, Goto, sourceVars
<1>3. inIo = Need(Invalid)
    BY DEF LocalInv, FilterProcess, PortEmptied
<1> HIDE DEF r
<1>4. /\ mix' = Need(Invalid) /\ inIo'.status = "need"
      /\ \A id \in Ids : N(mix.id = id) + Occ(held, id) + Occ(queued, id) =
                         N(inIo'.id = id) + Occ(held', id) + Occ(queued', id)
    BY <1>1, <1>2, <1>3, LocalPass
<1>5. Custody'
  <2> SUFFICES ASSUME NEW id \in Ids
               PROVE  Total(io', mix', inIo', held', queued', id) + N(id \in out) =
                      Total(io, mix, inIo, held, queued, id) + N(id \in out')
    BY CustodyStep DEF LocalInv
  <2>1. N(mix'.id = id) = 0 /\ N(inIo.id = id) = 0
    BY <1>3, <1>4, RowAssumption, Ios DEF N
  <2>2. /\ Occ(held', id) \in Nat /\ Occ(queued', id) \in Nat
        /\ Occ(held, id) \in Nat /\ Occ(queued, id) \in Nat
    BY OccNat DEF Data, LocalInv
  <2>3. /\ N(io.id = id) \in Nat /\ N(mix.id = id) \in Nat /\ N(inIo'.id = id) \in Nat
        /\ N(id \in out) \in Nat
    BY DEF N
  <2>4. N(mix.id = id) + Occ(held, id) + Occ(queued, id) =
                         N(inIo'.id = id) + Occ(held', id) + Occ(queued', id)
    BY <1>4
  <2>5. io' = io /\ out' = out
    BY <1>2
  <2>6. QED BY <2>1, <2>2, <2>3, <2>4, <2>5 DEF Total
<1>6. /\ pc'["filter"] = "release" /\ pc'["driver"] # "cycle" /\ inflight'
      /\ status'["filter"] \notin {"not_triggered", "triggered"}
  <2>1. inflight /\ status["filter"] = "awake" /\ pc["driver"] # "cycle" /\ pc["filter"] = "process"
    BY DEF TurnInv, FilterProcess
  <2>2. QED BY <2>1 DEF FilterProcess, Goto, driverVars, TurnInv, Threads
<1>7. QED BY <1>2, <1>4, <1>5, <1>6 DEF LocalInv, PortEmptied

\* An id in a local consumer's port is that of a row that is out.
LEMMA LocalReturn ==
    ASSUME LocalInv, Releases
    PROVE  inIo.id \in Ids /\ inIo.id \in out /\ ~ReleaseFails
<1>1. ~Remote /\ Returned = inIo /\ inIo.id \in Ids \cup {Invalid}
    BY IoCases DEF LocalInv, Remote, Returned, Data
<1>2. inIo.id \in Ids
    BY <1>1 DEF Releases
<1>3. inIo.id \in out
  <2>1. Places(inIo.id) = Total(io, mix, inIo, held, queued, inIo.id)
    BY PlacesTotal
  <2>2. Occ(held, inIo.id) \in Nat /\ Occ(queued, inIo.id) \in Nat
    BY OccNat DEF Data, LocalInv
  <2>3. N(io.id = inIo.id) \in Nat /\ N(mix.id = inIo.id) \in Nat /\ N(inIo.id = inIo.id) = 1
    BY DEF N
  <2>4. Places(inIo.id) # 0
    BY <2>1, <2>2, <2>3 DEF Total
  <2>5. QED BY <1>2, <2>4 DEF LocalInv, Custody
<1>4. QED BY <1>1, <1>2, <1>3 DEF ReleaseFails

\* The driver takes back the id it finds.
LEMMA ScanLocal == ASSUME LocalInv, TurnInv, Flags, Data', Scan PROVE LocalInv'
<1> USE RowAssumption
<1>0. ~Remote /\ Returned = inIo /\ inIo = Need(inIo.id) /\ inIo.id \in Ids \cup {Invalid}
    BY Ios, IoCases DEF LocalInv, Remote, Returned, Data
<1>1. pc["filter"] \notin {"process", "release"} /\ status["filter"] = "finished"
    BY DEF Scan, TurnInv, CycleComplete, Nodes
<1>2. UNCHANGED <<io, consumer, held, queued, status, inflight>> /\ ReuseRowOutput
      /\ releasePending' = (Releases /\ ReleaseFails /\ releasePending)
    BY DEF Scan, Goto
<1>3. pc'["filter"] = pc["filter"] /\ pc'["driver"] # "cycle"
    BY DEF Scan, Goto, AfterFlush, TurnInv, Threads
<1>4. CASE Releases
  <2>1. inIo.id \in Ids /\ inIo.id \in out /\ ~ReleaseFails
    BY <1>4, LocalReturn
  <2>4. /\ out' = out \ {inIo.id} /\ mix' = mix /\ borrowed' = borrowed
        /\ inIo' = Need(Invalid) /\ ~releasePending'
    <3>1. [inIo EXCEPT !.id = Invalid] = Need(Invalid)
      BY <1>0, Ios
    <3>2. QED BY <1>0, <1>2, <1>4, <2>1, <3>1 DEF ReuseRowOutput
  <2>5. Custody'
    <3> SUFFICES ASSUME NEW id \in Ids
                 PROVE  Total(io', mix', inIo', held', queued', id) + N(id \in out) =
                        Total(io, mix, inIo, held, queued, id) + N(id \in out')
      BY CustodyStep DEF LocalInv
    <3>1. N(inIo'.id = id) = 0
      BY <2>4, Ios DEF N
    <3>2. N(id \in out) = N(inIo.id = id) + N(id \in out')
      BY <2>1, <2>4 DEF N
    <3>3. Occ(held, id) \in Nat /\ Occ(queued, id) \in Nat
      BY OccNat DEF Data, LocalInv
    <3>4. /\ N(io.id = id) \in Nat /\ N(mix.id = id) \in Nat /\ N(inIo.id = id) \in Nat
          /\ N(id \in out') \in Nat
      BY DEF N
    <3>5. io' = io /\ mix' = mix /\ held' = held /\ queued' = queued
      BY <1>2, <2>4
    <3>6. QED BY <3>1, <3>2, <3>3, <3>4, <3>5 DEF Total
  <2>6. QED BY <1>2, <2>4, <2>5, Ios DEF LocalInv
<1>5. CASE ~Releases
  <2>1. UNCHANGED <<out, mix, inIo, borrowed>>
    BY <1>2, <1>5 DEF ReuseRowOutput
  <2>2. inIo = Need(Invalid)
    BY <1>0, <1>1, <1>5, Ios DEF LocalInv, Releases
  <2>3. QED BY <1>2, <2>1, <2>2, LocalUnchanged
<1>6. QED BY <1>4, <1>5

\* The tee hands a row to the mix.
LEMMA CycleLocal == ASSUME LocalInv, TurnInv, Data', StartCycle PROVE LocalInv'
<1> USE RowAssumption
<1>0. ~Remote /\ ~HasBorrowed
    BY DEF LocalInv, Remote, HasBorrowed
<1>1. UNCHANGED <<out, consumer, inIo, held, queued>> /\ TeeProcess
    BY DEF StartCycle, Goto, filterVars
<1>2. inIo = Need(Invalid)
    BY DEF LocalInv, StartCycle, PortEmptied
<1>3. CASE HasSourceRow /\ mix.status # "have"
  <2>1. mix = Need(Invalid)
    BY <1>3, Ios DEF LocalInv
  <2>2. PICK x \in Ids : io = Have(x)
    BY <1>3, Ios DEF LocalInv, HasSourceRow
  <2>3. io' = Need(Invalid) /\ mix' = Have(x) /\ borrowed' = borrowed
    BY <1>0, <1>1, <1>3, <2>1, <2>2, Ios DEF TeeProcess
  <2>4. Custody'
    <3> SUFFICES ASSUME NEW id \in Ids
                 PROVE  Total(io', mix', inIo', held', queued', id) + N(id \in out) =
                        Total(io, mix, inIo, held, queued, id) + N(id \in out')
      BY CustodyStep DEF LocalInv
    <3>1. N(io'.id = id) = 0 /\ N(mix.id = id) = 0 /\ N(mix'.id = id) = N(io.id = id)
      BY <2>1, <2>2, <2>3, Ios DEF N
    <3>2. Occ(held, id) \in Nat /\ Occ(queued, id) \in Nat
      BY OccNat DEF Data, LocalInv
    <3>3. N(io.id = id) \in Nat /\ N(inIo.id = id) \in Nat /\ N(id \in out) \in Nat
      BY DEF N
    <3>4. inIo' = inIo /\ held' = held /\ queued' = queued /\ out' = out
      BY <1>1
    <3>5. QED BY <3>1, <3>2, <3>3, <3>4 DEF Total
  <2>5. QED BY <1>1, <1>2, <2>3, <2>4 DEF LocalInv
<1>4. CASE ~(HasSourceRow /\ mix.status # "have")
  <2>1. UNCHANGED <<io, mix, borrowed>>
    BY <1>1, <1>4 DEF TeeProcess
  <2>2. QED BY <1>1, <1>2, <2>1, LocalUnchanged
<1>5. QED BY <1>3, <1>4

\* The source offers a row that is not out.
LEMMA OfferLocal == ASSUME LocalInv, TurnInv, Data', Offer PROVE LocalInv'
<1> USE RowAssumption
<1>1. PICK x \in Ids \ out : io' = Have(x) /\ out' = out \cup {x}
    BY DEF Offer
<1>2. UNCHANGED <<consumer, mix, borrowed, inIo, held, queued, status, inflight, releasePending>>
    BY DEF Offer, Goto, linkVars, filterVars, driverVars
<1>3. io = Need(Invalid)
    BY Ios DEF Offer, HasSourceRow, LocalInv
<1>4. Custody'
  <2> SUFFICES ASSUME NEW id \in Ids
               PROVE  Total(io', mix', inIo', held', queued', id) + N(id \in out) =
                      Total(io, mix, inIo, held, queued, id) + N(id \in out')
    BY CustodyStep DEF LocalInv
  <2>1. N(io.id = id) = 0
    BY <1>3, Ios DEF N
  <2>2. N(id \in out') = N(io'.id = id) + N(id \in out)
    BY <1>1, Ios DEF N
  <2>3. Occ(held, id) \in Nat /\ Occ(queued, id) \in Nat
    BY OccNat DEF Data, LocalInv
  <2>4. /\ N(io'.id = id) \in Nat /\ N(mix.id = id) \in Nat /\ N(inIo.id = id) \in Nat
        /\ N(id \in out) \in Nat
    BY DEF N
  <2>5. inIo' = inIo /\ held' = held /\ queued' = queued /\ mix' = mix
    BY <1>2
  <2>6. QED BY <2>1, <2>2, <2>3, <2>4, <2>5 DEF Total
<1>5. pc'["filter"] = pc["filter"] /\ (pc'["driver"] = "cycle" => ~inflight)
    BY DEF Offer, Goto, TurnInv, Threads
<1>6. QED BY <1>1, <1>2, <1>4, <1>5 DEF LocalInv, PortEmptied

\* Every step keeps the invariant of a local consumer.
LEMMA NextLocalInv == ASSUME LocalInv, TurnInv, Flags, [Next]_vars PROVE LocalInv'
<1> USE RowAssumption
<1>0. Data'
    BY NextData DEF LocalInv
<1> DEFINE rowVars == <<io, out, consumer, mix, borrowed, inIo, held, queued>>
           TurnKept == /\ inIo # Need(Invalid) => (pc["filter"] = "release" \/ releasePending)'
                       /\ PortEmptied' => inIo = Need(Invalid)
<1>1. UNCHANGED rowVars /\ TurnKept => LocalInv'
    BY LocalUnchanged
<1>2. ASSUME NEW n \in Targets, TargetStep(n) PROVE LocalInv'
  <2>1. CASE Awake(n)
    BY <1>1, <2>1 DEF Awake, Goto, LocalInv, PortEmptied, TurnInv, StatusType, Targets, Nodes, Threads,
                      sourceVars, linkVars, filterVars, driverVars
  <2>2. CASE Finish(n)
    BY <1>1, <2>2 DEF Finish, Goto, LocalInv, PortEmptied, TurnInv, StatusType, Targets, Nodes, Threads,
                      sourceVars, linkVars, filterVars, driverVars
  <2>3. CASE SignalDriver(n)
    BY <1>1, <2>3 DEF SignalDriver, Goto, LocalInv, PortEmptied, TurnInv, Targets, Threads,
                      sourceVars, linkVars, filterVars, driverVars
  <2>4. CASE FilterProcess
    BY <1>0, <2>4, FilterLocal
  <2>5. CASE SetRelease
    <3>1. inIo.id # Invalid \/ inIo = Need(Invalid)
      BY IoCases DEF LocalInv, Data
    <3>2. UNCHANGED rowVars
      BY <2>5 DEF SetRelease, Goto, sourceVars, linkVars, filterVars
    <3>3. inIo # Need(Invalid) => releasePending'
      BY <2>5, <3>1 DEF SetRelease, LocalInv, Remote
    <3>4. PortEmptied' => inIo = Need(Invalid)
      BY <2>5 DEF SetRelease, Goto, LocalInv, PortEmptied, TurnInv, Threads
    <3>5. QED BY <1>1, <3>2, <3>3, <3>4
  <2>6. CASE TriggerDriver
    BY <1>1, <2>6 DEF TriggerDriver, Goto, LocalInv, PortEmptied, TurnInv, StatusType, Nodes, Threads,
                      sourceVars, linkVars, filterVars, driverVars
  <2>7. QED BY <1>2, <2>1, <2>2, <2>3, <2>4, <2>5, <2>6 DEF TargetStep
<1>3. CASE RequestStep
  <2>1. CASE OutputReturn
    BY <1>1, <2>1 DEF OutputReturn, Goto, LocalInv, PortEmptied, TurnInv, Threads, sourceVars, linkVars,
                      driverVars
  <2>2. CASE RequestStore
    BY <1>1, <2>2 DEF RequestStore, Goto, LocalInv, PortEmptied, TurnInv, Threads, sourceVars, linkVars,
                      filterVars
  <2>3. CASE RequestSignal
    BY <1>1, <2>3 DEF RequestSignal, Goto, LocalInv, PortEmptied, TurnInv, Threads, sourceVars, linkVars,
                      filterVars, driverVars
  <2>4. QED BY <1>3, <2>1, <2>2, <2>3 DEF RequestStep
<1>4. CASE Handler
  <2>1. CASE FlushSkip
    BY <1>1, <2>1 DEF FlushSkip, AfterFlush, Goto, LocalInv, PortEmptied, TurnInv, Threads, sourceVars,
                      linkVars, filterVars, driverVars
  <2>2. CASE Scan
    BY <1>0, <2>2, ScanLocal
  <2>3. CASE FlushRetry
    BY <1>1, <2>3 DEF FlushRetry, Goto, LocalInv, PortEmptied, TurnInv, Threads, linkVars, filterVars
  <2>4. CASE Admit
    <3>1. ~Refused => ~releasePending /\ pc["filter"] # "release"
      BY DEF Refused, CycleComplete, Nodes, TurnInv
    <3>2. ~Refused => inIo = Need(Invalid)
      BY <3>1 DEF LocalInv
    <3>3. QED BY <1>1, <2>4, <3>2 DEF Admit, Goto, LocalInv, PortEmptied, TurnInv, Threads, sourceVars,
                      linkVars, filterVars, driverVars
  <2>5. CASE Refuse
    BY <1>1, <2>5 DEF Refuse, Goto, LocalInv, PortEmptied, TurnInv, Threads, sourceVars, linkVars,
                      filterVars
  <2>6. CASE RefuseSignal
    BY <1>1, <2>6 DEF RefuseSignal, Goto, LocalInv, PortEmptied, TurnInv, Threads, sourceVars, linkVars,
                      filterVars, driverVars
  <2>7. CASE StartCycle
    BY <1>0, <2>7, CycleLocal
  <2>8. CASE TriggerTargets
    <3>1. inIo = Need(Invalid)
      BY <2>8 DEF TriggerTargets, TurnInv, LocalInv, PortEmptied
    <3>2. QED BY <1>1, <2>8, <3>1 DEF TriggerTargets, Goto, sourceVars, linkVars, filterVars
  <2>9. QED BY <1>4, <2>1, <2>2, <2>3, <2>4, <2>5, <2>6, <2>7, <2>8 DEF Handler
<1>5. CASE DriverProcess
    BY <1>1, <1>5 DEF DriverProcess, Goto, LocalInv, PortEmptied, TurnInv, StatusType, Nodes, Threads,
                      sourceVars, linkVars, filterVars, driverVars
<1>6. CASE ReliableEvent
    BY <1>1, <1>6 DEF ReliableEvent, Goto, LocalInv, PortEmptied, TurnInv, Threads, sourceVars, linkVars,
                      filterVars, driverVars
<1>7. CASE ReadyQueued
    BY <1>1, <1>7 DEF ReadyQueued, Goto, LocalInv, PortEmptied, TurnInv, Threads, linkVars, filterVars,
                      driverVars
<1>8. CASE Offer
    BY <1>0, <1>8, OfferLocal
<1>9. CASE MainStep
  <2>1. CASE SetRunning
    BY <1>1, <2>1 DEF SetRunning, Goto, LocalInv, PortEmptied, TurnInv, Threads, sourceVars, linkVars,
                      filterVars, driverVars
  <2>2. CASE Prepare
    BY <1>1, <2>2 DEF Prepare, Goto, LocalInv, PortEmptied, TurnInv, StatusType, Nodes, Threads,
                      sourceVars, linkVars, filterVars
  <2>3. CASE SendStart
    BY <1>1, <2>3 DEF SendStart, Goto, LocalInv, PortEmptied, TurnInv, Threads, linkVars, filterVars,
                      driverVars
  <2>4. CASE Running
    BY <1>1, <2>4 DEF Running, Goto, LocalInv, PortEmptied, TurnInv, Threads, linkVars, filterVars
  <2>5. CASE Stopped
    BY <1>1, <2>5 DEF Stopped, Goto, LocalInv, PortEmptied, TurnInv, Threads, linkVars, filterVars
  <2>6. QED BY <1>9, <2>1, <2>2, <2>3, <2>4, <2>5 DEF MainStep
<1>10. CASE Unprepare
    BY <1>10 DEF Unprepare, TurnInv, StatusType
<1>11. CASE UNCHANGED vars
    BY <1>1, <1>11 DEF vars, LocalInv, PortEmptied, sourceVars, linkVars, filterVars, driverVars
<1>12. QED BY <1>2, <1>3, <1>4, <1>5, <1>6, <1>7, <1>8, <1>9, <1>10, <1>11 DEF Next

\* No row is out at first.
LEMMA InitLocalInv == ASSUME Init, ~Remote PROVE LocalInv
<1> USE RowAssumption
<1>1. consumer = "local" /\ Data
    BY InitTypeOK, TypeParts DEF Init, Remote
<1>2. ASSUME NEW id \in Ids PROVE Places(id) = 0
  <2>1. Places(id) = Total(io, mix, inIo, held, queued, id)
    BY PlacesTotal
  <2>2. N(io.id = id) = 0 /\ N(mix.id = id) = 0 /\ N(inIo.id = id) = 0
    BY Ios DEF Init, N
  <2>3. Occ(held, id) = 0 /\ Occ(queued, id) = 0
    BY OccSmall DEF Init
  <2>4. QED BY <2>1, <2>2, <2>3 DEF Total
<1>3. Custody
    BY <1>2 DEF Custody, Init
<1>4. QED BY <1>1, <1>3, Ios DEF LocalInv, Init

\* The row on loan is in one place.
LEMMA LoanCustody == ASSUME LoanInv PROVE Custody
<1> USE RowAssumption
<1> SUFFICES ASSUME NEW id \in Ids PROVE Places(id) = IF id \in out THEN 1 ELSE 0
    BY DEF Custody
<1>0. /\ Occ(<<>>, id) = 0 /\ Occ(<<borrowed>>, id) = N(borrowed = id)
      /\ \A b \in BOOLEAN : N(b) \in {0, 1}
    BY OccSmall DEF N
<1>1. Places(id) = N(io.id = id) + N(mix.id = id) + Occ(held, id) /\ Occ(held, id) \in Nat
  <2>1. N(inIo.id = id) = 0
    BY Ios DEF LoanInv, N
  <2>2. Occ(queued, id) = 0
    BY <1>0 DEF LoanInv
  <2>3. Occ(held, id) \in Nat
    <3>1. held = <<>> \/ held = <<borrowed>>
      BY DEF LoanInv, Nowhere, InMix, InFilter
    <3>2. N(borrowed = id) \in Nat
      BY DEF N
    <3>3. QED BY <1>0, <3>1, <3>2
  <2>4. N(io.id = id) \in Nat /\ N(mix.id = id) \in Nat
    BY DEF N
  <2>5. QED BY <2>1, <2>2, <2>3, <2>4, PlacesTotal DEF Total
<1>2. io.id = id => io = Have(id) /\ id \in out
    BY Ios DEF LoanInv
<1>2a. io = Have(id) => io.id = id
    BY Ios
<1>3. id \in out /\ io # Have(id) <=> borrowed = id
    BY DEF LoanInv, OneRowLent, Remote
<1>4. N(mix.id = id) + Occ(held, id) = N(borrowed = id)
  <2>1. CASE Nowhere
    <3>1. N(mix.id = id) = 0 /\ N(borrowed = id) = 0
      BY <2>1, Ios DEF Nowhere, N
    <3>2. Occ(held, id) = 0
      BY <1>0, <2>1 DEF Nowhere
    <3>3. QED BY <3>1, <3>2
  <2>2. CASE InMix
    <3>1. mix.id = borrowed
      BY <2>2, Ios DEF InMix
    <3>2. Occ(held, id) = 0
      BY <1>0, <2>2 DEF InMix
    <3>3. QED BY <3>1, <3>2 DEF N
  <2>3. CASE InFilter
    <3>1. N(mix.id = id) = 0
      BY <2>3, Ios DEF InFilter, N
    <3>2. Occ(held, id) = N(borrowed = id)
      BY <1>0, <2>3 DEF InFilter
    <3>3. QED BY <3>1, <3>2 DEF N
  <2>4. QED BY <2>1, <2>2, <2>3 DEF LoanInv
<1>5. Places(id) = N(io.id = id) + N(borrowed = id)
  <2>1. N(io.id = id) \in Nat /\ N(mix.id = id) \in Nat /\ N(borrowed = id) \in Nat
    BY DEF N
  <2>2. QED BY <1>1, <1>4, <2>1
<1>6. QED BY <1>2, <1>2a, <1>3, <1>5 DEF N

\* What holds whichever the consumer is.
RowInv ==
    /\ TypeOK
    /\ Remote => LoanInv
    /\ MaxStops = 0 => TurnInv /\ (~Remote => LocalInv)

\* It is inductive.
LEMMA RowInvariant == Spec => []RowInv
<1>1. Init => RowInv
    BY InitTypeOK, InitLoanInv, InitTurnInv, InitLocalInv DEF RowInv
<1>2. RowInv /\ [Next]_vars => RowInv'
  <2> SUFFICES ASSUME RowInv, [Next]_vars PROVE RowInv'
    OBVIOUS
  <2>1. TypeOK'
    <3>1. Data /\ Flags /\ StatusType
      BY TypeParts DEF RowInv
    <3>2. Data' /\ Flags' /\ StatusType'
      BY <3>1, NextData, NextFlags, NextStatus
    <3>3. QED BY <3>2 DEF TypeOK, Data, Flags, StatusType
  <2>2. (Remote => LoanInv)'
    BY NextLoanInv, ConsumerFixed DEF RowInv, Remote
  <2>3. (MaxStops = 0 => TurnInv)'
    BY NextTurnInv DEF RowInv
  <2>4. (MaxStops = 0 => (~Remote => LocalInv))'
    BY NextLocalInv, TypeParts, ConsumerFixed DEF RowInv, Remote
  <2>5. QED BY <2>1, <2>2, <2>3, <2>4 DEF RowInv
<1>3. QED BY <1>1, <1>2, PTL DEF Spec

\* Nothing in a pass or a return loses or doubles a row: of an exported consumer
\* ever, of a local one while the driver is not stopped.
THEOREM RowsInCustody ==
    ASSUME Consumers = {"exported"} \/ MaxStops = 0
    PROVE  Spec => []Custody
<1>1. TypeOK => (Consumers = {"exported"} => Remote)
    BY DEF TypeOK, Remote
<1>2. RowInv => Custody
    BY <1>1, LoanCustody DEF RowInv, LocalInv
<1>3. QED BY <1>2, RowInvariant, PTL

\* pw_impl_port_publish_row_return never fails with -EBUSY, and
\* pw_impl_port_reuse_row_output never meets an id that is not out, or that an
\* exported consumer was not lent.
THEOREM NoReturnRefused ==
    ASSUME Consumers = {"exported"} \/ MaxStops = 0
    PROVE  Spec => []ReturnsAreExact
<1>1. LoanInv => ReturnsAreExact
  <2> SUFFICES ASSUME LoanInv PROVE ReturnsAreExact
    OBVIOUS
  <2>1. ~PublishBusy([mix |-> mix, in |-> inIo])
    BY DEF LoanInv, PublishBusy, CanPublish, Need
  <2>2. ~(Releases /\ ReleaseFails)
    BY ReturnIsLoan
  <2>3. QED BY <2>1, <2>2 DEF ReturnsAreExact
<1>2. LocalInv => ReturnsAreExact
  <2> SUFFICES ASSUME LocalInv PROVE ReturnsAreExact
    OBVIOUS
  <2>1. ~PublishBusy([mix |-> mix, in |-> inIo])
    BY DEF LocalInv, PublishBusy, CanPublish, Remote
  <2>2. ~(Releases /\ ReleaseFails)
    BY LocalReturn
  <2>3. QED BY <2>1, <2>2 DEF ReturnsAreExact
<1>3. TypeOK => (Consumers = {"exported"} => Remote)
    BY DEF TypeOK, Remote
<1>4. RowInv => ReturnsAreExact
    BY <1>1, <1>2, <1>3 DEF RowInv
<1>5. QED BY <1>4, RowInvariant, PTL

=============================================================================
