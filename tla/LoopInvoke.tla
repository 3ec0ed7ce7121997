----------------------------- MODULE LoopInvoke -------------------------------
(***************************************************************************)
(* The invoke queues of spa/plugins/support/loop.c.  Any thread may ask a  *)
(* loop to call a function: it takes a queue off a lock-free stack, writes *)
(* an item in the queue's ring (or that of its overflow queue), wakes the  *)
(* loop, waits for an acknowledgement if the call is a blocking one, and   *)
(* puts the queue back.  Whoever holds the loop's lock flushes the queues: *)
(* the loop's thread, or the caller itself when no thread runs the loop.   *)
(* A function that is called may invoke again and so flush from within the *)
(* flush.                                                                  *)
(*                                                                         *)
(* A step touches the words that threads share once.  To put a queue back  *)
(* is one step, the exchange that succeeds: until then no other caller     *)
(* uses the queue's link.  To look for the oldest item is one step: an     *)
(* item that is written meanwhile in a queue already looked at is as one   *)
(* written later.  A ring holds Slots items, whatever their size, and the  *)
(* overflow queues of a queue are one.  A caller that holds the loop's     *)
(* lock, a retry_timeout of 0 and cancellation of the loop's thread are    *)
(* left out, and a called function invokes without waiting.                *)
(***************************************************************************)
EXTENDS Integers, SequencesExt, FiniteSets

CONSTANTS
    Threads,     \* the threads that invoke
    MaxQueues,   \* QUEUES_MAX
    Made,        \* how many queues earlier calls may have left on the stack
    Slots,       \* the items a ring has room for
    MaxCalls,    \* the calls of invoke there are
    MaxLeaves,   \* how often the loop's thread leaves
    YieldMax     \* POLLING_YIELD_FLUSH_MAX

ASSUME LoopAssumption ==
    /\ IsFiniteSet(Threads) /\ {"loop", "nested", "none"} \cap Threads = {}
    /\ MaxQueues \in Nat \ {0} /\ Made \subseteq 0..MaxQueues
    /\ Slots \in Nat \ {0} /\ YieldMax \in Nat \ {0}
    /\ MaxCalls \in Nat /\ MaxLeaves \in Nat

None == "none"
Loop == "loop"
Nested == "nested"      \* a call of invoke from a function that is flushed
Callers == Threads \cup {Nested}
Invalid == 0            \* IDX_INVALID; the queues are 1..MaxQueues
Queues == 1..MaxQueues
Rings == {1, 2}         \* the queue and its overflow queue

VARIABLES
    head, next,     \* the stack of free queues: its first, with a tag, and the links
    nQueues,
    rings,          \* per queue: the items in its ring and in its overflow queue's
    acks,           \* per queue: the count of its ack_fd
    count,          \* the stamp of the next item
    thread,         \* impl->thread
    lock,           \* who holds impl->lock
    wakeup,         \* the wakeup event is signalled
    frames,         \* the calls of flush_queues, the innermost first
    yielding,
    loop,           \* where the loop's thread is
    call,           \* per caller: where it is in loop_invoke
    calls,          \* per call: its item, and what became of it
    leaves

queueVars == <<head, next, nQueues>>
itemVars == <<rings, acks, count>>
loopVars == <<thread, wakeup, yielding, loop, leaves>>
vars == <<queueVars, itemVars, loopVars, lock, frames, call, calls>>

Idle == [pc |-> "idle", id |-> 0, head |-> [idx |-> Invalid, tag |-> 0], next |-> Invalid,
         queue |-> Invalid, ring |-> 1, block |-> FALSE, inThread |-> FALSE]

Init ==
    /\ nQueues \in Made
    /\ head = [idx |-> nQueues, tag |-> 0]
    /\ next = [q \in Queues |-> IF q <= nQueues THEN q - 1 ELSE Invalid]
    /\ rings = [q \in Queues |-> [r \in Rings |-> <<>>]]
    /\ acks = [q \in Queues |-> 0] /\ count = 0
    /\ thread = Loop /\ lock = Loop /\ wakeup = FALSE
    /\ frames = <<>> /\ yielding = FALSE /\ loop = "in" /\ leaves = 0
    /\ call = [c \in Callers |-> Idle]
    /\ calls = <<>>

-----------------------------------------------------------------------------
(* loop_invoke *)

At(c, pc) == call[c].pc = pc
Goto(c, pc) == call' = [call EXCEPT ![c].pc = pc]

(* The thread a caller runs on. *)
ThreadOf(c) == IF c = Nested THEN lock ELSE c

Linked(idx) == IF idx = Invalid THEN Invalid ELSE next[idx]

(* get_queue, to the exchange: the head of the stack and the link of the   *)
(* first queue.                                                            *)
Loaded(c) == [c EXCEPT !.pc = "get", !.head = head, !.next = Linked(head.idx)]

(* A thread calls invoke. *)
Called(c, block) ==
    /\ At(c, "idle") /\ Len(calls) < MaxCalls
    /\ calls' = Append(calls, [stamp |-> 0, block |-> FALSE, sync |-> FALSE, func |-> TRUE,
                               ran |-> 0, done |-> FALSE, reentered |-> FALSE,
                               returned |-> FALSE])
    /\ call' = [call EXCEPT ![c] = Loaded([Idle EXCEPT !.id = Len(calls) + 1, !.block = block])]

Invoke(t, block) ==
    /\ Called(t, block)
    /\ UNCHANGED <<queueVars, itemVars, loopVars, lock, frames>>

Obtained(c, q) ==
    call' = [call EXCEPT ![c] = [Idle EXCEPT !.pc = "stamp", !.id = call[c].id,
                                             !.block = call[c].block, !.queue = q]]

(* A plausible slip: the tag is not counted up. *)
Bug_TagKept(idx, tag) == [idx |-> idx, tag |-> tag]

Tagged(idx, tag) == [idx |-> idx, tag |-> tag + 1]

(* The exchange; when it fails it loads the head again. *)
Get(c) ==
    /\ At(c, "get") /\ call[c].head.idx # Invalid
    /\ IF head = call[c].head
       THEN Obtained(c, head.idx) /\ head' = Tagged(call[c].next, head.tag)
       ELSE call' = [call EXCEPT ![c] = Loaded(@)] /\ UNCHANGED head
    /\ UNCHANGED <<next, nQueues, itemVars, loopVars, lock, frames, calls>>

(* loop_create_queue, or another try after a while when there are too many. *)
Create(c) ==
    /\ At(c, "get") /\ call[c].head.idx = Invalid
    /\ IF nQueues < MaxQueues
       THEN Obtained(c, nQueues + 1) /\ nQueues' = nQueues + 1
       ELSE /\ head # call[c].head
            /\ call' = [call EXCEPT ![c] = Loaded(@)]
            /\ UNCHANGED nQueues
    /\ UNCHANGED <<head, next, itemVars, loopVars, lock, frames, calls>>

(* loop_queue_invoke: the loop's thread is loaded and the item stamped,    *)
(* in the overflow queue if there is no room.                              *)
Stamp(c) ==
    LET in == thread \in {None, ThreadOf(c)}
        ring == IF Len(rings[call[c].queue][1]) < Slots THEN 1 ELSE 2
    IN  /\ At(c, "stamp")
        /\ count' = count + 1
        /\ call' = [call EXCEPT ![c] = [@ EXCEPT !.pc = "write", !.inThread = in, !.ring = ring]]
        /\ calls' = [calls EXCEPT ![call[c].id] =
                        [@ EXCEPT !.stamp = count, !.block = call[c].block /\ ~in,
                                  !.sync = call[c].block \/ in]]
        /\ UNCHANGED <<queueVars, rings, acks, loopVars, lock, frames>>

(* The item is published. *)
Write(c) ==
    /\ At(c, "write")
    /\ rings' = [rings EXCEPT ![call[c].queue][call[c].ring] = Append(@, call[c].id)]
    /\ Goto(c, IF call[c].inThread THEN "put" ELSE "signal")
    /\ UNCHANGED <<queueVars, acks, count, loopVars, lock, frames, calls>>

(* A plausible slip: the loop is woken for blocking calls only. *)
Bug_WakeForBlocking(c) ==
    /\ At(c, "signal")
    /\ wakeup' = (wakeup \/ call[c].block)
    /\ Goto(c, IF call[c].block THEN "wait" ELSE "put")
    /\ UNCHANGED <<queueVars, itemVars, thread, yielding, loop, leaves, lock, frames, calls>>

Signal(c) ==
    /\ At(c, "signal")
    /\ wakeup' = TRUE
    /\ Goto(c, IF call[c].block THEN "wait" ELSE "put")
    /\ UNCHANGED <<queueVars, itemVars, thread, yielding, loop, leaves, lock, frames, calls>>

(* A blocking call reads its acknowledgement. *)
Wait(c) ==
    /\ At(c, "wait") /\ acks[call[c].queue] > 0
    /\ acks' = [acks EXCEPT ![call[c].queue] = @ - 1]
    /\ Goto(c, "put")
    /\ UNCHANGED <<queueVars, rings, count, loopVars, lock, frames, calls>>

Returns(c) ==
    /\ call' = [call EXCEPT ![c] = Idle]
    /\ calls' = [calls EXCEPT ![call[c].id].returned = TRUE]

(* put_queue: it tries until the head is the one it linked the queue to.   *)
Put(c) ==
    /\ At(c, "put")
    /\ next' = [next EXCEPT ![call[c].queue] = head.idx]
    /\ head' = Tagged(call[c].queue, head.tag)
    /\ IF call[c].inThread
       THEN call' = [call EXCEPT ![c] = [Idle EXCEPT !.pc = "flush", !.id = call[c].id]]
            /\ UNCHANGED calls
       ELSE Returns(c)
    /\ UNCHANGED <<nQueues, itemVars, loopVars, lock, frames>>

-----------------------------------------------------------------------------
(* flush_queues, under the lock.  A flush from within a flush changes      *)
(* flush_count for all the outer ones.                                     *)

Frame(owner, max) ==
    [owner |-> owner, left |-> max, item |-> 0, stale |-> FALSE, nests |-> FALSE]

Push(owner, max) ==
    frames' = <<Frame(owner, max)>> \o [k \in DOMAIN frames |-> [frames[k] EXCEPT !.stale = TRUE]]

Unbounded == MaxCalls + 1

Top == frames[1]
Flushes == frames # <<>>
SetTop(f) == frames' = [frames EXCEPT ![1] = f]

(* The oldest item of all queues and overflow queues. *)
Firsts == {w \in (1..nQueues) \X Rings : rings[w[1]][w[2]] # <<>>}
Oldest(w) ==
    /\ w \in Firsts
    /\ \A v \in Firsts :
          calls[Head(rings[w[1]][w[2]])].stamp <= calls[Head(rings[v[1]][v[2]])].stamp

(* The item is removed from its ring and acknowledged. *)
Advance(id, f) ==
    \E w \in Firsts :
        /\ Head(rings[w[1]][w[2]]) = id
        /\ rings' = [rings EXCEPT ![w[1]][w[2]] = Tail(@)]
        /\ acks' = IF calls[id].block THEN [acks EXCEPT ![w[1]] = @ + 1] ELSE acks
        /\ SetTop([f EXCEPT !.item = 0, !.left = @ - 1])

(* A plausible slip: the function is not removed from the item. *)
Bug_NotStolen(id) == [calls EXCEPT ![id].ran = @ + 1]

Steal(id) == [calls EXCEPT ![id] = [@ EXCEPT !.func = FALSE, !.ran = @ + 1]]

(* The oldest item: its function is taken out and called, or it was taken  *)
(* by an outer flush, whose function has not yet returned.                 *)
TakeItem ==
    /\ Flushes /\ Top.item = 0 /\ Top.left > 0
    /\ \E w \in Firsts :
          LET id == Head(rings[w[1]][w[2]])
          IN  /\ Oldest(w)
              /\ IF calls[id].func
                 THEN calls' = Steal(id) /\ SetTop([Top EXCEPT !.item = id]) /\ UNCHANGED <<rings, acks>>
                 ELSE Advance(id, Top) /\ UNCHANGED calls
    /\ UNCHANGED <<queueVars, count, loopVars, lock, call>>

(* The function invokes; in the thread of a loop that yields it is refused. *)
FunctionInvokes ==
    /\ Flushes /\ Top.item # 0 /\ ~(thread = lock /\ yielding)
    /\ Called(Nested, FALSE)
    /\ SetTop([Top EXCEPT !.nests = TRUE])
    /\ UNCHANGED <<queueVars, itemVars, loopVars, lock>>

(* The function returns.  If it flushed the queues, this flush is over. *)
FunctionReturns ==
    /\ Flushes /\ Top.item # 0 /\ (Top.nests => At(Nested, "idle"))
    /\ calls' = [calls EXCEPT ![Top.item].done = TRUE]
    /\ IF Top.stale THEN SetTop([Top EXCEPT !.item = 0, !.left = 0]) /\ UNCHANGED <<rings, acks>>
       ELSE Advance(Top.item, [Top EXCEPT !.nests = FALSE])
    /\ UNCHANGED <<queueVars, count, loopVars, lock, call>>

(* The flush is over, and whoever did it goes on. *)
FlushEnds ==
    /\ Flushes /\ Top.item = 0 /\ (Top.left = 0 \/ Firsts = {})
    /\ frames' = Tail(frames)
    /\ IF Top.owner = Loop
       THEN /\ loop' = CASE loop = "flush" -> "in" [] loop = "yield" -> "yielded"
                         [] loop = "leave" -> "out"
            /\ lock' = IF loop = "flush" THEN Loop ELSE None
            /\ yielding' = FALSE
            /\ UNCHANGED <<thread, wakeup, leaves, call, calls>>
       ELSE /\ Returns(Top.owner)
            /\ lock' = IF Top.owner = Nested THEN lock ELSE None
            /\ UNCHANGED loopVars
    /\ UNCHANGED <<queueVars, itemVars>>

(* An in-thread call flushes, with the lock when no thread runs the loop.  *)
Flush(c) ==
    /\ At(c, "flush") /\ (c = Nested \/ lock = None)
    /\ lock' = IF c = Nested THEN lock ELSE c
    /\ Goto(c, "flushing")
    /\ calls' = [id \in DOMAIN calls |->
                    IF \E k \in DOMAIN frames : frames[k].item = id
                    THEN [calls[id] EXCEPT !.reentered = TRUE] ELSE calls[id]]
    /\ Push(c, Unbounded)
    /\ UNCHANGED <<queueVars, itemVars, loopVars>>

-----------------------------------------------------------------------------
(* The loop's thread *)

LoopMoves(from, to) == loop = from /\ loop' = to

Enter ==
    /\ LoopMoves("out", "in") /\ lock = None
    /\ lock' = Loop /\ thread' = Loop
    /\ UNCHANGED <<queueVars, itemVars, wakeup, yielding, leaves, frames, call, calls>>

(* loop_iterate waits without the lock. *)
Poll ==
    /\ LoopMoves("in", "poll")
    /\ lock' = None
    /\ UNCHANGED <<queueVars, itemVars, thread, wakeup, yielding, leaves, frames, call, calls>>

Wakeup ==
    /\ LoopMoves("poll", "flush") /\ wakeup /\ lock = None
    /\ lock' = Loop /\ wakeup' = FALSE /\ Push(Loop, Unbounded)
    /\ UNCHANGED <<queueVars, itemVars, thread, yielding, leaves, call, calls>>

(* Another source, or the timeout. *)
OtherEvent ==
    /\ LoopMoves("poll", "in") /\ lock = None
    /\ lock' = Loop
    /\ UNCHANGED <<queueVars, itemVars, thread, wakeup, yielding, leaves, frames, call, calls>>

(* loop_yield of a loop that spins: some items, and the lock for a moment. *)
Yield ==
    /\ LoopMoves("in", "yield")
    /\ yielding' = TRUE /\ Push(Loop, YieldMax)
    /\ UNCHANGED <<queueVars, itemVars, thread, wakeup, leaves, lock, call, calls>>

YieldEnds ==
    /\ LoopMoves("yielded", "in") /\ lock = None
    /\ lock' = Loop
    /\ UNCHANGED <<queueVars, itemVars, thread, wakeup, yielding, leaves, frames, call, calls>>

Leave ==
    /\ LoopMoves("in", "leave") /\ leaves < MaxLeaves
    /\ leaves' = leaves + 1 /\ thread' = None /\ Push(Loop, Unbounded)
    /\ UNCHANGED <<queueVars, itemVars, wakeup, yielding, lock, call, calls>>

-----------------------------------------------------------------------------
Queueing(c) ==
    Get(c) \/ Create(c) \/ Stamp(c) \/ Write(c) \/ Signal(c) \/ Wait(c) \/ Put(c)
Flushing == TakeItem \/ FunctionInvokes \/ FunctionReturns \/ FlushEnds
Iterating == Poll \/ Wakeup \/ OtherEvent \/ Yield \/ YieldEnds \/ Leave

Next ==
    \/ \E t \in Threads, block \in BOOLEAN : Invoke(t, block)
    \/ \E c \in Callers : Queueing(c) \/ Flush(c)
    \/ Flushing \/ Enter \/ Iterating

Spec == Init /\ [][Next]_vars

-----------------------------------------------------------------------------
Holders(q) ==
    {c \in Callers : call[c].queue = q /\ call[c].pc \notin {"idle", "flush", "flushing"}}

OnStack ==
    LET upto[k \in 0..MaxQueues] ==
            IF k = 0 THEN {head.idx} \ {Invalid}
            ELSE upto[k - 1] \cup ({next[q] : q \in upto[k - 1]} \ {Invalid})
    IN  upto[MaxQueues]

(* A queue has one writer: each queue that was created is on the free stack *)
(* or with one caller of invoke, never both and never lost, although the   *)
(* stack has no lock and a queue may leave and come back between a caller's *)
(* reading of it and its exchange.                                         *)
QueueExclusive ==
    \A q \in 1..nQueues :
        Cardinality(Holders(q)) = IF q \in OnStack THEN 0 ELSE 1

(* "do not return until func has been called": a function is called once,  *)
(* however flushes nest; a call that waits, or flushes itself, returns     *)
(* after it; and an acknowledgement is for the call that holds the queue.  *)
(* When the function itself invokes in the loop's thread, the inner flush  *)
(* acknowledges the outer item, so the waiting caller may return before    *)
(* the function has.                                                       *)
RunOnce ==
    /\ \A id \in DOMAIN calls :
          LET k == calls[id]
          IN  k.ran <= 1 /\ (k.returned /\ k.sync => k.ran = 1 /\ (k.done \/ k.reentered))
    /\ \A q \in Queues :
          acks[q] > 0 =>
              /\ acks[q] = 1
              /\ \E c \in Holders(q) : call[c].pc \in {"signal", "wait"} /\ calls[call[c].id].ran = 1

Unread == {id \in DOMAIN calls : \E q \in Queues, r \in Rings : id \in Range(rings[q][r])}

(* Someone is still to flush: the wakeup event is set or about to be, the  *)
(* caller has yet to flush, or a flush of all items has not ended.         *)
FlushComes(id) ==
    \/ wakeup
    \/ \E c \in Callers : call[c].id = id /\ call[c].pc \in {"signal", "put", "flush"}
    \/ \E k \in DOMAIN frames : ~frames[k].stale /\ ~(frames[k].owner = Loop /\ yielding)

(* The called function wants a queue, and all are with callers that wait   *)
(* for the flush it is called from.                                        *)
Starved ==
    At(Nested, "get") /\ \A q \in Queues : \E c \in Holders(q) : At(c, "wait")

(* No call is forgotten: while an item is unread some thread is bound to   *)
(* flush after it was written, also when the loop is left meanwhile, a     *)
(* yield reads some items only or an inner flush ends an outer one; and a  *)
(* caller that waits without an acknowledgement has its item still in the  *)
(* queue, to be called or being called.  The threads come to a stop only   *)
(* when QUEUES_MAX callers wait and the function called needs one more.    *)
NoCallForgotten ==
    /\ \A id \in Unread :
          IF calls[id].func THEN FlushComes(id)
          ELSE \E k \in DOMAIN frames : frames[k].item = id
    /\ \A c \in Callers : At(c, "wait") /\ acks[call[c].queue] = 0 => call[c].id \in Unread
    /\ ENABLED Next \/ Starved
=============================================================================
