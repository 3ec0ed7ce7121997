----------------------------- MODULE WorkQueue -------------------------------
(***************************************************************************)
(* The main loop's queue of deferred calls, src/pipewire/work-queue.c.  An *)
(* item waits for the answer to an asynchronous call (seq), or is a        *)
(* barrier (res = -EBUSY) that runs only at the head of the list, or runs  *)
(* in the next pass.  The operators take the queue w, a record of its      *)
(* work_list and of the state of its wakeup event, and return the new one. *)
(***************************************************************************)
EXTENDS Integers, Sequences, SequencesExt

NoSeq == 0     \* SPA_ID_INVALID as the seq of an item
NoId == 0      \* SPA_ID_INVALID as an id

EmptyQueue == [items |-> <<>>, signalled |-> FALSE]

(* pw_work_queue_add.  Only equality of ids is ever tested: the next value *)
(* of the 32-bit counter is an id nobody holds, and NoId for an item whose *)
(* caller does not keep the id.                                            *)
WorkAdd(w, id, obj, seq, func, barrier) ==
    [items |-> Append(w.items, [id |-> id, obj |-> obj, seq |-> seq, func |-> func,
                                barrier |-> barrier]),
     signalled |-> w.signalled \/ seq = NoSeq]

(* pw_work_queue_cancel that forgets to signal the queue's event. *)
Bug_CancelSilent(w, obj) ==
    [w EXCEPT !.items = [i \in DOMAIN w.items |->
                      IF w.items[i].obj = obj
                      THEN [w.items[i] EXCEPT !.seq = NoSeq, !.func = "none"]
                      ELSE w.items[i]]]

(* pw_work_queue_cancel of all the items of obj: they stay on the list     *)
(* with nothing left to call.                                              *)
WorkCancel(w, obj) ==
    LET hit == {i \in DOMAIN w.items : w.items[i].obj = obj}
    IN  [items |-> [i \in DOMAIN w.items |->
                      IF i \in hit THEN [w.items[i] EXCEPT !.seq = NoSeq, !.func = "none"]
                                   ELSE w.items[i]],
         signalled |-> w.signalled \/ hit # {}]

(* pw_work_queue_complete that forgets to signal the queue's event. *)
Bug_CompleteSilent(w, obj, seq) ==
    [w EXCEPT !.items = [i \in DOMAIN w.items |->
                      IF w.items[i].obj = obj /\ w.items[i].seq = seq
                      THEN [w.items[i] EXCEPT !.seq = NoSeq] ELSE w.items[i]]]

(* pw_work_queue_complete. *)
WorkComplete(w, obj, seq) ==
    LET hit == {i \in DOMAIN w.items : w.items[i].obj = obj /\ w.items[i].seq = seq}
    IN  [items |-> [i \in DOMAIN w.items |->
                      IF i \in hit THEN [w.items[i] EXCEPT !.seq = NoSeq] ELSE w.items[i]],
         signalled |-> w.signalled \/ hit # {}]

(* What process_work_queue finds at the item at index i: it may be taken   *)
(* off the list and its function called.                                   *)
Runnable(w, i) ==
    /\ w.items[i].seq = NoSeq
    /\ ~w.items[i].barrier \/ i = 1

(* Where the safe iteration goes from index i: the next item is read       *)
(* before the function of item i is called, so that an item added by the   *)
(* last function is left to the next pass.  0 is the end of the list.      *)
AfterSkip(w, i) == IF i < Len(w.items) THEN i + 1 ELSE 0
AfterTake(w, i) == IF i < Len(w.items) THEN i ELSE 0

Take(w, i) == [w EXCEPT !.items = RemoveAt(w.items, i)]
=============================================================================
