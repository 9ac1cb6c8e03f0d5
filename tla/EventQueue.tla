----------------------------- MODULE EventQueue -----------------------------
(***************************************************************************)
(* compysition.queue.Queue as operators on a queue record.                 *)
(*                                                                         *)
(* A Queue is a gevent queue with a "has content" event beside it.  The    *)
(* record keeps                                                            *)
(*   items    what is on the queue, head first;                            *)
(*   putters  the greenlets asleep in a blocking put, first come first,    *)
(*            with the item each one brings;                               *)
(*   content  the has_content event a consumer waits on;                   *)
(*   unlock   a get has asked the hub to let putters in.                   *)
(* gevent runs one greenlet at a time and switches only inside blocking    *)
(* calls, so each operator is a segment of code that nothing interrupts.   *)
(***************************************************************************)
EXTENDS Integers, Sequences

CONSTANT Size        \* maxsize of every queue, 0 for no limit

ASSUME SizeAssumption == Size \in Nat

EmptyQueue == [items |-> <<>>, putters |-> <<>>, content |-> FALSE, unlock |-> FALSE]

HasRoom(q) == Size = 0 \/ Len(q.items) < Size

(* Faulty forms of the operators, against which the runs are tried: a put  *)
(* that places the event before the others,                                *)
PutNewestFirst(q, x, by) ==
  IF HasRoom(q)
    THEN [q EXCEPT !.items = <<x>> \o @, !.content = TRUE]
    ELSE [q EXCEPT !.putters = Append(@, [item |-> x, by |-> by])]

(* a get that clears content although events are left,                     *)
GetAndClear(q) ==
  [q EXCEPT !.items = Tail(@), !.content = FALSE, !.unlock = @ \/ q.putters # <<>>]

(* one that forgets the putters,                                           *)
GetNoUnlock(q) == [q EXCEPT !.items = Tail(@)]

(* an unlock that puts the waiter itself on the queue, and one that keeps  *)
(* the waiter it has served.                                               *)
AdmitWaiter(q) == [q EXCEPT !.items   = Append(@, Head(q.putters)),
                            !.putters = Tail(@),
                            !.content = TRUE]

AdmitAgain(q) == [q EXCEPT !.items   = Append(@, Head(q.putters).item),
                           !.content = TRUE]

(* Queue.put with the default block=True: with room the item is on the     *)
(* queue at once, even when others have been waiting longer; without room  *)
(* greenlet "by" goes to sleep behind the other putters.                   *)
Put(q, x, by) ==
  IF HasRoom(q)
    THEN [q EXCEPT !.items = Append(@, x), !.content = TRUE]
    ELSE [q EXCEPT !.putters = Append(@, [item |-> x, by |-> by])]

(* Queue.get on a queue with items.  The comparison of the method qsize    *)
(* with 0 is never true, so taking the last item leaves content set.       *)
Get(q) == [q EXCEPT !.items = Tail(@), !.unlock = @ \/ q.putters # <<>>]

(* Queue.get on an empty queue: content is cleared, QueueEmpty is raised.  *)
GetEmpty(q) == [q EXCEPT !.content = FALSE]

(* One turn of the loop the hub runs on behalf of a get: the oldest putter *)
(* gets its item on the queue, wakes up and sets content before it yields. *)
CanAdmit(q) == q.unlock /\ q.putters # <<>> /\ HasRoom(q)

Admit(q) == [q EXCEPT !.items   = Append(@, Head(q.putters).item),
                      !.putters = Tail(@),
                      !.content = TRUE]

(* The loop ends when nobody waits or the queue is full again.             *)
CanEndUnlock(q) == q.unlock /\ ~(q.putters # <<>> /\ HasRoom(q))

EndUnlock(q) == [q EXCEPT !.unlock = FALSE]

-----------------------------------------------------------------------------
(* What the operators keep true of one queue: a consumer is never left     *)
(* asleep beside an item,                                                  *)
ItemsAnnounced(q) == q.items # <<>> => q.content

(* a putter is never left asleep beside a free slot that no pending unlock *)
(* is going to hand out,                                                   *)
PuttersServed(q) == q.putters # <<>> => ~HasRoom(q) \/ q.unlock

(* and the limit holds.                                                    *)
WithinSize(q) == Size = 0 \/ Len(q.items) <= Size

QueueSound(q) == ItemsAnnounced(q) /\ PuttersServed(q) /\ WithinSize(q)

QueueType(Item, Greenlet) ==
  [items : Seq(Item), putters : Seq([item : Item, by : Greenlet]),
   content : BOOLEAN, unlock : BOOLEAN]
=============================================================================
