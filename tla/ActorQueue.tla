----------------------------- MODULE ActorQueue -----------------------------
(***************************************************************************)
(* One inbound queue of an actor at work: greenlets that put events on it, *)
(* the hub, the actor's consumer greenlet, and a greenlet that calls       *)
(* QueuePool.join (wait_until_empty).                                      *)
(*                                                                         *)
(* A step is what one greenlet does up to where it can yield, or one turn  *)
(* of its loop.  The consumer takes one event a turn, which is what a      *)
(* blocking_consume actor does when its consume yields.                    *)
(***************************************************************************)
EXTENDS EventQueue, FiniteSets

CONSTANTS Producer,          \* greenlets that put events on the queue
          Burst              \* bound: puts each of them makes

ASSUME BurstAssumption == Burst \in Nat

VARIABLES queue,             \* the queue record
          sent,              \* puts each producer has begun
          parked,            \* producers asleep in a put
          running,           \* the actor's run event
          consumed,          \* the events taken so far, in order
          joiner             \* the greenlet in wait_until_empty

vars == <<queue, sent, parked, running, consumed, joiner>>

Event == [from : Producer, n : 1..Burst]

TypeOK ==
  /\ queue \in QueueType(Event, Producer)
  /\ sent \in [Producer -> 0..Burst]
  /\ parked \in SUBSET Producer
  /\ running \in BOOLEAN
  /\ consumed \in Seq(Event)
  /\ joiner \in {"idle", "waiting", "returned"}

Init ==
  /\ queue = EmptyQueue
  /\ sent = [p \in Producer |-> 0]
  /\ parked = {}
  /\ running = FALSE
  /\ consumed = <<>>
  /\ joiner = "idle"

-----------------------------------------------------------------------------
(* Actor._send: put, then sleep(0).                                        *)
Send(p) ==
  /\ p \notin parked
  /\ sent[p] < Burst
  /\ sent' = [sent EXCEPT ![p] = @ + 1]
  /\ queue' = Put(queue, [from |-> p, n |-> sent[p] + 1], p)
  /\ parked' = IF HasRoom(queue) THEN parked ELSE parked \cup {p}
  /\ UNCHANGED <<running, consumed, joiner>>

(* The hub serves the putters after a get.                                 *)
WakePutter ==
  /\ CanAdmit(queue)
  /\ queue' = Admit(queue)
  /\ parked' = parked \ {Head(queue.putters).by}
  /\ UNCHANGED <<sent, running, consumed, joiner>>

UnlockEnds ==
  /\ CanEndUnlock(queue)
  /\ queue' = EndUnlock(queue)
  /\ UNCHANGED <<sent, parked, running, consumed, joiner>>

(* Actor.start                                                             *)
Start ==
  /\ ~running
  /\ running' = TRUE
  /\ UNCHANGED <<queue, sent, parked, consumed, joiner>>

(* The consumer's loop: wait_until_content lets it pass, get finds an      *)
(* event ...                                                               *)
Consume ==
  /\ running
  /\ queue.content
  /\ queue.items # <<>>
  /\ consumed' = Append(consumed, Head(queue.items))
  /\ queue' = Get(queue)
  /\ UNCHANGED <<sent, parked, running, joiner>>

(* ... or finds none.                                                      *)
ConsumeNothing ==
  /\ running
  /\ queue.content
  /\ queue.items = <<>>
  /\ queue' = GetEmpty(queue)
  /\ UNCHANGED <<sent, parked, running, consumed, joiner>>

(* Queue.wait_until_empty is called, and returns once has_content is set.  *)
JoinCall ==
  /\ joiner = "idle"
  /\ joiner' = "waiting"
  /\ UNCHANGED <<queue, sent, parked, running, consumed>>

JoinReturn ==
  /\ joiner = "waiting"
  /\ queue.content
  /\ joiner' = "returned"
  /\ UNCHANGED <<queue, sent, parked, running, consumed>>

Next ==
  \/ \E p \in Producer : Send(p)
  \/ WakePutter \/ UnlockEnds
  \/ Start \/ Consume \/ ConsumeNothing
  \/ JoinCall \/ JoinReturn

Spec == Init /\ [][Next]_vars

(* The hub runs every greenlet that is ready to run in its turn, and a     *)
(* director starts its actors.  Nobody has to call join.                   *)
Fairness ==
  /\ \A p \in Producer : WF_vars(Send(p))
  /\ WF_vars(WakePutter) /\ WF_vars(UnlockEnds)
  /\ WF_vars(Start) /\ WF_vars(Consume) /\ WF_vars(ConsumeNothing)
  /\ WF_vars(JoinReturn)

FairSpec == Spec /\ Fairness

-----------------------------------------------------------------------------
(* The three promises of one queue record (ItemsAnnounced, PuttersServed,  *)
(* WithinSize): no put, get or unlock, in any interleaving, leaves the     *)
(* consumer asleep beside an event or a putter asleep beside a free slot.  *)
NoLostWakeup == QueueSound(queue)

(* All events so far: consumed, queued, and those their producers are      *)
(* asleep with.                                                            *)
Flow == consumed \o queue.items \o [i \in DOMAIN queue.putters |-> queue.putters[i].item]

Rising(s) == \A i, j \in DOMAIN s : i < j /\ s[i].from = s[j].from => s[i].n < s[j].n

(* The events of one producer are neither lost nor doubled nor reordered:  *)
(* on their way are just those it has begun to put, in this order.  Puts   *)
(* of different producers may overtake one another: a put that finds room  *)
(* does not queue up behind putters.                                       *)
StreamsIntact ==
  /\ Rising(Flow)
  /\ \A p \in Producer :
       {Flow[i].n : i \in {j \in DOMAIN Flow : Flow[j].from = p}} = 1..sent[p]

(* Queue, putters and consumer together are a bounded first-in first-out   *)
(* channel that keeps delivering: accepting an event is the moment it is   *)
(* placed on the queue, and consumption follows that order.                *)
Channel == INSTANCE EventChannel
             WITH Message <- Event, Limit <- Size, pending <- queue.items,
                  delivered <- consumed, open <- running

ImplementsChannel == Channel!Spec

(* Every put returns and every event is consumed in the end, through any   *)
(* number of full queues on the way.                                       *)
EverythingConsumed ==
  <>[](parked = {} /\ Len(consumed) = Burst * Cardinality(Producer))
=============================================================================
