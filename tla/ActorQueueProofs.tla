-------------------------- MODULE ActorQueueProofs --------------------------
(***************************************************************************)
(* Proofs about ActorQueue for every Size, every set of producers and      *)
(* every Burst.                                                            *)
(***************************************************************************)
EXTENDS ActorQueue, TLAPS

(* What a sequence holds.                                                  *)
Entries(s) == {s[i] : i \in DOMAIN s}

(* The items that sleeping putters bring.                                  *)
Brought(putters) == [i \in DOMAIN putters |-> putters[i].item]

Held(q) == Entries(q.items)

Awaited(q) == Entries(Brought(q.putters))

(* The head of a sequence is in its set, and so is what the tail holds.    *)
LEMMA HeadTail ==
  ASSUME NEW S, NEW s \in Seq(S), s # <<>>
  PROVE  Head(s) \in S /\ Tail(s) \in Seq(S)
  OBVIOUS

(* Appending to a sequence adds one entry,                                 *)
LEMMA AppendEntries ==
  ASSUME NEW S, NEW s \in Seq(S), NEW x \in S
  PROVE  Entries(Append(s, x)) = Entries(s) \cup {x}
<1> DEFINE n == Len(s)
           z == Append(s, x)
<1>1. /\ n \in Nat /\ DOMAIN s = 1..n /\ DOMAIN z = 1..(n + 1)
      /\ \A i \in 1..n : z[i] = s[i]
      /\ z[n + 1] = x
  OBVIOUS
<1> HIDE DEF n, z
<1>2. Entries(z) = Entries(s) \cup {x}
  <2>1. ASSUME NEW y \in Entries(z) PROVE y \in Entries(s) \cup {x}
    <3>1. PICK i \in 1..(n + 1) : y = z[i]
      BY <1>1 DEF Entries
    <3>2. i \in 1..n \/ i = n + 1
      BY <1>1
    <3>3. QED
      BY <1>1, <3>1, <3>2 DEF Entries
  <2>2. ASSUME NEW y \in Entries(s) \cup {x} PROVE y \in Entries(z)
    <3>1. (\E i \in 1..n : y = z[i]) \/ y = z[n + 1]
      BY <1>1 DEF Entries
    <3>2. 1..n \subseteq 1..(n + 1) /\ n + 1 \in 1..(n + 1)
      BY <1>1
    <3>3. QED
      BY <1>1, <3>1, <3>2 DEF Entries
  <2>3. QED
    BY <2>1, <2>2
<1>3. QED
  BY <1>2 DEF z

(* and taking the head removes it.                                         *)
LEMMA TailEntries ==
  ASSUME NEW S, NEW s \in Seq(S), s # <<>>
  PROVE  /\ Head(s) \in Entries(s)
         /\ Entries(s) = Entries(Tail(s)) \cup {Head(s)}
<1> DEFINE n == Len(s)
           z == Tail(s)
           h == Head(s)
<1>1. /\ n \in Nat /\ n # 0 /\ DOMAIN s = 1..n /\ DOMAIN z = 1..(n - 1)
      /\ \A i \in 1..(n - 1) : z[i] = s[i + 1]
      /\ h = s[1]
  OBVIOUS
<1> HIDE DEF n, z, h
<1>2. h \in Entries(s)
  BY <1>1 DEF Entries
<1>3. ASSUME NEW y \in Entries(s) PROVE y \in Entries(z) \cup {h}
  <2>1. PICK i \in 1..n : y = s[i]
    BY <1>1 DEF Entries
  <2>2. CASE i = 1
    BY <1>1, <2>1, <2>2
  <2>3. CASE i # 1
    <3>1. i - 1 \in 1..(n - 1) /\ (i - 1) + 1 = i
      BY <1>1, <2>3
    <3>2. y = z[i - 1]
      BY <1>1, <2>1, <3>1
    <3>3. QED
      BY <1>1, <3>1, <3>2 DEF Entries
  <2>4. QED
    BY <2>2, <2>3
<1>4. ASSUME NEW y \in Entries(z) PROVE \E i \in 1..n : i # 1 /\ y = s[i]
  <2>1. PICK i \in 1..(n - 1) : y = z[i]
    BY <1>1 DEF Entries
  <2>2. i + 1 \in 1..n /\ i + 1 # 1 /\ y = s[i + 1]
    BY <1>1, <2>1
  <2>3. QED
    BY <2>2
<1>5. Entries(s) = Entries(z) \cup {h}
  <2>1. \A y \in Entries(z) : y \in Entries(s)
    BY <1>1, <1>4 DEF Entries
  <2>2. QED
    BY <1>2, <1>3, <2>1
<1>6. QED
  BY <1>2, <1>5 DEF h, z

(* A sequence is the function of its places.                               *)
LEMMA SequenceIsFunction ==
  ASSUME NEW S, NEW s \in Seq(S)
  PROVE  s = [i \in 1..Len(s) |-> s[i]]
  OBVIOUS

(* What the putters bring are items, one for each,                         *)
LEMMA BroughtType ==
  ASSUME NEW Item, NEW R, \A r \in R : r.item \in Item, NEW s \in Seq(R)
  PROVE  Brought(s) \in Seq(Item) /\ Len(Brought(s)) = Len(s)
<1>1. \A i \in 1..Len(s) : s[i].item \in Item
  OBVIOUS
<1>2. Brought(s) = [i \in 1..Len(s) |-> s[i].item]
  BY DEF Brought
<1>3. QED
  BY <1>1, <1>2

(* and they follow the putters when one goes to sleep                      *)
LEMMA BroughtAppend ==
  ASSUME NEW R, NEW s \in Seq(R), NEW r \in R
  PROVE  Brought(Append(s, r)) = Append(Brought(s), r.item)
<1> DEFINE n == Len(s)
           b == Brought(s)
           z == Append(s, r)
           x == r.item
           Item == {e.item : e \in R}
<1>1. /\ n \in Nat /\ DOMAIN s = 1..n
      /\ \A i \in 1..n : s[i] \in R
      /\ DOMAIN z = 1..(n + 1) /\ z[n + 1] = r
      /\ \A i \in 1..n : z[i] = s[i]
  OBVIOUS
<1>2. b = [i \in 1..n |-> s[i].item]
  BY <1>1 DEF Brought
<1>3. b \in Seq(Item) /\ Len(b) = n /\ \A i \in 1..n : b[i] = s[i].item
  <2>1. \A i \in 1..n : s[i].item \in Item
    BY <1>1
  <2> HIDE DEF Item
  <2>2. QED
    BY <1>1, <1>2, <2>1
<1>4. x \in Item
  OBVIOUS
<1> HIDE DEF Item
<1>5. /\ Append(b, x) \in Seq(Item) /\ Len(Append(b, x)) = n + 1
      /\ Append(b, x)[n + 1] = x
      /\ \A i \in 1..n : Append(b, x)[i] = b[i]
  BY <1>3, <1>4
<1>6. Append(b, x) = [i \in 1..(n + 1) |-> Append(b, x)[i]]
  BY <1>5, SequenceIsFunction
<1>7. ASSUME NEW i \in 1..(n + 1) PROVE z[i].item = Append(b, x)[i]
  <2>1. i \in 1..n \/ i = n + 1
    BY <1>1
  <2>2. QED
    BY <1>1, <1>3, <1>5, <2>1
<1>8. Brought(z) = Append(b, x)
  <2> HIDE DEF z, b
  <2>1. QED
    BY <1>1, <1>6, <1>7 DEF Brought
<1>9. QED
  BY <1>8

(* or wakes up.                                                            *)
LEMMA BroughtTail ==
  ASSUME NEW Item, NEW R, \A r \in R : r.item \in Item,
         NEW s \in Seq(R), s # <<>>
  PROVE  /\ Brought(s) \in Seq(Item)
         /\ Brought(s) # <<>>
         /\ Head(Brought(s)) = Head(s).item
         /\ Brought(Tail(s)) = Tail(Brought(s))
<1> DEFINE n == Len(s)
           b == Brought(s)
<1>1. /\ n \in Nat /\ DOMAIN s = 1..n /\ n # 0
      /\ \A i \in 1..n : s[i] \in R
      /\ Head(s) = s[1] /\ 1 \in 1..n
      /\ DOMAIN Tail(s) = 1..(n - 1)
      /\ \A i \in 1..(n - 1) : Tail(s)[i] = s[i + 1]
  OBVIOUS
<1>2. b = [i \in 1..n |-> s[i].item]
  BY <1>1 DEF Brought
<1>3. b \in Seq(Item) /\ Len(b) = n /\ \A i \in 1..n : b[i] = s[i].item
  BY <1>1, <1>2
<1>4. b # <<>> /\ Head(b) = b[1]
  BY <1>1, <1>3
<1>5. /\ Tail(b) \in Seq(Item) /\ Len(Tail(b)) = n - 1
      /\ \A i \in 1..(n - 1) : Tail(b)[i] = b[i + 1]
  BY <1>3, <1>4
<1>6. Tail(b) = [i \in 1..(n - 1) |-> Tail(b)[i]]
  BY <1>5, SequenceIsFunction
<1>7. ASSUME NEW i \in 1..(n - 1) PROVE Tail(s)[i].item = Tail(b)[i]
  <2>1. i + 1 \in 1..n
    BY <1>1
  <2>2. QED
    BY <1>1, <1>3, <1>5, <2>1
<1>8. Brought(Tail(s)) = Tail(b)
  <2> HIDE DEF b
  <2>1. QED
    BY <1>1, <1>6, <1>7 DEF Brought
<1>9. QED
  BY <1>1, <1>3, <1>4, <1>8

(* whatever the items and the greenlets are.                               *)
LEMMA PutKeeps ==
  ASSUME NEW Item, NEW Greenlet, NEW q \in QueueType(Item, Greenlet),
         NEW x \in Item, NEW g \in Greenlet
  PROVE  /\ Put(q, x, g) \in QueueType(Item, Greenlet)
         /\ QueueSound(q) => QueueSound(Put(q, x, g))
<1>1. CASE HasRoom(q)
  <2>1. /\ Append(q.items, x) \in Seq(Item)
        /\ Len(Append(q.items, x)) = Len(q.items) + 1
        /\ Len(q.items) \in Nat
    BY DEF QueueType
  <2>2. Put(q, x, g) = [q EXCEPT !.items = Append(q.items, x), !.content = TRUE]
    BY <1>1 DEF Put
  <2>3. Put(q, x, g) \in QueueType(Item, Greenlet)
    BY <2>1, <2>2 DEF QueueType
  <2>4. /\ Put(q, x, g).items = Append(q.items, x)
        /\ Put(q, x, g).content = TRUE
        /\ Put(q, x, g).putters = q.putters
        /\ Put(q, x, g).unlock = q.unlock
    BY <2>2 DEF QueueType
  <2>5. WithinSize(Put(q, x, g))
    BY <1>1, <2>1, <2>4, SizeAssumption DEF HasRoom, WithinSize
  <2>6. ItemsAnnounced(Put(q, x, g))
    BY <2>4 DEF ItemsAnnounced
  <2>7. QueueSound(q) => PuttersServed(Put(q, x, g))
    BY <1>1, <2>4 DEF QueueSound, PuttersServed
  <2>8. QED
    BY <2>3, <2>5, <2>6, <2>7 DEF QueueSound
<1>2. CASE ~HasRoom(q)
  <2>1. Append(q.putters, [item |-> x, by |-> g]) \in Seq([item : Item, by : Greenlet])
    BY DEF QueueType
  <2>2. QED
    BY <1>2, <2>1, SizeAssumption
       DEF Put, HasRoom, QueueType, QueueSound, ItemsAnnounced, PuttersServed, WithinSize
<1>3. QED
  BY <1>1, <1>2

(* get of a queue with an item keeps type and soundness.                   *)
LEMMA GetKeeps ==
  ASSUME NEW Item, NEW Greenlet, NEW q \in QueueType(Item, Greenlet),
         q.items # <<>>
  PROVE  /\ Get(q) \in QueueType(Item, Greenlet)
         /\ Head(q.items) \in Item
         /\ QueueSound(q) => QueueSound(Get(q))
<1>1. /\ Tail(q.items) \in Seq(Item)
      /\ Head(q.items) \in Item
      /\ Len(Tail(q.items)) = Len(q.items) - 1
      /\ Len(q.items) \in Nat
  BY DEF QueueType
<1>2. /\ Get(q).items = Tail(q.items)
      /\ Get(q).content = q.content
      /\ Get(q).putters = q.putters
      /\ Get(q).unlock = (q.unlock \/ q.putters # <<>>)
  BY DEF Get, QueueType
<1>3. Get(q) \in QueueType(Item, Greenlet)
  BY <1>1 DEF Get, QueueType
<1>4. QueueSound(q) => WithinSize(Get(q))
  BY <1>1, <1>2, SizeAssumption DEF QueueSound, WithinSize
<1>5. QueueSound(q) => ItemsAnnounced(Get(q))
  BY <1>2 DEF QueueSound, ItemsAnnounced
<1>6. PuttersServed(Get(q))
  BY <1>2 DEF PuttersServed
<1>7. QED
  BY <1>1, <1>3, <1>4, <1>5, <1>6 DEF QueueSound

(* get of an empty queue, which clears has_content, keeps them too.        *)
LEMMA GetEmptyKeeps ==
  ASSUME NEW Item, NEW Greenlet, NEW q \in QueueType(Item, Greenlet),
         q.items = <<>>
  PROVE  /\ GetEmpty(q) \in QueueType(Item, Greenlet)
         /\ QueueSound(q) => QueueSound(GetEmpty(q))
  BY DEF GetEmpty, HasRoom, QueueType, QueueSound, ItemsAnnounced, PuttersServed, WithinSize

(* So does the hub letting a sleeping putter on.                           *)
LEMMA AdmitKeeps ==
  ASSUME NEW Item, NEW Greenlet, NEW q \in QueueType(Item, Greenlet),
         CanAdmit(q)
  PROVE  /\ Admit(q) \in QueueType(Item, Greenlet)
         /\ Head(q.putters) \in [item : Item, by : Greenlet]
         /\ QueueSound(q) => QueueSound(Admit(q))
<1>0. q.unlock /\ q.putters # <<>>
  BY DEF CanAdmit
<1>1. /\ Head(q.putters) \in [item : Item, by : Greenlet]
      /\ Tail(q.putters) \in Seq([item : Item, by : Greenlet])
  <2>1. q.putters # <<>>
    BY <1>0
  <2>2. q.putters \in Seq([item : Item, by : Greenlet])
    BY DEF QueueType
  <2>3. QED
    BY <2>1, <2>2, HeadTail
<1> DEFINE x == Head(q.putters).item
<1>2. x \in Item
  BY <1>1
<1>3. /\ Append(q.items, x) \in Seq(Item)
      /\ Len(Append(q.items, x)) = Len(q.items) + 1
      /\ Len(q.items) \in Nat
  BY <1>2 DEF QueueType
<1>4. /\ Admit(q).items = Append(q.items, x)
      /\ Admit(q).content = TRUE
      /\ Admit(q).putters = Tail(q.putters)
      /\ Admit(q).unlock = q.unlock
  BY DEF Admit, QueueType
<1>5. Admit(q) \in QueueType(Item, Greenlet)
  BY <1>1, <1>3 DEF Admit, QueueType
<1>6. WithinSize(Admit(q))
  BY <1>3, <1>4, SizeAssumption DEF CanAdmit, HasRoom, WithinSize
<1>7. ItemsAnnounced(Admit(q)) /\ PuttersServed(Admit(q))
  BY <1>0, <1>4 DEF ItemsAnnounced, PuttersServed
<1>8. QED
  BY <1>1, <1>5, <1>6, <1>7 DEF QueueSound

(* So does the hub finding nobody to let on, or no room.                   *)
LEMMA EndUnlockKeeps ==
  ASSUME NEW Item, NEW Greenlet, NEW q \in QueueType(Item, Greenlet),
         CanEndUnlock(q)
  PROVE  /\ EndUnlock(q) \in QueueType(Item, Greenlet)
         /\ QueueSound(q) => QueueSound(EndUnlock(q))
  BY DEF EndUnlock, CanEndUnlock, HasRoom, QueueType, QueueSound,
         ItemsAnnounced, PuttersServed, WithinSize

(* A new queue has its type and is sound.                                  *)
LEMMA EmptyQueueSound ==
  ASSUME NEW Item, NEW Greenlet
  PROVE  EmptyQueue \in QueueType(Item, Greenlet) /\ QueueSound(EmptyQueue)
  BY SizeAssumption
     DEF EmptyQueue, HasRoom, QueueType, QueueSound, ItemsAnnounced, PuttersServed, WithinSize

-----------------------------------------------------------------------------
(* The state has its type and the queue is sound: inductive as it stands.  *)
IInv == TypeOK /\ NoLostWakeup

(* The invariant holds before anything is sent.                            *)
LEMMA InitIInv == Init => IInv
<1> SUFFICES ASSUME Init PROVE IInv
  OBVIOUS
<1>1. queue \in QueueType(Event, Producer) /\ QueueSound(queue)
  BY EmptyQueueSound DEF Init
<1>2. sent \in [Producer -> 0..Burst]
  BY BurstAssumption DEF Init
<1>3. consumed \in Seq(Event)
  BY DEF Init
<1>4. parked \in SUBSET Producer /\ running \in BOOLEAN
  BY DEF Init
<1>5. joiner \in {"idle", "waiting", "returned"}
  BY DEF Init
<1>6. QED
  BY <1>1, <1>2, <1>3, <1>4, <1>5 DEF IInv, TypeOK, NoLostWakeup

(* Every step of a producer, the consumer, the hub or a join keeps it.     *)
LEMMA StepIInv == IInv /\ [Next]_vars => IInv'
<1> SUFFICES ASSUME IInv, [Next]_vars PROVE IInv'
  OBVIOUS
<1> USE DEF IInv, TypeOK, NoLostWakeup
<1>1. ASSUME NEW p \in Producer, Send(p) PROVE IInv'
  <2>1. [from |-> p, n |-> sent[p] + 1] \in Event
    BY <1>1, BurstAssumption DEF Send, Event
  <2>2. queue' \in QueueType(Event, Producer) /\ QueueSound(queue')
    BY <1>1, <2>1, PutKeeps DEF Send
  <2>3. sent' \in [Producer -> 0..Burst]
    BY <1>1, BurstAssumption DEF Send
  <2>4. parked' \in SUBSET Producer
    BY <1>1 DEF Send
  <2>5. QED
    BY <1>1, <2>2, <2>3, <2>4 DEF Send, QueueSound, ItemsAnnounced, PuttersServed, WithinSize, HasRoom
<1>2. CASE WakePutter
  <2>1. queue' \in QueueType(Event, Producer) /\ QueueSound(queue')
    BY <1>2, AdmitKeeps DEF WakePutter
  <2>2. QED
    BY <1>2, <2>1 DEF WakePutter, QueueSound, ItemsAnnounced, PuttersServed, WithinSize, HasRoom
<1>3. CASE UnlockEnds
  <2>1. queue' \in QueueType(Event, Producer) /\ QueueSound(queue')
    BY <1>3, EndUnlockKeeps DEF UnlockEnds
  <2>2. QED
    BY <1>3, <2>1 DEF UnlockEnds, QueueSound, ItemsAnnounced, PuttersServed, WithinSize, HasRoom
<1>4. CASE Start
  BY <1>4 DEF Start, QueueSound, ItemsAnnounced, PuttersServed, WithinSize, HasRoom
<1>5. CASE Consume
  <2>1. queue' \in QueueType(Event, Producer) /\ QueueSound(queue')
        /\ Head(queue.items) \in Event
    BY <1>5, GetKeeps DEF Consume
  <2>2. QED
    BY <1>5, <2>1 DEF Consume, QueueSound, ItemsAnnounced, PuttersServed, WithinSize, HasRoom
<1>6. CASE ConsumeNothing
  <2>1. queue' \in QueueType(Event, Producer) /\ QueueSound(queue')
    BY <1>6, GetEmptyKeeps DEF ConsumeNothing
  <2>2. QED
    BY <1>6, <2>1 DEF ConsumeNothing, QueueSound, ItemsAnnounced, PuttersServed, WithinSize, HasRoom
<1>7. CASE JoinCall
  BY <1>7 DEF JoinCall, QueueSound, ItemsAnnounced, PuttersServed, WithinSize, HasRoom
<1>8. CASE JoinReturn
  BY <1>8 DEF JoinReturn, QueueSound, ItemsAnnounced, PuttersServed, WithinSize, HasRoom
<1>9. CASE UNCHANGED vars
  BY <1>9 DEF vars, QueueSound, ItemsAnnounced, PuttersServed, WithinSize, HasRoom
<1>10. QED
  BY <1>1, <1>2, <1>3, <1>4, <1>5, <1>6, <1>7, <1>8, <1>9 DEF Next

(* Every value of the variables stays within its type.                     *)
THEOREM TypeCorrect == Spec => []TypeOK
<1>1. IInv => TypeOK
  BY DEF IInv
<1>2. QED
  BY InitIInv, StepIInv, <1>1, PTL DEF Spec

(* No interleaving of puts, gets and unlocks leaves the consumer asleep    *)
(* beside an event, or a putter asleep beside a slot nobody will hand out. *)
THEOREM WakeupsNeverLost == Spec => []NoLostWakeup
<1>1. IInv => NoLostWakeup
  BY DEF IInv
<1>2. QED
  BY InitIInv, StepIInv, <1>1, PTL DEF Spec

-----------------------------------------------------------------------------
(* An empty queue is an empty channel.                                     *)
LEMMA InitChannel == Init => Channel!Init
  BY DEF Init, EmptyQueue, Channel!Init

(* Every step is a step of the channel or leaves it unchanged.             *)
LEMMA StepChannel == IInv /\ [Next]_vars => [Channel!Next]_Channel!chan
<1> SUFFICES ASSUME IInv, [Next]_vars PROVE [Channel!Next]_Channel!chan
  OBVIOUS
<1>0. queue \in QueueType(Event, Producer)
  BY DEF IInv, TypeOK
<1> USE DEF Channel!Next, Channel!chan
<1>1. ASSUME NEW p \in Producer, Send(p) PROVE [Channel!Next]_Channel!chan
  <2> DEFINE e == [from |-> p, n |-> sent[p] + 1]
  <2>1. e \in Event
    BY <1>1, BurstAssumption DEF IInv, TypeOK, Send, Event
  <2>2. CASE HasRoom(queue)
    <3>1. queue'.items = Append(queue.items, e)
      BY <1>0, <1>1, <2>2 DEF Send, Put, QueueType
    <3>2. Channel!Accept(e)
      BY <1>1, <2>2, <3>1 DEF Send, HasRoom, Channel!Accept
    <3>3. QED
      BY <2>1, <3>2
  <2>3. CASE ~HasRoom(queue)
    <3>1. queue'.items = queue.items
      BY <1>0, <1>1, <2>3 DEF Send, Put, QueueType
    <3>2. QED
      BY <1>1, <3>1 DEF Send
  <2>4. QED
    BY <2>2, <2>3
<1>2. CASE WakePutter
  <2> DEFINE e == Head(queue.putters).item
  <2>1. CanAdmit(queue) /\ HasRoom(queue)
    BY <1>2 DEF WakePutter, CanAdmit
  <2>2. e \in Event
    BY <1>0, <2>1, AdmitKeeps
  <2>3. queue'.items = Append(queue.items, e)
    BY <1>0, <1>2 DEF WakePutter, Admit, QueueType
  <2>4. Channel!Accept(e)
    BY <1>2, <2>1, <2>3 DEF WakePutter, HasRoom, Channel!Accept
  <2>5. QED
    BY <2>2, <2>4
<1>3. CASE UnlockEnds
  <2>1. queue'.items = queue.items
    BY <1>0, <1>3 DEF UnlockEnds, EndUnlock, QueueType
  <2>2. QED
    BY <1>3, <2>1 DEF UnlockEnds
<1>4. CASE Start
  <2>1. Channel!Open
    BY <1>4 DEF Start, Channel!Open
  <2>2. QED
    BY <2>1
<1>5. CASE Consume
  <2>1. queue'.items = Tail(queue.items)
    BY <1>0, <1>5 DEF Consume, Get, QueueType
  <2>2. Channel!Deliver
    BY <1>5, <2>1 DEF Consume, Channel!Deliver
  <2>3. QED
    BY <2>2
<1>6. CASE ConsumeNothing
  <2>1. queue'.items = queue.items
    BY <1>0, <1>6 DEF ConsumeNothing, GetEmpty, QueueType
  <2>2. QED
    BY <1>6, <2>1 DEF ConsumeNothing
<1>7. CASE JoinCall
  BY <1>7 DEF JoinCall
<1>8. CASE JoinReturn
  BY <1>8 DEF JoinReturn
<1>9. CASE UNCHANGED vars
  BY <1>9 DEF vars
<1>10. QED
  BY <1>1, <1>2, <1>3, <1>4, <1>5, <1>6, <1>7, <1>8, <1>9 DEF Next

(* Queue, putters and consumer implement the bounded first-in first-out    *)
(* channel: accepted events are delivered once, in order, and never more   *)
(* than Size of them are pending.                                          *)
THEOREM QueueImplementsChannel == Spec => Channel!SafeSpec
  BY InitIInv, StepIInv, InitChannel, StepChannel, PTL DEF Spec, Channel!SafeSpec
-----------------------------------------------------------------------------
(* In events A of each producer come before those in B.                    *)
Precede(A, B) == \A e \in A, f \in B : e.from = f.from => e.n < f.n

(* A sequence on which each producer's events are in order stays one when  *)
(* a later event is appended                                               *)
LEMMA RisingAppend ==
  ASSUME NEW S, NEW s \in Seq(S), NEW x \in S, Rising(s),
         \A e \in Entries(s) : e.from = x.from => e.n < x.n
  PROVE  Rising(Append(s, x))
<1> DEFINE n == Len(s)
           z == Append(s, x)
<1>1. /\ n \in Nat /\ DOMAIN s = 1..n /\ DOMAIN z = 1..(n + 1)
      /\ \A i \in 1..n : z[i] = s[i]
      /\ z[n + 1] = x
  OBVIOUS
<1> HIDE DEF n, z
<1>2. ASSUME NEW i \in 1..(n + 1), NEW j \in 1..(n + 1), i < j, z[i].from = z[j].from
      PROVE  z[i].n < z[j].n
  <2>1. i \in 1..n /\ (j \in 1..n \/ j = n + 1)
    BY <1>1, <1>2
  <2>2. s[i] \in Entries(s)
    BY <1>1, <2>1 DEF Entries
  <2>3. QED
    BY <1>1, <1>2, <2>1, <2>2 DEF Rising
<1>3. Rising(z)
  BY <1>1, <1>2 DEF Rising
<1>4. QED
  BY <1>3 DEF z

(* or its head is taken, which precedes the rest;                          *)
LEMMA RisingTail ==
  ASSUME NEW S, NEW s \in Seq(S), s # <<>>, Rising(s)
  PROVE  /\ Rising(Tail(s))
         /\ \A e \in Entries(Tail(s)) : Head(s).from = e.from => Head(s).n < e.n
<1> DEFINE n == Len(s)
           z == Tail(s)
           h == Head(s)
<1>1. /\ n \in Nat /\ n # 0 /\ DOMAIN s = 1..n /\ DOMAIN z = 1..(n - 1)
      /\ \A i \in 1..(n - 1) : z[i] = s[i + 1]
      /\ h = s[1]
  OBVIOUS
<1> HIDE DEF n, z, h
<1>2. ASSUME NEW i \in 1..(n - 1) PROVE i + 1 \in 1..n /\ 1 \in 1..n /\ 1 < i + 1
  BY <1>1
<1>3. Rising(z)
  <2>1. ASSUME NEW i \in 1..(n - 1), NEW j \in 1..(n - 1), i < j, z[i].from = z[j].from
        PROVE  z[i].n < z[j].n
    <3>1. i + 1 < j + 1 /\ z[i] = s[i + 1] /\ z[j] = s[j + 1]
      BY <1>1, <2>1
    <3>2. QED
      BY <1>1, <1>2, <2>1, <3>1 DEF Rising
  <2>2. QED
    BY <1>1, <2>1 DEF Rising
<1>4. ASSUME NEW e \in Entries(z), h.from = e.from PROVE h.n < e.n
  <2>1. PICK i \in 1..(n - 1) : e = s[i + 1]
    BY <1>1 DEF Entries
  <2>2. QED
    BY <1>1, <1>2, <1>4, <2>1 DEF Rising
<1>5. QED
  BY <1>3, <1>4 DEF h, z

(* and two of them make one when the first precedes the second.            *)
LEMMA RisingConcat ==
  ASSUME NEW S, NEW s \in Seq(S), NEW t \in Seq(S)
  PROVE  /\ s \o t \in Seq(S)
         /\ Entries(s \o t) = Entries(s) \cup Entries(t)
         /\ Rising(s) /\ Rising(t) /\ Precede(Entries(s), Entries(t)) => Rising(s \o t)
<1> DEFINE m == Len(s)
           n == Len(t)
           z == s \o t
<1>1. /\ m \in Nat /\ n \in Nat /\ DOMAIN s = 1..m /\ DOMAIN t = 1..n
      /\ z \in Seq(S) /\ DOMAIN z = 1..(m + n)
      /\ \A i \in 1..m : z[i] = s[i]
      /\ \A i \in 1..n : z[m + i] = t[i]
  OBVIOUS
<1> HIDE DEF m, n, z
<1>2. ASSUME NEW i \in 1..(m + n)
      PROVE  \/ i \in 1..m /\ z[i] = s[i]
             \/ i > m /\ i - m \in 1..n /\ z[i] = t[i - m]
  <2>1. i \in 1..m \/ (i - m \in 1..n /\ m + (i - m) = i /\ i > m)
    BY <1>1
  <2>2. QED
    BY <1>1, <2>1
<1>3. Entries(z) = Entries(s) \cup Entries(t)
  <2>1. ASSUME NEW e \in Entries(z) PROVE e \in Entries(s) \cup Entries(t)
    BY <1>1, <1>2 DEF Entries
  <2>2. ASSUME NEW e \in Entries(s) \cup Entries(t) PROVE e \in Entries(z)
    <3>1. (\A i \in 1..m : i \in 1..(m + n)) /\ (\A i \in 1..n : m + i \in 1..(m + n))
      BY <1>1
    <3>2. (\E i \in 1..m : e = z[i]) \/ (\E i \in 1..n : e = z[m + i])
      BY <1>1 DEF Entries
    <3>3. QED
      BY <1>1, <3>1, <3>2 DEF Entries
  <2>3. QED
    BY <2>1, <2>2
<1>4. ASSUME Rising(s), Rising(t), Precede(Entries(s), Entries(t)),
             NEW i \in 1..(m + n), NEW j \in 1..(m + n), i < j, z[i].from = z[j].from
      PROVE  z[i].n < z[j].n
  <2>1. CASE j \in 1..m
    <3>1. i \in 1..m
      BY <1>1, <1>4, <2>1
    <3>2. QED
      BY <1>1, <1>4, <2>1, <3>1 DEF Rising
  <2>2. CASE i \in 1..m /\ j \notin 1..m
    <3>1. z[i] \in Entries(s) /\ z[j] \in Entries(t)
      BY <1>1, <1>2, <2>2 DEF Entries
    <3>2. QED
      BY <1>4, <3>1 DEF Precede
  <2>3. CASE i \notin 1..m /\ j \notin 1..m
    <3>1. /\ i - m \in 1..n /\ z[i] = t[i - m]
          /\ j - m \in 1..n /\ z[j] = t[j - m]
      BY <1>2, <2>3
    <3>2. i - m < j - m
      BY <1>1, <1>4
    <3>3. \A a, b \in 1..n : a < b /\ t[a].from = t[b].from => t[a].n < t[b].n
      BY <1>1, <1>4 DEF Rising
    <3>4. QED
      BY <1>4, <3>1, <3>2, <3>3
  <2>4. QED
    BY <2>1, <2>2, <2>3
<1>5. Rising(s) /\ Rising(t) /\ Precede(Entries(s), Entries(t)) => Rising(z)
  BY <1>1, <1>4 DEF Rising
<1>6. QED
  BY <1>1, <1>3, <1>5 DEF z
-----------------------------------------------------------------------------
(* The streams stage by stage: each stage is in order and precedes the     *)
(* earlier ones, together they hold what was sent, and a producer asleep   *)
(* waits with one event, its own.                                          *)
Streams ==
  LET waiting == Brought(queue.putters)
      all == Entries(consumed) \cup Held(queue) \cup Awaited(queue)
  IN  /\ Rising(consumed) /\ Rising(queue.items) /\ Rising(waiting)
      /\ Precede(Entries(consumed), Held(queue) \cup Awaited(queue))
      /\ Precede(Held(queue), Awaited(queue))
      /\ \A e \in all : e.n <= sent[e.from]
      /\ \A p \in Producer : \A n \in 1..sent[p] : [from |-> p, n |-> n] \in all
      /\ \A e, f \in Awaited(queue) : e.from = f.from => e = f
      /\ \A r \in Entries(queue.putters) : r.by = r.item.from /\ r.by \in parked

(* A producer asleep in a put, and what it puts.                           *)
Putter == [item : Event, by : Producer]

(* What is awaited is what the putters bring.                              *)
LEMMA AwaitedFromPutters ==
  ASSUME NEW q
  PROVE  Awaited(q) = {r.item : r \in Entries(q.putters)}
  BY DEF Awaited, Brought, Entries

(* Nothing is under way at first.                                          *)
LEMMA InitStreams == Init => Streams
<1> SUFFICES ASSUME Init PROVE Streams
  OBVIOUS
<1>1. Entries(<<>>) = {} /\ Rising(<<>>) /\ Brought(<<>>) = <<>>
  BY DEF Entries, Rising, Brought
<1>2. queue.items = <<>> /\ queue.putters = <<>> /\ consumed = <<>>
  BY DEF Init, EmptyQueue
<1>3. \A p \in Producer : sent[p] = 0
  BY DEF Init
<1>4. 1..0 = {}
  OBVIOUS
<1>5. Held(queue) = {} /\ Awaited(queue) = {}
  BY <1>1, <1>2 DEF Held, Awaited
<1>6. QED
  BY <1>1, <1>2, <1>3, <1>4, <1>5 DEF Streams, Precede

(* Every step keeps the streams.                                           *)
LEMMA StepStreams == IInv /\ Streams /\ [Next]_vars => Streams'
<1> SUFFICES ASSUME IInv, Streams, [Next]_vars PROVE Streams'
  OBVIOUS
<1> DEFINE items == queue.items
           putters == queue.putters
           waiting == Brought(putters)
           C == Entries(consumed)
           I == Held(queue)
           A == Awaited(queue)
<1>0. /\ queue \in QueueType(Event, Producer) /\ items \in Seq(Event)
      /\ putters \in Seq(Putter) /\ consumed \in Seq(Event)
      /\ sent \in [Producer -> 0..Burst] /\ parked \subseteq Producer
  BY DEF IInv, TypeOK, QueueType, Putter
<1>1. /\ Rising(consumed) /\ Rising(items) /\ Rising(waiting)
      /\ Precede(C, I \cup A) /\ Precede(I, A)
      /\ \A e \in C \cup I \cup A : e.n <= sent[e.from]
      /\ \A p \in Producer : \A n \in 1..sent[p] : [from |-> p, n |-> n] \in C \cup I \cup A
      /\ \A e, f \in A : e.from = f.from => e = f
      /\ \A r \in Entries(putters) : r.by = r.item.from /\ r.by \in parked
  BY DEF Streams
<1>2. waiting \in Seq(Event) /\ A = Entries(waiting) /\ I = Entries(items)
      /\ A = {r.item : r \in Entries(putters)}
  <2>1. \A r \in Putter : r.item \in Event
    BY DEF Putter
  <2> HIDE DEF putters
  <2>2. waiting \in Seq(Event)
    BY <1>0, <2>1, BroughtType
  <2>3. QED
    BY <2>2, AwaitedFromPutters DEF putters, Held, Awaited
<1>3. C \subseteq Event /\ I \subseteq Event /\ A \subseteq Event
  BY <1>0, <1>2 DEF Entries
<1>4. ASSUME queue'.items = items, queue'.putters = putters, consumed' = consumed,
             sent' = sent, parked' = parked
      PROVE  Streams'
  BY <1>1, <1>2, <1>4 DEF Streams, Held, Awaited
<1>5. ASSUME NEW p \in Producer, Send(p) PROVE Streams'
  <2> DEFINE x == [from |-> p, n |-> sent[p] + 1]
             w == [item |-> x, by |-> p]
  <2>1. /\ p \notin parked /\ sent[p] \in Int /\ x \in Event /\ w \in Putter
        /\ x.from = p /\ x.n = sent[p] + 1 /\ w.item = x /\ w.by = p
        /\ consumed' = consumed
    BY <1>0, <1>5, BurstAssumption DEF Send, Event, Putter
  <2>2. /\ sent' \in [Producer -> Int] /\ sent'[p] = sent[p] + 1
        /\ \A r \in Producer \ {p} : sent'[r] = sent[r]
    BY <1>0, <1>5 DEF Send
  <2>3. \A e \in Event : e.from \in Producer /\ e.n \in Int
    BY BurstAssumption DEF Event
  <2>4. \A e \in C \cup I \cup A : e.from = p => e.n < x.n
    BY <1>1, <1>3, <2>1, <2>3
  <2>5. \A e \in A : e.from # p
    BY <1>1, <1>2, <2>1
  <2>6. \A e \in C \cup I \cup A \cup {x} : e.n <= sent'[e.from]
    <3> SUFFICES ASSUME NEW e \in C \cup I \cup A \cup {x} PROVE e.n <= sent'[e.from]
      OBVIOUS
    <3>1. CASE e = x
      BY <2>1, <2>2, <3>1
    <3>2. CASE e \in C \cup I \cup A
      <4>1. e.n <= sent[e.from] /\ e \in Event /\ e.from \in Producer /\ e.n \in Int
        BY <1>1, <1>3, <2>3, <3>2
      <4>2. sent'[e.from] = sent[e.from] \/ (e.from = p /\ sent'[e.from] = sent[p] + 1)
        BY <2>2, <4>1
      <4>3. QED
        BY <2>1, <4>1, <4>2
    <3>3. QED
      BY <3>1, <3>2
  <2>7. \A r \in Producer : \A n \in 1..sent'[r] :
          [from |-> r, n |-> n] \in C \cup I \cup A \cup {x}
    <3> SUFFICES ASSUME NEW r \in Producer, NEW n \in 1..sent'[r]
                 PROVE  [from |-> r, n |-> n] \in C \cup I \cup A \cup {x}
      OBVIOUS
    <3>1. CASE r = p /\ n = sent[p] + 1
      BY <3>1
    <3>2. CASE r # p \/ n # sent[p] + 1
      <4>1. n \in 1..sent[r]
        BY <2>1, <2>2, <3>2
      <4>2. QED
        BY <1>1, <4>1
    <3>3. QED
      BY <3>1, <3>2
  <2> HIDE DEF x, w
  <2>8. CASE HasRoom(queue)
    <3>1. queue'.items = Append(items, x) /\ queue'.putters = putters /\ parked' = parked
      BY <1>0, <1>5, <2>8 DEF Send, Put, QueueType, x
    <3>2. /\ Held(queue') = I \cup {x} /\ Awaited(queue') = A /\ Rising(queue'.items)
      <4>1. Entries(Append(items, x)) = Entries(items) \cup {x}
        BY <1>0, <2>1, AppendEntries
      <4>2. Rising(Append(items, x))
        BY <1>0, <1>1, <1>2, <2>1, <2>4, RisingAppend
      <4>3. QED
        BY <1>2, <3>1, <4>1, <4>2 DEF Held, Awaited
    <3>3. Precede(C, I \cup {x} \cup A) /\ Precede(I \cup {x}, A)
      BY <1>1, <2>1, <2>4, <2>5 DEF Precede
    <3>4. QED
      BY <1>1, <2>1, <2>6, <2>7, <3>1, <3>2, <3>3 DEF Streams
  <2>9. CASE ~HasRoom(queue)
    <3>1. /\ queue'.items = items /\ queue'.putters = Append(putters, w)
          /\ parked' = parked \cup {p}
      BY <1>0, <1>5, <2>9 DEF Send, Put, QueueType, x, w
    <3>2. /\ Brought(queue'.putters) = Append(waiting, x)
          /\ Entries(queue'.putters) = Entries(putters) \cup {w}
      BY <1>0, <2>1, <3>1, BroughtAppend, AppendEntries
    <3>3. Held(queue') = I /\ Awaited(queue') = A \cup {x} /\ Rising(Brought(queue'.putters))
      BY <1>1, <1>2, <2>1, <2>4, <3>1, <3>2, AppendEntries, RisingAppend DEF Held, Awaited
    <3>4. Precede(C, I \cup (A \cup {x})) /\ Precede(I, A \cup {x})
      BY <1>1, <2>1, <2>4 DEF Precede
    <3>5. \A e, f \in A \cup {x} : e.from = f.from => e = f
      BY <1>1, <2>1, <2>5
    <3>6. \A r \in Entries(queue'.putters) : r.by = r.item.from /\ r.by \in parked'
      BY <1>1, <2>1, <3>1, <3>2
    <3>7. QED
      BY <1>1, <2>1, <2>6, <2>7, <3>1, <3>2, <3>3, <3>4, <3>5, <3>6 DEF Streams
  <2>10. QED
    BY <2>8, <2>9
<1>6. CASE WakePutter
  <2> DEFINE w == Head(putters)
             x == w.item
  <2>1. /\ putters # <<>> /\ queue'.items = Append(items, x) /\ queue'.putters = Tail(putters)
        /\ parked' = parked \ {w.by} /\ consumed' = consumed /\ sent' = sent
    BY <1>0, <1>6 DEF WakePutter, CanAdmit, Admit, QueueType
  <2>2. /\ w \in Entries(putters) /\ Entries(putters) = Entries(Tail(putters)) \cup {w}
    BY <1>0, <2>1, TailEntries
  <2>3. /\ waiting # <<>> /\ Head(waiting) = x /\ Brought(Tail(putters)) = Tail(waiting)
    <3>1. \A r \in Putter : r.item \in Event
      BY DEF Putter
    <3> HIDE DEF putters
    <3>2. QED
      BY <1>0, <2>1, <3>1, BroughtTail
  <2> HIDE DEF putters, waiting, w
  <2>4. /\ x \in A /\ A = Entries(Tail(waiting)) \cup {x} /\ Rising(Tail(waiting))
        /\ \A e \in Entries(Tail(waiting)) : x.from = e.from => x.n < e.n
    <3>0. /\ Head(waiting) \in Entries(waiting)
          /\ Entries(waiting) = Entries(Tail(waiting)) \cup {Head(waiting)}
      BY <1>2, <2>3, TailEntries
    <3>1. /\ x \in Entries(waiting) /\ Entries(waiting) = Entries(Tail(waiting)) \cup {x}
      BY <2>3, <3>0
    <3>2. /\ Rising(Tail(waiting))
          /\ \A e \in Entries(Tail(waiting)) : x.from = e.from => x.n < e.n
      BY <1>1, <1>2, <2>3, RisingTail
    <3>3. QED
      BY <1>2, <3>1, <3>2
  <2>5. \A e \in Entries(Tail(waiting)) : e.from # x.from
    <3>1. \A e \in Event : e.n \in Int /\ ~(e.n < e.n)
      BY BurstAssumption DEF Event
    <3>2. QED
      BY <1>1, <1>3, <2>4, <3>1
  <2>6. /\ Held(queue') = I \cup {x} /\ Rising(queue'.items)
    <3>1. x \in Event /\ \A e \in Entries(items) : e.from = x.from => e.n < x.n
      BY <1>1, <1>2, <1>3, <2>4 DEF Precede
    <3> HIDE DEF items, x
    <3>2. Entries(Append(items, x)) = Entries(items) \cup {x}
      BY <1>0, <3>1, AppendEntries
    <3>3. Rising(Append(items, x))
      BY <1>0, <1>1, <3>1, RisingAppend
    <3>4. QED
      BY <1>2, <2>1, <3>2, <3>3 DEF Held
  <2>7. Awaited(queue') = Entries(Tail(waiting))
    BY <2>1, <2>3 DEF Awaited
  <2>8. /\ Precede(C, (I \cup {x}) \cup Entries(Tail(waiting)))
        /\ Precede(I \cup {x}, Entries(Tail(waiting)))
    BY <1>1, <2>4 DEF Precede
  <2>9. \A r \in Entries(Tail(putters)) : r.by = r.item.from /\ r.by \in parked'
    <3>1. \A r \in Entries(Tail(putters)) : r.item \in Entries(Tail(waiting))
      <4>1. Entries(Tail(waiting)) = {r.item : r \in Entries(Tail(putters))}
        BY <2>1, <2>7, AwaitedFromPutters
      <4>2. QED
        BY <4>1
    <3>2. QED
      BY <1>1, <2>1, <2>2, <2>5, <3>1
  <2>10. \A e, f \in Entries(Tail(waiting)) : e.from = f.from => e = f
    BY <1>1, <2>4
  <2>11. C \cup (I \cup {x}) \cup Entries(Tail(waiting)) = C \cup I \cup A
    BY <2>4
  <2>12. /\ \A e \in C \cup (I \cup {x}) \cup Entries(Tail(waiting)) : e.n <= sent[e.from]
         /\ \A p \in Producer : \A n \in 1..sent[p] :
              [from |-> p, n |-> n] \in C \cup (I \cup {x}) \cup Entries(Tail(waiting))
    BY <1>1, <2>11
  <2>13. Rising(consumed) /\ Rising(Tail(waiting))
    BY <1>1, <2>4
  <2>14. Brought(queue'.putters) = Tail(waiting) /\ queue'.putters = Tail(putters)
    BY <2>1, <2>3
  <2> HIDE DEF x, C, I, A
  <2>15. /\ Rising(queue'.items) /\ Rising(consumed') /\ Rising(Brought(queue'.putters))
         /\ Precede(Entries(consumed'), Held(queue') \cup Awaited(queue'))
         /\ Precede(Held(queue'), Awaited(queue'))
    BY <2>1, <2>6, <2>7, <2>8, <2>13, <2>14 DEF C
  <2>16. /\ \A e \in Entries(consumed') \cup Held(queue') \cup Awaited(queue') :
              e.n <= sent'[e.from]
         /\ \A p \in Producer : \A n \in 1..sent'[p] :
              [from |-> p, n |-> n] \in Entries(consumed') \cup Held(queue') \cup Awaited(queue')
    BY <2>1, <2>6, <2>7, <2>12 DEF C
  <2>17. /\ \A e, f \in Awaited(queue') : e.from = f.from => e = f
         /\ \A r \in Entries(queue'.putters) : r.by = r.item.from /\ r.by \in parked'
    BY <2>7, <2>9, <2>10, <2>14
  <2>18. QED
    BY <2>15, <2>16, <2>17, Zenon DEF Streams
<1>7. CASE UnlockEnds
  BY <1>0, <1>4, <1>7 DEF UnlockEnds, EndUnlock, QueueType
<1>8. CASE Start
  BY <1>4, <1>8 DEF Start
<1>9. CASE Consume
  <2> DEFINE x == Head(items)
  <2>1. /\ items # <<>> /\ queue'.items = Tail(items) /\ queue'.putters = putters
        /\ consumed' = Append(consumed, x) /\ parked' = parked /\ sent' = sent
    BY <1>0, <1>9 DEF Consume, Get, QueueType
  <2> HIDE DEF items, putters
  <2>2. /\ x \in I /\ I = Entries(Tail(items)) \cup {x} /\ Rising(Tail(items))
        /\ \A e \in Entries(Tail(items)) : x.from = e.from => x.n < e.n
    BY <1>0, <1>1, <1>2, <2>1, TailEntries, RisingTail
  <2> HIDE DEF x
  <2>3. Entries(consumed') = C \cup {x} /\ Rising(consumed')
    <3>1. x \in Event /\ \A e \in C : e.from = x.from => e.n < x.n
      BY <1>1, <1>3, <2>2 DEF Precede
    <3>2. QED
      BY <1>0, <1>1, <2>1, <3>1, AppendEntries, RisingAppend
  <2>4. Held(queue') = Entries(Tail(items)) /\ Awaited(queue') = A
    BY <2>1 DEF Held, Awaited, putters
  <2>5. /\ Precede(C \cup {x}, Entries(Tail(items)) \cup A)
        /\ Precede(Entries(Tail(items)), A)
    BY <1>1, <2>2 DEF Precede
  <2>6. (C \cup {x}) \cup Entries(Tail(items)) \cup A = C \cup I \cup A
    BY <2>2
  <2>7. QED
    BY <1>1, <2>1, <2>2, <2>3, <2>4, <2>5, <2>6 DEF Streams
<1>10. CASE ConsumeNothing
  BY <1>0, <1>4, <1>10 DEF ConsumeNothing, GetEmpty, QueueType
<1>11. CASE JoinCall
  BY <1>4, <1>11 DEF JoinCall
<1>12. CASE JoinReturn
  BY <1>4, <1>12 DEF JoinReturn
<1>13. CASE UNCHANGED vars
  BY <1>4, <1>13 DEF vars
<1>14. QED
  BY <1>5, <1>6, <1>7, <1>8, <1>9, <1>10, <1>11, <1>12, <1>13 DEF Next

(* Through any interleaving of puts, gets and unlocks, and any number of   *)
(* full queues, each producer's events are all there once, in order.       *)
THEOREM StreamsKept == Spec => []StreamsIntact
<1>1. IInv /\ Streams => StreamsIntact
  <2> SUFFICES ASSUME IInv, Streams PROVE StreamsIntact
    OBVIOUS
  <2> DEFINE waiting == Brought(queue.putters)
             all == Entries(consumed) \cup Held(queue) \cup Awaited(queue)
  <2>1. /\ consumed \in Seq(Event) /\ queue.items \in Seq(Event)
        /\ queue.putters \in Seq(Putter) /\ sent \in [Producer -> 0..Burst]
    BY DEF IInv, TypeOK, QueueType, Putter
  <2>2. waiting \in Seq(Event)
    <3>1. \A r \in Putter : r.item \in Event
      BY DEF Putter
    <3>2. QED
      BY <2>1, <3>1, BroughtType
  <2>3. /\ consumed \o queue.items \in Seq(Event)
        /\ Entries(consumed \o queue.items) = Entries(consumed) \cup Held(queue)
        /\ Rising(consumed \o queue.items)
    BY <2>1, RisingConcat DEF Streams, Precede, Held
  <2>4. Flow = (consumed \o queue.items) \o waiting
    BY DEF Flow, Brought
  <2>5. Flow \in Seq(Event) /\ Entries(Flow) = all /\ Rising(Flow)
    <3> DEFINE front == consumed \o queue.items
    <3>1. Precede(Entries(front), Entries(waiting))
      BY <2>3 DEF Streams, Precede, Awaited
    <3>2. Rising(waiting)
      BY DEF Streams
    <3> HIDE DEF waiting, front
    <3>3. /\ front \o waiting \in Seq(Event) /\ Rising(front \o waiting)
          /\ Entries(front \o waiting) = Entries(front) \cup Entries(waiting)
      <4>1. front \in Seq(Event) /\ Rising(front)
        BY <2>3 DEF front
      <4>2. QED
        BY <2>2, <3>1, <3>2, <4>1, RisingConcat
    <3>4. QED
      BY <2>3, <2>4, <3>3 DEF front, waiting, Awaited
  <2> HIDE DEF waiting
  <2>6. ASSUME NEW p \in Producer
        PROVE  {Flow[i].n : i \in {j \in DOMAIN Flow : Flow[j].from = p}} = 1..sent[p]
    <3>1. ASSUME NEW i \in DOMAIN Flow, Flow[i].from = p PROVE Flow[i].n \in 1..sent[p]
      <4>1. Flow[i] \in all /\ Flow[i] \in Event
        BY <2>5 DEF Entries
      <4>2. Flow[i].n <= sent[p]
        BY <3>1, <4>1 DEF Streams
      <4>3. QED
        BY <2>1, <4>1, <4>2, BurstAssumption DEF Event
    <3>2. ASSUME NEW n \in 1..sent[p]
          PROVE  \E i \in DOMAIN Flow : Flow[i].from = p /\ Flow[i].n = n
      <4>1. [from |-> p, n |-> n] \in Entries(Flow)
        BY <2>5 DEF Streams
      <4>2. QED
        BY <4>1 DEF Entries
    <3>3. QED
      BY <3>1, <3>2
  <2>7. QED
    BY <2>5, <2>6 DEF StreamsIntact
<1>2. QED
  BY InitIInv, StepIInv, InitStreams, StepStreams, <1>1, PTL DEF Spec
=============================================================================
