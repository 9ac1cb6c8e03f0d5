--------------------------- MODULE ActorNetProofs ---------------------------
(***************************************************************************)
(* Proofs about ActorNet for every network: any actors, queues, wiring,    *)
(* queue size, rescue settings and behaviour of the actors' consume.       *)
(***************************************************************************)
EXTENDS ActorNetOrder, SequenceTheorems, FiniteSetTheorems, TLAPS

(***************************************************************************)
(* What the operators of EventQueue preserve, for every Size.              *)
(***************************************************************************)

(* What a sequence holds, and that it holds nothing twice.                 *)
Entries(s) == {s[i] : i \in DOMAIN s}

Distinct(s) == \A i, j \in DOMAIN s : s[i] = s[j] => i = j

(* The items that sleeping putters bring.                                  *)
Brought(putters) == [i \in DOMAIN putters |-> putters[i].item]

Held(q) == Entries(q.items)

Awaited(q) == Entries(Brought(q.putters))

(* Nothing is twice on a queue or on its way there.                        *)
Tidy(q) ==
  Distinct(q.items) /\ Distinct(Brought(q.putters)) /\ Held(q) \cap Awaited(q) = {}

(* The head of a sequence is in its set, and so is what the tail holds.    *)
LEMMA HeadTail ==
  ASSUME NEW S, NEW s \in Seq(S), s # <<>>
  PROVE  Head(s) \in S /\ Tail(s) \in Seq(S)
  OBVIOUS

(* Appending to a sequence adds one entry,                                 *)
LEMMA AppendEntries ==
  ASSUME NEW S, NEW s \in Seq(S), NEW x \in S
  PROVE  /\ Entries(Append(s, x)) = Entries(s) \cup {x}
         /\ Distinct(s) /\ x \notin Entries(s) => Distinct(Append(s, x))
<1> DEFINE n == Len(s)
           z == Append(s, x)
<1>1. /\ n \in Nat /\ DOMAIN s = 1..n /\ DOMAIN z = 1..(n + 1)
      /\ \A i \in 1..n : z[i] = s[i]
      /\ z[n + 1] = x
  OBVIOUS
<1> HIDE DEF n, z
<1>2. Entries(z) = Entries(s) \cup {x}
  <2>1. ASSUME NEW y \in Entries(z) PROVE y \in Entries(s) \cup {x}
    <3>1. PICK i \in 1..(n + 1) : y = z[i]
      BY <1>1 DEF Entries
    <3>2. i \in 1..n \/ i = n + 1
      BY <1>1
    <3>3. QED
      BY <1>1, <3>1, <3>2 DEF Entries
  <2>2. ASSUME NEW y \in Entries(s) \cup {x} PROVE y \in Entries(z)
    <3>1. (\E i \in 1..n : y = z[i]) \/ y = z[n + 1]
      BY <1>1 DEF Entries
    <3>2. 1..n \subseteq 1..(n + 1) /\ n + 1 \in 1..(n + 1)
      BY <1>1
    <3>3. QED
      BY <1>1, <3>1, <3>2 DEF Entries
  <2>3. QED
    BY <2>1, <2>2
<1>3. ASSUME Distinct(s), x \notin Entries(s), NEW i \in 1..(n + 1), NEW j \in 1..(n + 1),
             z[i] = z[j]
      PROVE  i = j
  <2>1. (i \in 1..n \/ i = n + 1) /\ (j \in 1..n \/ j = n + 1)
    BY <1>1
  <2>2. \A k \in 1..n : z[k] # x
    BY <1>1, <1>3 DEF Entries
  <2>3. QED
    BY <1>1, <1>3, <2>1, <2>2 DEF Distinct
<1>4. Distinct(s) /\ x \notin Entries(s) => Distinct(z)
  BY <1>1, <1>3 DEF Distinct
<1>5. QED
  BY <1>2, <1>4 DEF z

(* and taking the head removes it.                                         *)
LEMMA TailEntries ==
  ASSUME NEW S, NEW s \in Seq(S), s # <<>>
  PROVE  /\ Head(s) \in Entries(s)
         /\ Entries(s) = Entries(Tail(s)) \cup {Head(s)}
         /\ Distinct(s) => Distinct(Tail(s)) /\ Head(s) \notin Entries(Tail(s))
<1> DEFINE n == Len(s)
           z == Tail(s)
           h == Head(s)
<1>1. /\ n \in Nat /\ n # 0 /\ DOMAIN s = 1..n /\ DOMAIN z = 1..(n - 1)
      /\ \A i \in 1..(n - 1) : z[i] = s[i + 1]
      /\ h = s[1]
  OBVIOUS
<1> HIDE DEF n, z, h
<1>2. h \in Entries(s)
  BY <1>1 DEF Entries
<1>3. ASSUME NEW y \in Entries(s) PROVE y \in Entries(z) \cup {h}
  <2>1. PICK i \in 1..n : y = s[i]
    BY <1>1 DEF Entries
  <2>2. CASE i = 1
    BY <1>1, <2>1, <2>2
  <2>3. CASE i # 1
    <3>1. i - 1 \in 1..(n - 1) /\ (i - 1) + 1 = i
      BY <1>1, <2>3
    <3>2. y = z[i - 1]
      BY <1>1, <2>1, <3>1
    <3>3. QED
      BY <1>1, <3>1, <3>2 DEF Entries
  <2>4. QED
    BY <2>2, <2>3
<1>4. ASSUME NEW y \in Entries(z) PROVE \E i \in 1..n : i # 1 /\ y = s[i]
  <2>1. PICK i \in 1..(n - 1) : y = z[i]
    BY <1>1 DEF Entries
  <2>2. i + 1 \in 1..n /\ i + 1 # 1 /\ y = s[i + 1]
    BY <1>1, <2>1
  <2>3. QED
    BY <2>2
<1>5. Entries(s) = Entries(z) \cup {h}
  <2>1. \A y \in Entries(z) : y \in Entries(s)
    BY <1>1, <1>4 DEF Entries
  <2>2. QED
    BY <1>2, <1>3, <2>1
<1>6. ASSUME Distinct(s) PROVE Distinct(z) /\ h \notin Entries(z)
  <2>1. ASSUME NEW i \in 1..(n - 1), NEW j \in 1..(n - 1), z[i] = z[j] PROVE i = j
    <3>1. i + 1 \in 1..n /\ j + 1 \in 1..n /\ s[i + 1] = s[j + 1]
      BY <1>1, <2>1
    <3>2. i + 1 = j + 1
      BY <1>1, <1>6, <3>1 DEF Distinct
    <3>3. QED
      BY <3>2
  <2>2. h \notin Entries(z)
    <3>1. SUFFICES ASSUME h \in Entries(z) PROVE FALSE
      OBVIOUS
    <3>2. PICK i \in 1..n : i # 1 /\ h = s[i]
      BY <1>4, <3>1
    <3>3. 1 \in 1..n
      BY <1>1
    <3>4. QED
      BY <1>1, <1>6, <3>2, <3>3 DEF Distinct
  <2>3. QED
    BY <1>1, <2>1, <2>2 DEF Distinct
<1>7. QED
  BY <1>2, <1>5, <1>6 DEF h, z

(* A sequence is the function of its places.                               *)
LEMMA SequenceIsFunction ==
  ASSUME NEW S, NEW s \in Seq(S)
  PROVE  s = [i \in 1..Len(s) |-> s[i]]
  OBVIOUS

(* What the putters bring are items, one for each,                         *)
LEMMA BroughtType ==
  ASSUME NEW Item, NEW R, \A r \in R : r.item \in Item, NEW s \in Seq(R)
  PROVE  Brought(s) \in Seq(Item) /\ Len(Brought(s)) = Len(s)
<1>1. \A i \in 1..Len(s) : s[i].item \in Item
  OBVIOUS
<1>2. Brought(s) = [i \in 1..Len(s) |-> s[i].item]
  BY DEF Brought
<1>3. QED
  BY <1>1, <1>2

(* and they follow the putters when one goes to sleep                      *)
LEMMA BroughtAppend ==
  ASSUME NEW R, NEW s \in Seq(R), NEW r \in R
  PROVE  Brought(Append(s, r)) = Append(Brought(s), r.item)
<1> DEFINE n == Len(s)
           b == Brought(s)
           z == Append(s, r)
           x == r.item
           Item == {e.item : e \in R}
<1>1. /\ n \in Nat /\ DOMAIN s = 1..n
      /\ \A i \in 1..n : s[i] \in R
      /\ DOMAIN z = 1..(n + 1) /\ z[n + 1] = r
      /\ \A i \in 1..n : z[i] = s[i]
  OBVIOUS
<1>2. b = [i \in 1..n |-> s[i].item]
  BY <1>1 DEF Brought
<1>3. b \in Seq(Item) /\ Len(b) = n /\ \A i \in 1..n : b[i] = s[i].item
  <2>1. \A i \in 1..n : s[i].item \in Item
    BY <1>1
  <2> HIDE DEF Item
  <2>2. QED
    BY <1>1, <1>2, <2>1
<1>4. x \in Item
  OBVIOUS
<1> HIDE DEF Item
<1>5. /\ Append(b, x) \in Seq(Item) /\ Len(Append(b, x)) = n + 1
      /\ Append(b, x)[n + 1] = x
      /\ \A i \in 1..n : Append(b, x)[i] = b[i]
  BY <1>3, <1>4
<1>6. Append(b, x) = [i \in 1..(n + 1) |-> Append(b, x)[i]]
  BY <1>5, SequenceIsFunction
<1>7. ASSUME NEW i \in 1..(n + 1) PROVE z[i].item = Append(b, x)[i]
  <2>1. i \in 1..n \/ i = n + 1
    BY <1>1
  <2>2. QED
    BY <1>1, <1>3, <1>5, <2>1
<1>8. Brought(z) = Append(b, x)
  <2> HIDE DEF z, b
  <2>1. QED
    BY <1>1, <1>6, <1>7 DEF Brought
<1>9. QED
  BY <1>8

(* or wakes up.                                                            *)
LEMMA BroughtTail ==
  ASSUME NEW Item, NEW R, \A r \in R : r.item \in Item,
         NEW s \in Seq(R), s # <<>>
  PROVE  /\ Brought(s) \in Seq(Item)
         /\ Brought(s) # <<>>
         /\ Head(Brought(s)) = Head(s).item
         /\ Brought(Tail(s)) = Tail(Brought(s))
<1> DEFINE n == Len(s)
           b == Brought(s)
<1>1. /\ n \in Nat /\ DOMAIN s = 1..n /\ n # 0
      /\ \A i \in 1..n : s[i] \in R
      /\ Head(s) = s[1] /\ 1 \in 1..n
      /\ DOMAIN Tail(s) = 1..(n - 1)
      /\ \A i \in 1..(n - 1) : Tail(s)[i] = s[i + 1]
  OBVIOUS
<1>2. b = [i \in 1..n |-> s[i].item]
  BY <1>1 DEF Brought
<1>3. b \in Seq(Item) /\ Len(b) = n /\ \A i \in 1..n : b[i] = s[i].item
  BY <1>1, <1>2
<1>4. b # <<>> /\ Head(b) = b[1]
  BY <1>1, <1>3
<1>5. /\ Tail(b) \in Seq(Item) /\ Len(Tail(b)) = n - 1
      /\ \A i \in 1..(n - 1) : Tail(b)[i] = b[i + 1]
  BY <1>3, <1>4
<1>6. Tail(b) = [i \in 1..(n - 1) |-> Tail(b)[i]]
  BY <1>5, SequenceIsFunction
<1>7. ASSUME NEW i \in 1..(n - 1) PROVE Tail(s)[i].item = Tail(b)[i]
  <2>1. i + 1 \in 1..n
    BY <1>1
  <2>2. QED
    BY <1>1, <1>3, <1>5, <2>1
<1>8. Brought(Tail(s)) = Tail(b)
  <2> HIDE DEF b
  <2>1. QED
    BY <1>1, <1>6, <1>7 DEF Brought
<1>9. QED
  BY <1>1, <1>3, <1>4, <1>8

(* The operators on a queue record keep its type and its soundness,        *)
(* whatever the items and the greenlets are.                               *)
LEMMA PutKeeps ==
  ASSUME NEW Item, NEW Greenlet, NEW q \in QueueType(Item, Greenlet),
         NEW x \in Item, NEW g \in Greenlet
  PROVE  /\ Put(q, x, g) \in QueueType(Item, Greenlet)
         /\ QueueSound(q) => QueueSound(Put(q, x, g))
<1>1. CASE HasRoom(q)
  <2>1. /\ Append(q.items, x) \in Seq(Item)
        /\ Len(Append(q.items, x)) = Len(q.items) + 1
        /\ Len(q.items) \in Nat
    BY DEF QueueType
  <2>2. Put(q, x, g) = [q EXCEPT !.items = Append(q.items, x), !.content = TRUE]
    BY <1>1 DEF Put
  <2>3. Put(q, x, g) \in QueueType(Item, Greenlet)
    BY <2>1, <2>2 DEF QueueType
  <2>4. /\ Put(q, x, g).items = Append(q.items, x)
        /\ Put(q, x, g).content = TRUE
        /\ Put(q, x, g).putters = q.putters
        /\ Put(q, x, g).unlock = q.unlock
    BY <2>2 DEF QueueType
  <2>5. WithinSize(Put(q, x, g))
    BY <1>1, <2>1, <2>4, SizeAssumption DEF HasRoom, WithinSize
  <2>6. ItemsAnnounced(Put(q, x, g))
    BY <2>4 DEF ItemsAnnounced
  <2>7. QueueSound(q) => PuttersServed(Put(q, x, g))
    BY <1>1, <2>4 DEF QueueSound, PuttersServed
  <2>8. QED
    BY <2>3, <2>5, <2>6, <2>7 DEF QueueSound
<1>2. CASE ~HasRoom(q)
  <2>1. Append(q.putters, [item |-> x, by |-> g]) \in Seq([item : Item, by : Greenlet])
    BY DEF QueueType
  <2>2. QED
    BY <1>2, <2>1, SizeAssumption
       DEF Put, HasRoom, QueueType, QueueSound, ItemsAnnounced, PuttersServed, WithinSize
<1>3. QED
  BY <1>1, <1>2

(* get of a queue with an item keeps type and soundness.                   *)
LEMMA GetKeeps ==
  ASSUME NEW Item, NEW Greenlet, NEW q \in QueueType(Item, Greenlet),
         q.items # <<>>
  PROVE  /\ Get(q) \in QueueType(Item, Greenlet)
         /\ Head(q.items) \in Item
         /\ QueueSound(q) => QueueSound(Get(q))
<1>1. /\ Tail(q.items) \in Seq(Item)
      /\ Head(q.items) \in Item
      /\ Len(Tail(q.items)) = Len(q.items) - 1
      /\ Len(q.items) \in Nat
  BY DEF QueueType
<1>2. /\ Get(q).items = Tail(q.items)
      /\ Get(q).content = q.content
      /\ Get(q).putters = q.putters
      /\ Get(q).unlock = (q.unlock \/ q.putters # <<>>)
  BY DEF Get, QueueType
<1>3. Get(q) \in QueueType(Item, Greenlet)
  BY <1>1 DEF Get, QueueType
<1>4. QueueSound(q) => WithinSize(Get(q))
  BY <1>1, <1>2, SizeAssumption DEF QueueSound, WithinSize
<1>5. QueueSound(q) => ItemsAnnounced(Get(q))
  BY <1>2 DEF QueueSound, ItemsAnnounced
<1>6. PuttersServed(Get(q))
  BY <1>2 DEF PuttersServed
<1>7. QED
  BY <1>1, <1>3, <1>4, <1>5, <1>6 DEF QueueSound

(* get of an empty queue, which clears has_content, keeps them too.        *)
LEMMA GetEmptyKeeps ==
  ASSUME NEW Item, NEW Greenlet, NEW q \in QueueType(Item, Greenlet),
         q.items = <<>>
  PROVE  /\ GetEmpty(q) \in QueueType(Item, Greenlet)
         /\ QueueSound(q) => QueueSound(GetEmpty(q))
  BY DEF GetEmpty, HasRoom, QueueType, QueueSound, ItemsAnnounced, PuttersServed, WithinSize

(* So does the hub letting a sleeping putter on.                           *)
LEMMA AdmitKeeps ==
  ASSUME NEW Item, NEW Greenlet, NEW q \in QueueType(Item, Greenlet),
         CanAdmit(q)
  PROVE  /\ Admit(q) \in QueueType(Item, Greenlet)
         /\ Head(q.putters) \in [item : Item, by : Greenlet]
         /\ QueueSound(q) => QueueSound(Admit(q))
<1>0. q.unlock /\ q.putters # <<>>
  BY DEF CanAdmit
<1>1. /\ Head(q.putters) \in [item : Item, by : Greenlet]
      /\ Tail(q.putters) \in Seq([item : Item, by : Greenlet])
  <2>1. q.putters # <<>>
    BY <1>0
  <2>2. q.putters \in Seq([item : Item, by : Greenlet])
    BY DEF QueueType
  <2>3. QED
    BY <2>1, <2>2, HeadTail
<1> DEFINE x == Head(q.putters).item
<1>2. x \in Item
  BY <1>1
<1>3. /\ Append(q.items, x) \in Seq(Item)
      /\ Len(Append(q.items, x)) = Len(q.items) + 1
      /\ Len(q.items) \in Nat
  BY <1>2 DEF QueueType
<1>4. /\ Admit(q).items = Append(q.items, x)
      /\ Admit(q).content = TRUE
      /\ Admit(q).putters = Tail(q.putters)
      /\ Admit(q).unlock = q.unlock
  BY DEF Admit, QueueType
<1>5. Admit(q) \in QueueType(Item, Greenlet)
  BY <1>1, <1>3 DEF Admit, QueueType
<1>6. WithinSize(Admit(q))
  BY <1>3, <1>4, SizeAssumption DEF CanAdmit, HasRoom, WithinSize
<1>7. ItemsAnnounced(Admit(q)) /\ PuttersServed(Admit(q))
  BY <1>0, <1>4 DEF ItemsAnnounced, PuttersServed
<1>8. QED
  BY <1>1, <1>5, <1>6, <1>7 DEF QueueSound

(* So does the hub finding nobody to let on, or no room.                   *)
LEMMA EndUnlockKeeps ==
  ASSUME NEW Item, NEW Greenlet, NEW q \in QueueType(Item, Greenlet),
         CanEndUnlock(q)
  PROVE  /\ EndUnlock(q) \in QueueType(Item, Greenlet)
         /\ QueueSound(q) => QueueSound(EndUnlock(q))
  BY DEF EndUnlock, CanEndUnlock, HasRoom, QueueType, QueueSound,
         ItemsAnnounced, PuttersServed, WithinSize

(* A new queue has its type and is sound.                                  *)
LEMMA EmptyQueueSound ==
  ASSUME NEW Item, NEW Greenlet
  PROVE  EmptyQueue \in QueueType(Item, Greenlet) /\ QueueSound(EmptyQueue)
  BY SizeAssumption
     DEF EmptyQueue, HasRoom, QueueType, QueueSound, ItemsAnnounced, PuttersServed, WithinSize

-----------------------------------------------------------------------------
(* Where an item is after each operation.  A put lays a new one on the     *)
(* queue, or leaves it with its putter;                                    *)
LEMMA PutPlaces ==
  ASSUME NEW Item, NEW Greenlet, NEW q \in QueueType(Item, Greenlet), Tidy(q),
         NEW x \in Item, NEW g \in Greenlet, x \notin Held(q) \cup Awaited(q)
  PROVE  /\ Tidy(Put(q, x, g))
         /\ Held(Put(q, x, g)) = IF HasRoom(q) THEN Held(q) \cup {x} ELSE Held(q)
         /\ Awaited(Put(q, x, g)) = IF HasRoom(q) THEN Awaited(q) ELSE Awaited(q) \cup {x}
<1> DEFINE r == [item |-> x, by |-> g]
<1>1. /\ q.items \in Seq(Item) /\ q.putters \in Seq([item : Item, by : Greenlet])
      /\ r \in [item : Item, by : Greenlet]
  BY DEF QueueType
<1>2. CASE HasRoom(q)
  <2>1. Put(q, x, g).items = Append(q.items, x) /\ Put(q, x, g).putters = q.putters
    BY <1>2 DEF Put, QueueType
  <2>2. QED
    BY <1>1, <1>2, <2>1, AppendEntries DEF Held, Awaited, Tidy
<1>3. CASE ~HasRoom(q)
  <2>1. Put(q, x, g).items = q.items /\ Put(q, x, g).putters = Append(q.putters, r)
    BY <1>3 DEF Put, QueueType
  <2>2. r.item = x
    OBVIOUS
  <2>3. /\ Brought(Append(q.putters, r)) = Append(Brought(q.putters), x)
        /\ Brought(q.putters) \in Seq(Item)
    <3> DEFINE R == [item : Item, by : Greenlet]
    <3>1. (\A e \in R : e.item \in Item) /\ q.putters \in Seq(R) /\ r \in R
      BY <1>1
    <3> HIDE DEF r, R
    <3>2. Brought(Append(q.putters, r)) = Append(Brought(q.putters), r.item)
      BY <3>1, BroughtAppend
    <3>3. Brought(q.putters) \in Seq(Item)
      BY <3>1, BroughtType
    <3>4. QED
      BY <2>2, <3>2, <3>3
  <2> HIDE DEF r
  <2>4. /\ Entries(Brought(Put(q, x, g).putters)) = Entries(Brought(q.putters)) \cup {x}
        /\ Distinct(Brought(Put(q, x, g).putters))
    BY <2>1, <2>3, AppendEntries DEF Tidy, Awaited
  <2>5. QED
    BY <1>3, <2>1, <2>4 DEF Held, Awaited, Tidy
<1>4. QED
  BY <1>2, <1>3

(* a get takes the head away;                                              *)
LEMMA GetPlaces ==
  ASSUME NEW Item, NEW Greenlet, NEW q \in QueueType(Item, Greenlet), Tidy(q),
         q.items # <<>>
  PROVE  /\ Tidy(Get(q))
         /\ Head(q.items) \in Held(q)
         /\ Held(Get(q)) = Held(q) \ {Head(q.items)}
         /\ Awaited(Get(q)) = Awaited(q)
<1>1. q.items \in Seq(Item)
  BY DEF QueueType
<1>2. Get(q).items = Tail(q.items) /\ Get(q).putters = q.putters
  BY DEF Get, QueueType
<1>3. QED
  BY <1>1, <1>2, TailEntries DEF Held, Awaited, Tidy

(* the hub lays on the queue what the oldest putter brought;               *)
LEMMA AdmitPlaces ==
  ASSUME NEW Item, NEW Greenlet, NEW q \in QueueType(Item, Greenlet), Tidy(q),
         CanAdmit(q)
  PROVE  /\ Tidy(Admit(q))
         /\ Head(q.putters).item \in Awaited(q)
         /\ Held(Admit(q)) = Held(q) \cup {Head(q.putters).item}
         /\ Awaited(Admit(q)) = Awaited(q) \ {Head(q.putters).item}
<1> DEFINE x == Head(q.putters).item
           b == Brought(q.putters)
<1>1. /\ q.items \in Seq(Item) /\ q.putters \in Seq([item : Item, by : Greenlet])
      /\ q.putters # <<>>
  BY DEF QueueType, CanAdmit
<1>2. Admit(q).items = Append(q.items, x) /\ Admit(q).putters = Tail(q.putters)
  BY DEF Admit, QueueType
<1>3. b \in Seq(Item) /\ b # <<>> /\ Head(b) = x /\ Brought(Tail(q.putters)) = Tail(b)
  <2> DEFINE R == [item : Item, by : Greenlet]
  <2>1. (\A e \in R : e.item \in Item) /\ q.putters \in Seq(R)
    BY <1>1
  <2> HIDE DEF R
  <2>2. QED
    BY <1>1, <2>1, BroughtTail
<1>4. /\ x \in Entries(b) /\ Entries(b) = Entries(Tail(b)) \cup {x}
      /\ Distinct(b) => Distinct(Tail(b)) /\ x \notin Entries(Tail(b))
  BY <1>3, TailEntries
<1>5. x \in Item /\ x \notin Entries(q.items)
  BY <1>3, <1>4, HeadTail DEF Tidy, Held, Awaited
<1>6. /\ Entries(Append(q.items, x)) = Entries(q.items) \cup {x}
      /\ Distinct(Append(q.items, x))
  BY <1>1, <1>5, AppendEntries DEF Tidy
<1> HIDE DEF x, b
<1>7. QED
  BY <1>2, <1>3, <1>4, <1>6 DEF Held, Awaited, Tidy, b, x

(* and what leaves items and putters alone moves nothing.                  *)
LEMMA NothingMoves ==
  ASSUME NEW q, NEW r, r.items = q.items, r.putters = q.putters
  PROVE  Held(r) = Held(q) /\ Awaited(r) = Awaited(q) /\ (Tidy(q) => Tidy(r))
  BY DEF Held, Awaited, Tidy

(* Nothing is on a new queue.                                              *)
LEMMA EmptyQueueTidy == Tidy(EmptyQueue) /\ Held(EmptyQueue) = {} /\ Awaited(EmptyQueue) = {}
<1>1. Entries(<<>>) = {} /\ Distinct(<<>>)
  BY DEF Entries, Distinct
<1>2. Brought(<<>>) = <<>>
  BY DEF Brought
<1>3. QED
  BY <1>1, <1>2 DEF EmptyQueue, Tidy, Held, Awaited

-----------------------------------------------------------------------------
(* The types and the soundness of every queue: inductive together.         *)
IInv == TypeOK /\ QueuesSound

(***************************************************************************)
(* The accounting of events.  An event object is told from all others by   *)
(* its id and the sends that made it; its rescues change it in place.      *)
(***************************************************************************)

(* d was made of c by send l.                                              *)
MadeBy(d, c, l) == d.id = c.id /\ d.via = Append(c.via, l)

LastPort(c) == c.via[Len(c.via)].port

(* The actor that works on c, or will.                                     *)
At(c) == IF c.via = <<>> THEN Entry[c.id] ELSE Reader[Leads[LastPort(c)]]

(* What an actor's counter shows when it gives an event up.                *)
Limit(a) == IF a \in Rescue THEN MaxRescue ELSE 0

(* Tasks that have their event in hand: not those that only wait to put it *)
(* back.                                                                   *)
Holding(t) == ~(t.phase = "parked" /\ t.end = "requeue")

Worked == {t.event : t \in {u \in tasks : Holding(u)}}

Over == {s.event : s \in settled}

(* How a task's fields go together.                                        *)
TaskShape(t) ==
  /\ t.phase = "begin" => t.todo = <<>> /\ t.end = "return" /\ ~t.failed
  /\ t.phase = "asleep" => t.end = "requeue"
  /\ t.end = "requeue" => t.phase \in {"asleep", "parked"}
  /\ t.failed => t.end = "return"
  /\ t.origin = NoQueue => t.end = "return" /\ t.phase # "begin"
  /\ t.origin # NoQueue => t.event.via # <<>> /\ Leads[LastPort(t.event)] = t.origin
  /\ t.actor = At(t.event)
  /\ Distinct(t.todo)
  /\ Entries(t.todo) \subseteq Entries((IF t.failed THEN Err ELSE Out)[t.actor])
  /\ t.failed => t.event.tries[t.actor] = Limit(t.actor)

(* What has been sent in this try is not still to be sent.                 *)
NotSentYet(t) ==
  \A d \in copies, l \in Leg :
    MadeBy(d, t.event, l) /\ l.tries = t.event.tries[t.actor]
      => /\ t.phase \in {"send", "parked"}
         /\ l.port \notin Entries(t.todo)
         /\ l.port \in Entries(Err[t.actor]) => t.failed

(* A task that is to end well has sent, or has still to send, through all  *)
(* ports, or through none.                                                 *)
AllOrNone(t) ==
  t.phase \in {"send", "parked"} /\ t.end = "return" =>
    IF t.failed
      THEN \A p \in Entries(Err[t.actor]) :
             p \in Entries(t.todo) \/ Reached(t.actor, t.event, p)
      ELSE \/ \A p \in Entries(Out[t.actor]) :
                p \in Entries(t.todo) \/ Reached(t.actor, t.event, p)
           \/ /\ t.todo = <<>>
              /\ \A p \in Entries(Out[t.actor]) : ~Reached(t.actor, t.event, p)

TaskSound(t) == TaskShape(t) /\ NotSentYet(t) /\ AllOrNone(t)

TasksSound ==
  \A t \in tasks :
    TaskShape(t) /\ (Holding(t) => NotSentYet(t) /\ AllOrNone(t) /\ t.event \in copies)

(* Copies: one for each way of being made, each with the one it was made   *)
(* of, which has been tried at least as often as the send says.            *)
OneOfEach == \A c, d \in copies : c.id = d.id /\ c.via = d.via => c = d

MadeOfCopies ==
  \A d \in copies :
    d.via = <<>> \/ \E c \in copies, l \in Leg : MadeBy(d, c, l)

TriesGrow ==
  \A c, d \in copies, l \in Leg : MadeBy(d, c, l) => l.tries <= c.tries[At(c)]

CountedByRescuers ==
  \A c \in copies :
    /\ \A a \in Actor \ Rescue : c.tries[a] = 0
    /\ \A i \in DOMAIN c.via : c.via[i].tries # 0 => SenderAt(c, i) \in Rescue

CopiesSound ==
  OneOfEach /\ MadeOfCopies /\ TriesGrow /\ CountedByRescuers /\ ErrorOnlyAfterRescues

(* What is on a queue, or on its way there, was sent there, and not sent   *)
(* on since it was last tried.                                             *)
QueuedRight ==
  \A q \in Queue :
    /\ Tidy(queue[q])
    /\ \A c \in Held(queue[q]) \cup Awaited(queue[q]) :
         /\ c \in copies /\ c.via # <<>> /\ Leads[LastPort(c)] = q
         /\ \A d \in copies, l \in Leg : MadeBy(d, c, l) => l.tries < c.tries[At(c)]
         /\ c \notin Worked /\ c \notin Over

(* Every copy is somewhere, and in one place.                              *)
OnePlace ==
  /\ \A c \in copies :
       \/ c \in Worked \/ c \in Over
       \/ \E q \in Queue : c \in Held(queue[q]) \cup Awaited(queue[q])
  /\ \A t, u \in tasks : Holding(t) /\ Holding(u) /\ t.event = u.event => t = u
  /\ \A s, r \in settled : s.event = r.event => s = r
  /\ Over \subseteq copies
  /\ Worked \cap Over = {}

Accounts == TasksSound /\ CopiesSound /\ QueuedRight /\ OnePlace /\ SendsComplete

(* A fresh event is a copy that has not been rescued.                      *)
LEMMA FreshType == \A e \in Event : Fresh(e) \in Copy
  BY NetAssumption DEF Fresh, Copy

(* A rescue counter below max_rescue may be raised by one.                 *)
LEMMA OneMoreTry ==
  ASSUME NEW f \in [Actor -> 0..MaxRescue], NEW a \in Actor, f[a] < MaxRescue
  PROVE  [f EXCEPT ![a] = @ + 1] \in [Actor -> 0..MaxRescue]
<1>1. f[a] + 1 \in 0..MaxRescue
  <2>1. f[a] \in 0..MaxRescue
    OBVIOUS
  <2>2. QED
    BY <2>1, NetAssumption
<1>2. QED
  BY <1>1, Zenon

(* Sending leaves a copy a copy.                                           *)
LEMMA SentType ==
  ASSUME NEW c \in Copy, NEW a \in Actor, NEW p \in Port
  PROVE  Sent(c, a, p) \in Copy
<1> DEFINE l == [port |-> p, tries |-> c.tries[a]]
<1>1. l \in Leg
  BY DEF Leg, Copy
<1>2. Append(c.via, l) \in Seq(Leg)
  BY <1>1 DEF Copy
<1>3. Sent(c, a, p) = [c EXCEPT !.via = Append(c.via, l)]
  BY DEF Sent
<1> HIDE DEF l
<1>4. QED
  BY <1>2, <1>3 DEF Copy

(* A new task for a copy on a queue is a task.                             *)
LEMMA NewTaskType ==
  ASSUME NEW a \in Actor, NEW q \in Queue \cup {NoQueue}, NEW c \in Copy,
         NEW i \in BOOLEAN
  PROVE  NewTask(a, q, c, i) \in Task
<1>1. <<>> \in Seq(Port)
  OBVIOUS
<1>2. QED
  BY <1>1, Zenon DEF NewTask, Task

(* A queue whose events are all taken is a sound queue.                    *)
LEMMA EmptiedKeeps ==
  ASSUME NEW r \in QueueType(Copy, Copy)
  PROVE  /\ Emptied(r) \in QueueType(Copy, Copy)
         /\ Emptied(r).items = <<>> /\ Emptied(r).putters = r.putters
         /\ QueueSound(r) => QueueSound(Emptied(r))
<1> DEFINE u == r.unlock \/ (r.items # <<>> /\ r.putters # <<>>)
<1>1. /\ Emptied(r).items = <<>>
      /\ Emptied(r).content = r.content
      /\ Emptied(r).putters = r.putters
      /\ Emptied(r).unlock = u
  BY DEF Emptied, QueueType
<1>2. Emptied(r) \in QueueType(Copy, Copy)
  <2>1. u \in BOOLEAN /\ <<>> \in Seq(Copy)
    OBVIOUS
  <2>2. Emptied(r) = [r EXCEPT !.items = <<>>, !.unlock = u]
    BY DEF Emptied
  <2> HIDE DEF u
  <2>3. QED
    BY <2>1, <2>2 DEF QueueType
<1>3. QueueSound(r) => PuttersServed(Emptied(r))
  BY <1>1, SizeAssumption DEF QueueSound, PuttersServed, HasRoom
<1>4. ItemsAnnounced(Emptied(r)) /\ WithinSize(Emptied(r))
  BY <1>1, SizeAssumption DEF ItemsAnnounced, WithinSize
<1>5. QED
  BY <1>1, <1>2, <1>3, <1>4 DEF QueueSound

(* What the consume of a new task may do: send to all, to none, or refuse  *)
(* or raise after some sends.                                              *)
SendsAll(t) == [Resumed(t) EXCEPT !.todo = Out[t.actor]]

SendsPart(t, k, how) ==
  [Resumed(t) EXCEPT !.todo = SubSeq(Out[t.actor], 1, k), !.end = how]

LEMMA CourseCases ==
  ASSUME NEW t \in Task, t.phase = "begin", NEW v \in Course(t)
  PROVE  \/ v = SendsAll(t)
         \/ v = Resumed(t)
         \/ \E k \in 0..Len(Out[t.actor]), how \in {"reject", "raise"} :
              v = SendsPart(t, k, how)
<1> DEFINE B == IF Len(t.event.via) < MaxHops THEN Behaviour[t.actor] ELSE {"swallow"}
           S(how) == {SendsPart(t, k, how) : k \in 0..Len(Out[t.actor])}
<1>1. Course(t) = {SendsAll(t) : x \in B \cap {"send"}}
                    \cup {Resumed(t) : x \in B \cap {"swallow"}}
                    \cup UNION {S(how) : how \in B \cap {"reject", "raise"}}
  BY DEF Course, SendsAll, SendsPart, Resumed
<1> HIDE DEF B
<1>2. QED
  BY <1>1

(* Whatever consume does next, the task stays a task.                      *)
LEMMA CourseType ==
  ASSUME NEW t \in Task, NEW u \in Course(t)
  PROVE  u \in Task
<1> DEFINE a == t.actor
<1>1. a \in Actor /\ Out[a] \in Seq(Port)
  BY NetAssumption DEF Task
<1>2. Resumed(t) \in Task
  BY DEF Resumed, Task
<1>3. SendsAll(t) \in Task
  BY <1>1, <1>2 DEF SendsAll, Task
<1>4. ASSUME NEW k \in 0..Len(Out[a]), NEW how \in {"reject", "raise"}
      PROVE  SendsPart(t, k, how) \in Task
  <2>1. SubSeq(Out[a], 1, k) \in Seq(Port)
    BY <1>1, SubSeqProperties
  <2>2. QED
    BY <1>2, <2>1 DEF SendsPart, Task
<1>5. CASE t.phase = "send"
  BY <1>5 DEF Course
<1>6. CASE t.phase = "begin"
  BY <1>2, <1>3, <1>4, <1>6, CourseCases
<1>7. CASE t.phase \notin {"send", "begin"}
  BY <1>7 DEF Course
<1>8. QED
  BY <1>5, <1>6, <1>7

(* The queues a task is to send to are queues of the network.              *)
LEMMA PlansType ==
  ASSUME NEW t \in Task, NEW u \in Plans(t)
  PROVE  u \in Task /\ (Raised(u) => MayRescue(u))
<1>1. PICK v \in Course(t) : u = IF Raised(v) /\ ~MayRescue(v) THEN ToErrors(v) ELSE v
  BY DEF Plans
<1>2. v \in Task
  BY CourseType
<1>3. ToErrors(v) \in Task /\ ~Raised(ToErrors(v))
  BY <1>2, NetAssumption DEF ToErrors, Task, Raised
<1>4. QED
  BY <1>1, <1>2, <1>3

-----------------------------------------------------------------------------
(* The invariant holds before anything runs.                               *)
LEMMA InitIInv == Init => IInv
<1> SUFFICES ASSUME Init PROVE IInv
  OBVIOUS
<1>1. queue \in [Queue -> QueueType(Copy, Copy)] /\ QueuesSound
  BY EmptyQueueSound DEF Init, QueuesSound
<1>2. run \in [Actor -> BOOLEAN] /\ loop \in [Actor -> BOOLEAN]
  BY DEF Init
<1>3. consumer \in [Queue -> {"begin", "wait", "busy", "drain", "exited"}]
  BY DEF Init
<1>4. tasks \in SUBSET Task
  <2>1. ASSUME NEW e \in Event PROVE SenderOf(e) \in Task
    <3>1. Entry[e] \in Actor /\ Out[Entry[e]] \in Seq(Port)
      BY NetAssumption
    <3>2. NewTask(Entry[e], NoQueue, Fresh(e), FALSE) \in Task
      BY <3>1, FreshType, NewTaskType
    <3>3. QED
      BY <3>1, <3>2 DEF SenderOf, Task
  <2>2. QED
    BY <2>1 DEF Init
<1>5. copies \in SUBSET Copy /\ settled \in SUBSET Settled
  BY FreshType DEF Init
<1>6. QED
  BY <1>1, <1>2, <1>3, <1>4, <1>5 DEF IInv, TypeOK

(* Every step of an actor, a greenlet or the hub keeps it.                 *)
LEMMA StepIInv == IInv /\ [Next]_vars => IInv'
<1> SUFFICES ASSUME IInv, [Next]_vars PROVE IInv'
  OBVIOUS
<1> DEFINE QType == QueueType(Copy, Copy)
           QueuesOK == queue \in [Queue -> QType] /\ \A q \in Queue : QueueSound(queue[q])
           Where == {"begin", "wait", "busy", "drain", "exited"}
<1>0. /\ QueuesOK
      /\ run \in [Actor -> BOOLEAN] /\ loop \in [Actor -> BOOLEAN]
      /\ consumer \in [Queue -> Where]
      /\ tasks \in SUBSET Task /\ copies \in SUBSET Copy /\ settled \in SUBSET Settled
  BY DEF IInv, TypeOK, QueuesSound
<1>1. ASSUME QueuesOK',
             run' \in [Actor -> BOOLEAN], loop' \in [Actor -> BOOLEAN],
             consumer' \in [Queue -> Where],
             tasks' \in SUBSET Task, copies' \in SUBSET Copy, settled' \in SUBSET Settled
      PROVE  IInv'
  BY <1>1 DEF IInv, TypeOK, QueuesSound, QueueSound, ItemsAnnounced, PuttersServed,
              WithinSize, HasRoom
<1>2. ASSUME NEW q \in Queue, NEW r \in QType, QueueSound(r),
             queue' = [queue EXCEPT ![q] = r]
      PROVE  QueuesOK'
  <2>1. queue' \in [Queue -> QType]
    BY <1>0, <1>2
  <2>2. ASSUME NEW p \in Queue PROVE QueueSound(queue'[p])
    BY <1>0, <1>2
  <2>3. QED
    BY <2>1, <2>2 DEF QueueSound, ItemsAnnounced, PuttersServed, WithinSize, HasRoom
<1>3. ASSUME queue' = queue PROVE QueuesOK'
  BY <1>0, <1>3
<1>4. ASSUME NEW a \in Actor PROVE NextTurn(a) \in Where
  BY DEF NextTurn
<1>5. ASSUME NEW t \in Task, consumer' = ConsumerAfter(t)
      PROVE  consumer' \in [Queue -> Where]
  BY <1>0, <1>4, <1>5 DEF ConsumerAfter, Task
<1>6. ASSUME NEW q \in Queue
      PROVE  TasksFor(q) \subseteq Task
  <2>1. Reader[q] \in Actor
    BY NetAssumption
  <2>2. \A i \in DOMAIN queue[q].items : queue[q].items[i] \in Copy
    BY <1>0 DEF QueueType
  <2>3. QED
    BY <2>1, <2>2, NewTaskType DEF TasksFor
<1>7. ASSUME NEW q \in Queue
      PROVE  Emptied(queue[q]) \in QType /\ QueueSound(Emptied(queue[q]))
             /\ Emptied(queue[q]).items = <<>>
  BY <1>0, EmptiedKeeps
<1> HIDE DEF QType, QueuesOK, Where
<1>10. ASSUME NEW a \in Actor, Start(a) PROVE IInv'
  BY <1>0, <1>1, <1>3, <1>10 DEF Start
<1>11. ASSUME NEW a \in Actor, Stop(a) PROVE IInv'
  BY <1>0, <1>1, <1>3, <1>11 DEF Stop
<1>12. ASSUME NEW q \in Queue, WakePutter(q) PROVE IInv'
  <2>1. Admit(queue[q]) \in QType /\ QueueSound(Admit(queue[q]))
    BY <1>0, <1>12, AdmitKeeps DEF WakePutter, QueuesOK, QType
  <2>2. QueuesOK'
    BY <1>2, <1>12, <2>1 DEF WakePutter
  <2>3. PICK t \in tasks :
          IF t.end = "requeue"
            THEN tasks' = tasks \ {t} /\ consumer' = ConsumerAfter(t)
            ELSE tasks' = (tasks \ {t}) \cup {Resumed(t)} /\ UNCHANGED consumer
    BY <1>12 DEF WakePutter
  <2>4. t \in Task /\ Resumed(t) \in Task
    BY <1>0 DEF Resumed, Task
  <2>5. QED
    BY <1>0, <1>1, <1>5, <1>12, <2>2, <2>3, <2>4 DEF WakePutter
<1>13. ASSUME NEW q \in Queue, UnlockEnds(q) PROVE IInv'
  <2>1. EndUnlock(queue[q]) \in QType /\ QueueSound(EndUnlock(queue[q]))
    BY <1>0, <1>13, EndUnlockKeeps DEF UnlockEnds, QueuesOK, QType
  <2>2. QueuesOK'
    BY <1>2, <1>13, <2>1 DEF UnlockEnds
  <2>3. QED
    BY <1>0, <1>1, <1>13, <2>2 DEF UnlockEnds
<1>14. ASSUME NEW q \in Queue, Enter(q) PROVE IInv'
  <2>1. consumer' \in [Queue -> Where]
    BY <1>0, <1>4, <1>14, NetAssumption DEF Enter
  <2>2. QED
    BY <1>0, <1>1, <1>3, <1>14, <2>1 DEF Enter
<1>15. ASSUME NEW q \in Queue, ConsumeAll(q) PROVE IInv'
  <2> DEFINE r == Emptied(queue[q])
  <2>1. /\ r \in QType /\ QueueSound(r)
        /\ GetEmpty(r) \in QType /\ QueueSound(GetEmpty(r))
    BY <1>7, GetEmptyKeeps DEF QType
  <2>2. QueuesOK'
    <3>1. queue' = [queue EXCEPT ![q] = GetEmpty(r)] \/ queue' = [queue EXCEPT ![q] = r]
      BY <1>15 DEF ConsumeAll
    <3>2. QED
      BY <1>2, <2>1, <3>1
  <2>3. consumer' \in [Queue -> Where]
    BY <1>0, <1>15 DEF ConsumeAll, Where
  <2>4. tasks' \in SUBSET Task
    BY <1>0, <1>6, <1>15 DEF ConsumeAll
  <2>5. QED
    BY <1>0, <1>1, <1>15, <2>2, <2>3, <2>4 DEF ConsumeAll
<1>16. ASSUME NEW q \in Queue, ConsumeInline(q) PROVE IInv'
  <2>1. /\ Get(queue[q]) \in QType /\ QueueSound(Get(queue[q]))
        /\ Head(queue[q].items) \in Copy
    BY <1>0, <1>16, GetKeeps DEF ConsumeInline, QueuesOK, QType
  <2>2. QueuesOK'
    BY <1>2, <1>16, <2>1 DEF ConsumeInline
  <2>3. consumer' \in [Queue -> Where]
    BY <1>0, <1>16 DEF ConsumeInline, Where
  <2>4. NewTask(Reader[q], q, Head(queue[q].items), TRUE) \in Task
    BY <2>1, NewTaskType, NetAssumption
  <2>5. QED
    BY <1>0, <1>1, <1>16, <2>2, <2>3, <2>4 DEF ConsumeInline
<1>17. ASSUME NEW q \in Queue, ConsumeNothing(q) PROVE IInv'
  <2>1. GetEmpty(queue[q]) \in QType /\ QueueSound(GetEmpty(queue[q]))
    BY <1>0, <1>17, GetEmptyKeeps DEF ConsumeNothing, QueuesOK, QType
  <2>2. QueuesOK'
    BY <1>2, <1>17, <2>1 DEF ConsumeNothing
  <2>3. consumer' \in [Queue -> Where]
    BY <1>0, <1>4, <1>17, NetAssumption DEF ConsumeNothing
  <2>4. QED
    BY <1>0, <1>1, <1>17, <2>2, <2>3 DEF ConsumeNothing
<1>18. ASSUME NEW q \in Queue, Drain(q) PROVE IInv'
  <2>1. QueuesOK'
    BY <1>2, <1>7, <1>18 DEF Drain
  <2>2. consumer' \in [Queue -> Where]
    BY <1>0, <1>18 DEF Drain, Where
  <2>3. QED
    BY <1>0, <1>1, <1>6, <1>18, <2>1, <2>2 DEF Drain
<1>19. ASSUME NEW t \in tasks, Send(t) PROVE IInv'
  <2>1. PICK u \in Plans(t) :
          LET q == Leads[Head(u.todo)]
              c == Sent(u.event, u.actor, Head(u.todo))
          IN  /\ u.todo # <<>>
              /\ queue' = [queue EXCEPT ![q] = Put(@, c, u.event)]
              /\ Becomes(t, [u EXCEPT !.todo = Tail(@),
                                      !.phase = IF HasRoom(queue[q]) THEN "send" ELSE "parked"])
              /\ copies' = copies \cup {c}
              /\ UNCHANGED <<run, loop, consumer, settled>>
    BY <1>19 DEF Send
  <2> DEFINE q == Leads[Head(u.todo)]
             c == Sent(u.event, u.actor, Head(u.todo))
             p == IF HasRoom(queue[q]) THEN "send" ELSE "parked"
  <2>2. u \in Task
    BY <1>0, PlansType
  <2>3. /\ u.event \in Copy /\ u.actor \in Actor /\ u.todo \in Seq(Port) /\ u.todo # <<>>
    BY <2>1, <2>2 DEF Task
  <2>4. Head(u.todo) \in Port /\ q \in Queue /\ Tail(u.todo) \in Seq(Port)
    BY <2>3, HeadTail, NetAssumption
  <2>5. c \in Copy
    BY <2>3, <2>4, SentType
  <2>6. Put(queue[q], c, u.event) \in QType /\ QueueSound(Put(queue[q], c, u.event))
    BY <1>0, <2>3, <2>4, <2>5, PutKeeps DEF QueuesOK, QType
  <2>7. QueuesOK'
    BY <1>2, <2>1, <2>4, <2>6
  <2>8. [u EXCEPT !.todo = Tail(@), !.phase = p] \in Task
    <3>1. p \in {"send", "parked"}
      OBVIOUS
    <3> HIDE DEF p
    <3>2. QED
      BY <2>2, <2>4, <3>1 DEF Task
  <2>9. tasks' \in SUBSET Task
    BY <1>0, <2>1, <2>8 DEF Becomes
  <2>10. QED
    BY <1>0, <1>1, <2>1, <2>5, <2>7, <2>9
<1>20. ASSUME NEW t \in tasks, NEW u \in Task, NEW how \in {"done", "rejected", "errored"},
              Settle(t, how), UNCHANGED <<queue, run, loop, copies>>
       PROVE  IInv'
  <2>1. t \in Task
    BY <1>0
  <2>2. [event |-> t.event, actor |-> t.actor, how |-> how] \in Settled
    BY <2>1 DEF Task, Settled
  <2>3. QED
    BY <1>0, <1>1, <1>3, <1>5, <1>20, <2>1, <2>2 DEF Settle
<1>21. ASSUME NEW t \in tasks, Return(t) PROVE IInv'
  <2>1. PICK u \in Plans(t) :
          Settle(t, Outcome(u)) /\ UNCHANGED <<queue, run, loop, copies>>
    BY <1>21 DEF Return
  <2>2. u \in Task /\ Outcome(u) \in {"done", "rejected", "errored"}
    BY <1>0, PlansType DEF Outcome
  <2>3. QED
    BY <1>20, <2>1, <2>2
<1>23. ASSUME NEW t \in tasks, StartRescue(t) PROVE IInv'
  <2>1. PICK u \in Plans(t) :
          LET c == [u.event EXCEPT !.tries[u.actor] = @ + 1]
          IN  /\ Raised(u)
              /\ Becomes(t, [u EXCEPT !.phase = "asleep", !.end = "requeue", !.event = c])
              /\ copies' = (copies \ {u.event}) \cup {c}
              /\ UNCHANGED <<queue, run, loop, consumer, settled>>
    BY <1>23 DEF StartRescue
  <2> DEFINE c == [u.event EXCEPT !.tries[u.actor] = @ + 1]
  <2>2. u \in Task /\ MayRescue(u)
    BY <1>0, <2>1, PlansType
  <2>3. c \in Copy
    <3>1. /\ u.actor \in Actor /\ u.event \in Copy
          /\ u.event.tries \in [Actor -> 0..MaxRescue]
          /\ u.event.tries[u.actor] < MaxRescue
      BY <2>2 DEF Task, Copy, MayRescue
    <3>2. [u.event.tries EXCEPT ![u.actor] = @ + 1] \in [Actor -> 0..MaxRescue]
      BY <3>1, OneMoreTry
    <3>3. QED
      BY <3>1, <3>2 DEF Copy
  <2>4. [u EXCEPT !.phase = "asleep", !.end = "requeue", !.event = c] \in Task
    <3> HIDE DEF c
    <3>1. QED
      BY <2>2, <2>3 DEF Task
  <2>5. QED
    BY <1>0, <1>1, <1>3, <2>1, <2>3, <2>4, SMTT(40) DEF Becomes
<1>24. ASSUME NEW t \in tasks, EndRescue(t) PROVE IInv'
  <2>1. t \in Task /\ t.event \in Copy
    BY <1>0 DEF Task
  <2>2. QueuesOK'
    <3>1. CASE t.origin \in Queue
      <4>1. LET r == Put(queue[t.origin], t.event, t.event)
            IN  r \in QType /\ QueueSound(r)
        BY <1>0, <2>1, <3>1, PutKeeps DEF QueuesOK, QType
      <4>2. QED
        BY <1>2, <1>24, <3>1, <4>1 DEF EndRescue
    <3>2. CASE t.origin \notin Queue
      <4>1. queue' = queue
        BY <1>0, <1>24, <3>2 DEF EndRescue, QueuesOK
      <4>2. QED
        BY <1>3, <4>1
    <3>3. QED
      BY <3>1, <3>2
  <2>3. [t EXCEPT !.phase = "parked"] \in Task
    BY <2>1 DEF Task
  <2>4. QED
    BY <1>0, <1>1, <1>5, <1>24, <2>1, <2>2, <2>3 DEF EndRescue, Becomes
<1>25. CASE UNCHANGED vars
  BY <1>0, <1>1, <1>3, <1>25 DEF vars
<1>26. QED
  BY <1>10, <1>11, <1>12, <1>13, <1>14, <1>15, <1>16, <1>17, <1>18, <1>19, <1>21,
     <1>23, <1>24, <1>25
     DEF Next, Hub, Consumer, TaskStep

(* Queues, consumers, tasks and rescue counters keep their types; rescue   *)
(* counters never pass max_rescue.                                         *)
THEOREM NetTypeCorrect == Spec => []TypeOK
<1>1. IInv => TypeOK
  BY DEF IInv
<1>2. QED
  BY InitIInv, StepIInv, <1>1, PTL DEF Spec

(* In every network, whatever its actors do, and stopped or not: no queue  *)
(* leaves its consumer asleep beside an event or a putter asleep beside a  *)
(* slot nobody will hand out, and none exceeds its size.                   *)
THEOREM NetQueuesSound == Spec => []QueuesSound
<1>1. IInv => QueuesSound
  BY DEF IInv
<1>2. QED
  BY InitIInv, StepIInv, <1>1, PTL DEF Spec

-----------------------------------------------------------------------------
(* Ports are sent through in the order of a sequence without repetition,   *)
(* and so is every part of it.                                             *)
LEMMA PortsDistinct ==
  ASSUME NEW a \in Actor
  PROVE  /\ Distinct(Out[a]) /\ Distinct(Err[a]) /\ Distinct(<<>>)
         /\ Entries(Out[a]) \cap Entries(Err[a]) = {}
         /\ Entries(<<>>) = {}
         /\ \A k \in 0..Len(Out[a]) :
              LET s == SubSeq(Out[a], 1, k)
              IN  Distinct(s) /\ Entries(s) \subseteq Entries(Out[a])
<1>1. Distinct(Out[a]) /\ Distinct(Err[a]) /\ Distinct(<<>>) /\ Entries(<<>>) = {}
  BY PortAssumption DEF Distinct, Entries
<1>2. Entries(Out[a]) \cap Entries(Err[a]) = {}
  BY PortAssumption DEF Entries
<1>3. ASSUME NEW k \in 0..Len(Out[a])
      PROVE  LET s == SubSeq(Out[a], 1, k)
             IN  Distinct(s) /\ Entries(s) \subseteq Entries(Out[a])
  <2> DEFINE s == SubSeq(Out[a], 1, k)
  <2>1. Out[a] \in Seq(Port) /\ Len(Out[a]) \in Nat /\ DOMAIN Out[a] = 1..Len(Out[a])
    BY NetAssumption
  <2>2. DOMAIN s = 1..k /\ \A i \in 1..k : s[i] = Out[a][i]
    BY <2>1, SubSeqProperties
  <2>3. 1..k \subseteq DOMAIN Out[a]
    BY <2>1
  <2> HIDE DEF s
  <2>4. QED
    BY <1>1, <2>2, <2>3 DEF Distinct, Entries, s
<1>4. QED
  BY <1>1, <1>2, <1>3

(* A send through port p made d of c just if somebody reached d.           *)
LEMMA ReachedMeansMade ==
  ASSUME NEW a \in Actor, NEW c \in Copy, NEW p \in Port
  PROVE  LET l == [port |-> p, tries |-> c.tries[a]]
         IN  /\ l \in Leg /\ l.port = p /\ l.tries = c.tries[a]
             /\ Reached(a, c, p) <=> \E d \in copies : MadeBy(d, c, l)
<1> DEFINE l == [port |-> p, tries |-> c.tries[a]]
<1>1. l \in Leg /\ l.port = p /\ l.tries = c.tries[a]
  BY DEF Leg, Copy
<1>2. Sent(c, a, p).via = Append(c.via, l)
  BY DEF Sent, Copy
<1> HIDE DEF l
<1>3. QED
  BY <1>1, <1>2 DEF Reached, MadeBy, l

(* What a task is with, and for whom.                                      *)
SameWork(u, t) ==
  u.event = t.event /\ u.actor = t.actor /\ u.origin = t.origin /\ u.inline = t.inline

(* Whatever consume is about to do, the sends to come fit those made.      *)
LEMMA CourseSound ==
  ASSUME NEW t \in Task, NEW v \in Course(t), TaskSound(t)
  PROVE  /\ SameWork(v, t) /\ v.phase = "send" /\ t.phase \in {"begin", "send"}
         /\ TaskSound(v)
<1> DEFINE a == t.actor
           e == t.event
<1>1. a \in Actor /\ e \in Copy /\ Out[a] \in Seq(Port)
  BY NetAssumption DEF Task
<1>2. CASE t.phase = "send"
  BY <1>2 DEF Course, SameWork
<1>3. CASE t.phase = "begin"
  <2>1. /\ t.todo = <<>> /\ t.end = "return" /\ t.failed = FALSE
        /\ \A d \in copies, l \in Leg : MadeBy(d, e, l) => l.tries # e.tries[a]
    <3>1. t.failed \in BOOLEAN
      BY DEF Task
    <3>2. QED
      BY <1>3, <3>1 DEF TaskSound, TaskShape, NotSentYet
  <2>2. /\ v \in Task /\ SameWork(v, t) /\ v.phase = "send" /\ v.failed = FALSE
        /\ \/ v.todo = Out[a] /\ v.end = "return"
           \/ v.todo = <<>> /\ v.end = "return"
           \/ /\ \E k \in 0..Len(Out[a]) : v.todo = SubSeq(Out[a], 1, k)
              /\ v.end \in {"reject", "raise"}
    <3> DEFINE w == Resumed(t)
    <3>1. /\ w \in Task /\ SameWork(w, t) /\ w.phase = "send" /\ w.failed = FALSE
          /\ w.todo = <<>> /\ w.end = "return"
      BY <2>1 DEF Task, SameWork, Resumed
    <3>2. \/ v = SendsAll(t)
          \/ v = w
          \/ \E k \in 0..Len(Out[a]), how \in {"reject", "raise"} : v = SendsPart(t, k, how)
      BY <1>3, CourseCases
    <3>3. v \in Task
      BY CourseType
    <3> HIDE DEF w
    <3>4. CASE v = SendsAll(t)
      BY <3>1, <3>3, <3>4 DEF Task, SameWork, SendsAll, w
    <3>5. ASSUME NEW k \in 0..Len(Out[a]), NEW how \in {"reject", "raise"},
                 v = SendsPart(t, k, how)
          PROVE  /\ SameWork(v, t) /\ v.phase = "send" /\ v.failed = FALSE
                 /\ v.todo = SubSeq(Out[a], 1, k) /\ v.end \in {"reject", "raise"}
      BY <3>1, <3>5 DEF Task, SameWork, SendsPart, w
    <3>6. QED
      BY <3>1, <3>2, <3>3, <3>4, <3>5
  <2>3. Distinct(v.todo) /\ Entries(v.todo) \subseteq Entries(Out[a])
    BY <1>1, <2>2, PortsDistinct
  <2>4. TaskShape(v)
    BY <1>3, <2>2, <2>3 DEF TaskSound, TaskShape, SameWork
  <2>5. NotSentYet(v)
    BY <2>1, <2>2 DEF NotSentYet, SameWork
  <2>6. AllOrNone(v)
    <3>1. ASSUME NEW p \in Port PROVE ~Reached(a, e, p)
      <4> DEFINE l == [port |-> p, tries |-> e.tries[a]]
      <4>1. /\ l \in Leg /\ l.tries = e.tries[a]
            /\ Reached(a, e, p) <=> \E d \in copies : MadeBy(d, e, l)
        BY <1>1, ReachedMeansMade
      <4> HIDE DEF l
      <4>2. QED
        BY <2>1, <4>1
    <3>2. Entries(Out[a]) \subseteq Port
      BY <1>1 DEF Entries
    <3>3. QED
      BY <2>2, <3>1, <3>2 DEF AllOrNone, SameWork
  <2>7. QED
    BY <1>3, <2>2, <2>4, <2>5, <2>6 DEF TaskSound
<1>4. CASE t.phase \notin {"begin", "send"}
  BY <1>4 DEF Course
<1>5. QED
  BY <1>2, <1>3, <1>4

(* And so they do when the task turns to the error ports instead.          *)
LEMMA PlansSound ==
  ASSUME NEW t \in Task, NEW u \in Plans(t), TaskSound(t),
         \A a \in Actor \ Rescue : t.event.tries[a] = 0
  PROVE  /\ SameWork(u, t) /\ u.phase = "send" /\ t.phase \in {"begin", "send"}
         /\ TaskSound(u)
<1>1. PICK v \in Course(t) : u = IF Raised(v) /\ ~MayRescue(v) THEN ToErrors(v) ELSE v
  BY DEF Plans
<1>2. /\ v \in Task /\ SameWork(v, t) /\ v.phase = "send" /\ t.phase \in {"begin", "send"}
      /\ TaskSound(v)
  BY CourseSound, CourseType
<1>3. CASE Raised(v) /\ ~MayRescue(v)
  <2> DEFINE a == t.actor
             e == t.event
  <2>1. a \in Actor /\ e \in Copy
    BY DEF Task
  <2>2. /\ SameWork(u, t) /\ u.phase = "send" /\ u.todo = Err[a] /\ u.end = "return"
        /\ u.failed = TRUE
    BY <1>1, <1>2, <1>3 DEF ToErrors, Task, SameWork
  <2>3. v.end = "raise" /\ ~v.failed
    BY <1>2, <1>3 DEF Raised, TaskSound, TaskShape
  <2>4. e.tries[a] = Limit(a)
    <3>1. a \notin Rescue \/ ~(e.tries[a] < MaxRescue)
      BY <1>2, <1>3 DEF MayRescue, SameWork
    <3>2. e.tries[a] \in 0..MaxRescue
      BY <2>1 DEF Copy
    <3>3. QED
      BY <2>1, <3>1, <3>2, NetAssumption DEF Limit
  <2>5. TaskShape(u)
    BY <1>2, <2>1, <2>2, <2>3, <2>4, PortsDistinct DEF TaskSound, TaskShape, SameWork
  <2>6. NotSentYet(u)
    BY <1>2, <2>2, <2>3 DEF TaskSound, NotSentYet, SameWork
  <2>7. AllOrNone(u)
    BY <2>2 DEF AllOrNone, SameWork
  <2>8. QED
    BY <1>2, <2>2, <2>5, <2>6, <2>7 DEF TaskSound
<1>4. QED
  BY <1>1, <1>2, <1>3

-----------------------------------------------------------------------------
(* Of copies and of settled events nothing but copies and settled speaks.  *)
LEMMA CopiesStay ==
  ASSUME CopiesSound, copies' = copies PROVE CopiesSound'
  BY DEF CopiesSound, OneOfEach, MadeOfCopies, TriesGrow, CountedByRescuers,
         ErrorOnlyAfterRescues

LEMMA SettledStay ==
  ASSUME SendsComplete, copies' = copies, settled' = settled PROVE SendsComplete'
  BY DEF SendsComplete, Reached

(* The accounts through each kind of step.  First: nothing moves.          *)
LEMMA NothingStep ==
  ASSUME Accounts,
         \A q \in Queue : /\ Tidy(queue'[q])
                          /\ Held(queue'[q]) = Held(queue[q])
                          /\ Awaited(queue'[q]) = Awaited(queue[q]),
         tasks' = tasks, copies' = copies, settled' = settled
  PROVE  Accounts'
<1>1. TasksSound'
  BY DEF Accounts, TasksSound, NotSentYet, AllOrNone, Reached
<1>2. CopiesSound'
  BY CopiesStay DEF Accounts
<1>3. Worked' = Worked /\ Over' = Over
  BY DEF Worked, Over
<1>4. QueuedRight'
  BY <1>3 DEF Accounts, QueuedRight
<1>5. OnePlace'
  BY <1>3 DEF Accounts, OnePlace
<1>6. SendsComplete'
  BY SettledStay DEF Accounts
<1>7. QED
  BY <1>1, <1>2, <1>4, <1>5, <1>6 DEF Accounts

(* A consumer takes events B off its queue and starts a task for each.     *)
LEMMA TakeStep ==
  ASSUME IInv, Accounts, NEW q \in Queue, NEW B, NEW inline \in BOOLEAN,
         B \subseteq Held(queue[q]),
         \A p \in Queue :
           /\ Tidy(queue'[p])
           /\ Held(queue'[p]) = IF p = q THEN Held(queue[p]) \ B ELSE Held(queue[p])
           /\ Awaited(queue'[p]) = Awaited(queue[p]),
         tasks' = tasks \cup {NewTask(Reader[q], q, c, inline) : c \in B},
         copies' = copies, settled' = settled
  PROVE  Accounts'
<1> DEFINE new == {NewTask(Reader[q], q, c, inline) : c \in B}
<1>0. copies \subseteq Copy
  BY DEF IInv, TypeOK
<1>1. ASSUME NEW c \in B
      PROVE  /\ c \in copies /\ c.via # <<>> /\ Leads[LastPort(c)] = q
             /\ \A d \in copies, l \in Leg : MadeBy(d, c, l) => l.tries < c.tries[At(c)]
             /\ c \notin Worked /\ c \notin Over
  BY DEF Accounts, QueuedRight
<1>2. ASSUME NEW c \in B
      PROVE  LET t == NewTask(Reader[q], q, c, inline)
             IN  TaskSound(t) /\ Holding(t) /\ t.event = c
  <2> DEFINE t == NewTask(Reader[q], q, c, inline)
  <2>1. /\ t.actor = Reader[q] /\ t.origin = q /\ t.event = c /\ t.phase = "begin"
        /\ t.todo = <<>> /\ t.end = "return" /\ t.failed = FALSE
    BY DEF NewTask
  <2> HIDE DEF t
  <2>2. q # NoQueue /\ Reader[q] \in Actor
    BY NetAssumption
  <2>3. At(c) = Reader[q]
    BY <1>1 DEF At
  <2>4. TaskShape(t)
    BY <1>1, <2>1, <2>2, <2>3, PortsDistinct DEF TaskShape
  <2>5. NotSentYet(t)
    <3> SUFFICES ASSUME NEW d \in copies, NEW l \in Leg, MadeBy(d, c, l),
                        l.tries = c.tries[Reader[q]]
                 PROVE  FALSE
      BY <2>1 DEF NotSentYet
    <3>1. l.tries \in Int /\ l.tries < c.tries[Reader[q]]
      BY <1>1, <2>3, NetAssumption DEF Leg
    <3>2. QED
      BY <3>1
  <2>6. AllOrNone(t)
    BY <2>1 DEF AllOrNone
  <2>7. QED
    BY <2>1, <2>4, <2>5, <2>6 DEF TaskSound, Holding, t
<1>3. TasksSound'
  <2> SUFFICES ASSUME NEW t \in tasks'
               PROVE  (TaskShape(t) /\ (Holding(t) => /\ NotSentYet(t) /\ AllOrNone(t)
                                                     /\ t.event \in copies))'
    BY DEF TasksSound
  <2>1. TaskShape(t) /\ (Holding(t) => NotSentYet(t) /\ AllOrNone(t) /\ t.event \in copies)
    BY <1>1, <1>2 DEF Accounts, TasksSound, TaskSound
  <2>2. QED
    BY <2>1 DEF NotSentYet, AllOrNone, Reached
<1>4. CopiesSound'
  BY CopiesStay DEF Accounts
<1>5. Worked' = Worked \cup B /\ Over' = Over
  <2>1. ASSUME NEW c \in B PROVE c \in Worked'
    BY <1>2 DEF Worked
  <2>2. ASSUME NEW t \in tasks', Holding(t) PROVE t.event \in Worked \cup B
    BY <1>2, <2>2 DEF Worked
  <2>3. QED
    BY <2>1, <2>2 DEF Worked, Over
<1>6. QueuedRight'
  <2> SUFFICES ASSUME NEW p \in Queue, NEW c \in Held(queue'[p]) \cup Awaited(queue'[p])
               PROVE  c \notin B /\ c \in Held(queue[p]) \cup Awaited(queue[p])
    BY <1>5 DEF Accounts, QueuedRight
  <2>1. c \in Held(queue[p]) \cup Awaited(queue[p])
    OBVIOUS
  <2>2. CASE p = q
    BY <2>1, <2>2 DEF Accounts, QueuedRight, Tidy
  <2>3. CASE p # q
    BY <1>1, <2>1, <2>3 DEF Accounts, QueuedRight
  <2>4. QED
    BY <2>1, <2>2, <2>3
<1>7. OnePlace'
  <2>1. ASSUME NEW t \in tasks', NEW u \in tasks', Holding(t), Holding(u), t.event = u.event
        PROVE  t = u
    <3>1. CASE t \in tasks /\ u \in tasks
      BY <2>1, <3>1 DEF Accounts, OnePlace
    <3>2. CASE t \in new /\ u \in new
      BY <1>2, <2>1, <3>2
    <3>3. CASE t \in tasks /\ u \in new
      BY <1>1, <1>2, <2>1, <3>3 DEF Worked
    <3>4. CASE t \in new /\ u \in tasks
      BY <1>1, <1>2, <2>1, <3>4 DEF Worked
    <3>5. QED
      BY <3>1, <3>2, <3>3, <3>4
  <2>2. \A c \in copies :
          \/ c \in Worked' \/ c \in Over'
          \/ \E p \in Queue : c \in Held(queue'[p]) \cup Awaited(queue'[p])
    BY <1>5 DEF Accounts, OnePlace
  <2>3. Worked' \cap Over' = {}
    BY <1>1, <1>5 DEF Accounts, OnePlace
  <2>4. QED
    BY <1>5, <2>1, <2>2, <2>3 DEF Accounts, OnePlace
<1>8. SendsComplete'
  BY SettledStay DEF Accounts
<1>9. QED
  BY <1>3, <1>4, <1>6, <1>7, <1>8 DEF Accounts

(* The hub wakes a putter: item x is on the queue now, and the task that   *)
(* brought it goes on or, if that was all it waited for, is over.          *)
LEMMA AdmitStep ==
  ASSUME IInv, Accounts, NEW q \in Queue, NEW x \in Awaited(queue[q]),
         \A p \in Queue :
           /\ Tidy(queue'[p])
           /\ Held(queue'[p]) = IF p = q THEN Held(queue[p]) \cup {x} ELSE Held(queue[p])
           /\ Awaited(queue'[p]) = IF p = q THEN Awaited(queue[p]) \ {x}
                                            ELSE Awaited(queue[p]),
         NEW t \in tasks, t.phase = "parked",
         tasks' = IF t.end = "requeue" THEN tasks \ {t}
                                       ELSE (tasks \ {t}) \cup {Resumed(t)},
         copies' = copies, settled' = settled
  PROVE  Accounts'
<1>0. t \in Task /\ TaskShape(t)
  BY DEF IInv, TypeOK, Accounts, TasksSound
<1>1. ASSUME t.end # "requeue"
      PROVE  /\ Holding(t) /\ Holding(Resumed(t)) /\ Resumed(t).event = t.event
             /\ TaskSound(Resumed(t))
  <2> DEFINE u == Resumed(t)
  <2>1. /\ SameWork(u, t) /\ u.phase = "send" /\ u.todo = t.todo /\ u.end = t.end
        /\ u.failed = t.failed
    BY <1>0 DEF Resumed, Task, SameWork
  <2>2. Holding(t) /\ Holding(u)
    BY <1>1, <2>1 DEF Holding
  <2>3. TaskSound(t)
    BY <2>2 DEF Accounts, TasksSound, TaskSound
  <2> HIDE DEF u
  <2>4. TaskShape(u)
    BY <1>1, <2>1, <2>3 DEF TaskSound, TaskShape, SameWork
  <2>5. NotSentYet(u) /\ AllOrNone(u)
    BY <2>1, <2>3 DEF TaskSound, NotSentYet, AllOrNone, SameWork
  <2>6. QED
    BY <2>1, <2>2, <2>4, <2>5 DEF TaskSound, SameWork, u
<1>2. TasksSound'
  <2> SUFFICES ASSUME NEW v \in tasks'
               PROVE  (TaskShape(v) /\ (Holding(v) => /\ NotSentYet(v) /\ AllOrNone(v)
                                                     /\ v.event \in copies))'
    BY DEF TasksSound
  <2>1. TaskShape(v) /\ (Holding(v) => NotSentYet(v) /\ AllOrNone(v) /\ v.event \in copies)
    BY <1>1 DEF Accounts, TasksSound, TaskSound
  <2>2. QED
    BY <2>1 DEF NotSentYet, AllOrNone, Reached
<1>3. CopiesSound'
  BY CopiesStay DEF Accounts
<1>4. Worked' = Worked /\ Over' = Over
  <2>1. CASE t.end = "requeue"
    BY <2>1 DEF Worked, Over, Holding
  <2>2. CASE t.end # "requeue"
    BY <1>1, <2>2 DEF Worked, Over
  <2>3. QED
    BY <2>1, <2>2
<1>5. QueuedRight'
  <2> SUFFICES ASSUME NEW p \in Queue, NEW c \in Held(queue'[p]) \cup Awaited(queue'[p])
               PROVE  c \in Held(queue[p]) \cup Awaited(queue[p])
    BY <1>4 DEF Accounts, QueuedRight
  <2>1. QED
    OBVIOUS
<1>6. OnePlace'
  <2>1. ASSUME NEW v \in tasks', NEW u \in tasks', Holding(v), Holding(u), v.event = u.event
        PROVE  v = u
    <3>1. v \in tasks \ {t} \/ (v = Resumed(t) /\ t.end # "requeue")
      OBVIOUS
    <3>2. u \in tasks \ {t} \/ (u = Resumed(t) /\ t.end # "requeue")
      OBVIOUS
    <3>3. QED
      BY <1>1, <2>1, <3>1, <3>2 DEF Accounts, OnePlace
  <2>2. \A c \in copies :
          \/ c \in Worked' \/ c \in Over'
          \/ \E p \in Queue : c \in Held(queue'[p]) \cup Awaited(queue'[p])
    BY <1>4 DEF Accounts, OnePlace
  <2>3. QED
    BY <1>4, <2>1, <2>2 DEF Accounts, OnePlace
<1>7. SendsComplete'
  BY SettledStay DEF Accounts
<1>8. QED
  BY <1>2, <1>3, <1>5, <1>6, <1>7 DEF Accounts

(* A task is over and nothing comes after it.                              *)
LEMMA SettleStep ==
  ASSUME IInv, Accounts, NEW t \in tasks, Holding(t),
         NEW how \in {"done", "rejected", "errored"},
         how = "errored" => \A p \in Entries(Err[t.actor]) : Reached(t.actor, t.event, p),
         how = "done" => \A p, o \in Entries(Out[t.actor]) :
           Reached(t.actor, t.event, p) => Reached(t.actor, t.event, o),
         queue' = queue, tasks' = tasks \ {t}, copies' = copies,
         settled' = settled \cup {[event |-> t.event, actor |-> t.actor, how |-> how]}
  PROVE  Accounts'
<1> DEFINE s == [event |-> t.event, actor |-> t.actor, how |-> how]
<1>1. TasksSound'
  BY DEF Accounts, TasksSound, NotSentYet, AllOrNone, Reached
<1>2. CopiesSound'
  BY CopiesStay DEF Accounts
<1>3. t.event \in copies /\ t.event \in Worked
  BY DEF Accounts, TasksSound, Worked
<1>4. Worked' = Worked \ {t.event}
  <2>1. \A u \in tasks : Holding(u) => (u.event = t.event <=> u = t)
    BY DEF Accounts, OnePlace
  <2>2. QED
    BY <2>1 DEF Worked
<1>5. Over' = Over \cup {t.event}
  <2>1. settled' = settled \cup {s} /\ s.event = t.event
    OBVIOUS
  <2> HIDE DEF s
  <2>2. QED
    BY <2>1 DEF Over
<1>6. QueuedRight'
  BY <1>3, <1>4, <1>5 DEF Accounts, QueuedRight
<1>7. OnePlace'
  <2>1. \A c \in copies :
          \/ c \in Worked' \/ c \in Over'
          \/ \E p \in Queue : c \in Held(queue'[p]) \cup Awaited(queue'[p])
    BY <1>4, <1>5 DEF Accounts, OnePlace
  <2>2. t.event \notin Over
    BY <1>3 DEF Accounts, OnePlace
  <2>3. \A r \in settled' : r \in settled \/ r = s
    OBVIOUS
  <2>4. ASSUME NEW r \in settled', NEW o \in settled', r.event = o.event PROVE r = o
    <3>1. \A w \in settled : w.event # t.event
      BY <2>2 DEF Over
    <3>2. s.event = t.event
      OBVIOUS
    <3>3. QED
      BY <2>3, <2>4, <3>1, <3>2 DEF Accounts, OnePlace
  <2>5. \A v, u \in tasks' : Holding(v) /\ Holding(u) /\ v.event = u.event => v = u
    BY DEF Accounts, OnePlace
  <2>6. Over' \subseteq copies' /\ Worked' \cap Over' = {}
    BY <1>3, <1>4, <1>5 DEF Accounts, OnePlace
  <2>7. QED
    BY <2>1, <2>4, <2>5, <2>6 DEF OnePlace
<1>8. SendsComplete'
  <2> SUFFICES ASSUME NEW r \in settled'
               PROVE  LET a == r.actor
                      IN  /\ r.how = "errored" =>
                               \A i \in DOMAIN Err[a] : Reached(a, r.event, Err[a][i])
                          /\ r.how = "done" => \A i, j \in DOMAIN Out[a] :
                               Reached(a, r.event, Out[a][i]) => Reached(a, r.event, Out[a][j])
    BY DEF SendsComplete, Reached
  <2>1. CASE r \in settled
    BY <2>1 DEF Accounts, SendsComplete
  <2>2. CASE r = s
    <3>1. r.event = t.event /\ r.actor = t.actor /\ r.how = how
      BY <2>2
    <3>2. QED
      BY <3>1 DEF Entries
  <2>3. QED
    BY <2>1, <2>2
<1>9. QED
  BY <1>1, <1>2, <1>6, <1>7, <1>8 DEF Accounts

(* A rescued event, slept over, goes back to its queue.                    *)
LEMMA RequeueStep ==
  ASSUME IInv, Accounts, NEW t \in tasks, t.phase = "asleep", NEW q \in Queue, q = t.origin,
         NEW onQueue \in BOOLEAN,
         \A p \in Queue :
           /\ Tidy(queue'[p])
           /\ Held(queue'[p]) = IF p = q /\ onQueue THEN Held(queue[p]) \cup {t.event}
                                                     ELSE Held(queue[p])
           /\ Awaited(queue'[p]) = IF p = q /\ ~onQueue THEN Awaited(queue[p]) \cup {t.event}
                                                         ELSE Awaited(queue[p]),
         tasks' = IF onQueue THEN tasks \ {t}
                             ELSE (tasks \ {t}) \cup {[t EXCEPT !.phase = "parked"]},
         copies' = copies, settled' = settled
  PROVE  Accounts'
<1> DEFINE c == t.event
           w == [t EXCEPT !.phase = "parked"]
<1>0. /\ t \in Task /\ TaskShape(t) /\ Holding(t) /\ NotSentYet(t) /\ c \in copies
      /\ c \in Copy /\ copies \subseteq Copy /\ t.end = "requeue"
  BY DEF IInv, TypeOK, Accounts, TasksSound, Holding, TaskShape
<1>1. /\ SameWork(w, t) /\ w.phase = "parked" /\ w.todo = t.todo /\ w.end = "requeue"
      /\ w.failed = t.failed
  BY <1>0 DEF Task, SameWork
<1> HIDE DEF w
<1>2. TaskShape(w) /\ ~Holding(w)
  BY <1>0, <1>1 DEF TaskShape, Holding, SameWork
<1>3. TasksSound'
  <2> SUFFICES ASSUME NEW v \in tasks'
               PROVE  (TaskShape(v) /\ (Holding(v) => /\ NotSentYet(v) /\ AllOrNone(v)
                                                     /\ v.event \in copies))'
    BY DEF TasksSound
  <2>1. v \in tasks \/ v = w
    BY DEF w
  <2>2. TaskShape(v) /\ (Holding(v) => NotSentYet(v) /\ AllOrNone(v) /\ v.event \in copies)
    BY <1>2, <2>1 DEF Accounts, TasksSound
  <2>3. QED
    BY <2>2 DEF NotSentYet, AllOrNone, Reached
<1>4. CopiesSound'
  BY CopiesStay DEF Accounts
<1>5. Worked' = Worked \ {c} /\ Over' = Over /\ c \in Worked
  <2>1. \A u \in tasks : Holding(u) => (u.event = c <=> u = t)
    BY <1>0 DEF Accounts, OnePlace
  <2>2. tasks' = tasks \ {t} \/ tasks' = (tasks \ {t}) \cup {w}
    BY DEF w
  <2>3. QED
    BY <1>0, <1>2, <2>1, <2>2 DEF Worked, Over
<1>6. QueuedRight'
  <2> SUFFICES ASSUME NEW p \in Queue, NEW d \in Held(queue'[p]) \cup Awaited(queue'[p]),
                      d \notin Held(queue[p]) \cup Awaited(queue[p])
               PROVE  /\ d \in copies /\ d.via # <<>> /\ Leads[LastPort(d)] = p
                      /\ \A f \in copies, l \in Leg : MadeBy(f, d, l) => l.tries < d.tries[At(d)]
                      /\ d \notin Worked' /\ d \notin Over'
    <3>1. \A p \in Queue : \A d \in Held(queue[p]) \cup Awaited(queue[p]) :
            /\ d \in copies /\ d.via # <<>> /\ Leads[LastPort(d)] = p
            /\ \A f \in copies, l \in Leg : MadeBy(f, d, l) => l.tries < d.tries[At(d)]
            /\ d \notin Worked' /\ d \notin Over'
      BY <1>5 DEF Accounts, QueuedRight
    <3>2. \A p \in Queue : Tidy(queue'[p])
      OBVIOUS
    <3>3. copies' = copies
      OBVIOUS
    <3>4. QED
      BY <3>1, <3>2, <3>3, Zenon DEF QueuedRight
  <2>1. p = q /\ d = c
    OBVIOUS
  <2>2. c.via # <<>> /\ Leads[LastPort(c)] = q /\ t.actor = At(c)
    BY <1>0, NetAssumption DEF TaskShape
  <2>3. ASSUME NEW f \in copies, NEW l \in Leg, MadeBy(f, c, l)
        PROVE  l.tries < c.tries[At(c)]
    <3>1. l.tries # c.tries[At(c)]
      BY <1>0, <2>2, <2>3 DEF NotSentYet
    <3>2. l.tries <= c.tries[At(c)]
      BY <1>0, <2>3 DEF Accounts, CopiesSound, TriesGrow
    <3>3. l.tries \in Int /\ c.tries[At(c)] \in Int
      <4>1. t.actor \in Actor
        BY <1>0 DEF Task
      <4>2. QED
        BY <1>0, <2>2, <4>1, NetAssumption, SMTT(40) DEF Leg, Copy
    <3>4. QED
      BY <3>1, <3>2, <3>3
  <2>4. c \notin Worked' /\ c \notin Over'
    BY <1>5 DEF Accounts, OnePlace
  <2>5. QED
    BY <1>0, <2>1, <2>2, <2>3, <2>4
<1>7. OnePlace'
  <2>1. \A d \in copies :
          \/ d \in Worked' \/ d \in Over'
          \/ \E p \in Queue : d \in Held(queue'[p]) \cup Awaited(queue'[p])
    BY <1>5 DEF Accounts, OnePlace
  <2>2. ASSUME NEW v \in tasks', NEW u \in tasks', Holding(v), Holding(u), v.event = u.event
        PROVE  v = u
    <3>1. (v \in tasks \/ v = w) /\ (u \in tasks \/ u = w)
      BY DEF w
    <3>2. v \in tasks /\ u \in tasks
      BY <1>2, <2>2, <3>1
    <3>3. QED
      BY <2>2, <3>2 DEF Accounts, OnePlace
  <2>3. Over' \subseteq copies' /\ Worked' \cap Over' = {}
    BY <1>5 DEF Accounts, OnePlace
  <2>4. QED
    BY <2>1, <2>2, <2>3 DEF Accounts, OnePlace
<1>8. SendsComplete'
  BY SettledStay DEF Accounts
<1>9. QED
  BY <1>3, <1>4, <1>6, <1>7, <1>8 DEF Accounts

(* What a task that is about to send knows.                                *)
LEMMA SenderKnows ==
  ASSUME IInv, Accounts, NEW t \in tasks, NEW u \in Plans(t)
  PROVE  /\ t \in Task /\ u \in Task /\ SameWork(u, t) /\ Holding(t)
         /\ u.phase = "send" /\ TaskSound(u)
         /\ t.event \in copies /\ t.event \in Copy /\ t.event \in Worked
         /\ t.actor \in Actor /\ t.actor = At(t.event)
<1>1. /\ t \in Task /\ TaskShape(t) /\ t.actor \in Actor /\ t.actor = At(t.event)
      /\ t.event \in Copy
  BY DEF IInv, TypeOK, Accounts, TasksSound, TaskShape, Task
<1>2. t.phase \in {"begin", "send"}
  <2>1. PICK v \in Course(t) : TRUE
    BY DEF Plans
  <2>2. QED
    BY <2>1 DEF Course
<1>3. Holding(t)
  BY <1>2 DEF Holding
<1>4. TaskSound(t) /\ t.event \in copies /\ t.event \in Worked
  BY <1>3 DEF Accounts, TasksSound, TaskSound, Worked
<1>5. \A a \in Actor \ Rescue : t.event.tries[a] = 0
  BY <1>4 DEF Accounts, CopiesSound, CountedByRescuers
<1>6. QED
  BY <1>1, <1>3, <1>4, <1>5, PlansSound, PlansType

(* A list of sends shows its last one and those before.                    *)
LEMMA SameAppend ==
  ASSUME NEW r \in Seq(Leg), NEW s \in Seq(Leg), NEW l \in Leg, NEW m \in Leg,
         Append(r, l) = Append(s, m)
  PROVE  r = s /\ l = m
<1> DEFINE k == Len(r)
           z == Append(r, l)
<1>1. k \in Nat /\ Len(z) = k + 1 /\ z[k + 1] = l /\ \A i \in 1..k : z[i] = r[i]
  OBVIOUS
<1>2. Len(s) \in Nat /\ Len(z) = Len(s) + 1 /\ z[Len(s) + 1] = m /\ \A i \in 1..Len(s) : z[i] = s[i]
  OBVIOUS
<1> HIDE DEF z
<1>3. Len(s) = k /\ l = m
  BY <1>1, <1>2
<1>4. r = [i \in 1..k |-> r[i]] /\ s = [i \in 1..k |-> s[i]]
  BY <1>3, SequenceIsFunction
<1>5. \A i \in 1..k : r[i] = s[i]
  BY <1>1, <1>2, <1>3
<1>6. QED
  BY <1>3, <1>4, <1>5

(* Nothing made before looks like the copy that is sent now, and nothing   *)
(* was made of it.                                                         *)
LEMMA SentIsNew ==
  ASSUME IInv, Accounts, NEW t \in tasks, NEW u \in Plans(t), u.todo # <<>>,
         NEW n, n = Sent(u.event, u.actor, Head(u.todo)),
         NEW l, l = [port |-> Head(u.todo), tries |-> t.event.tries[t.actor]]
  PROVE  /\ l \in Leg /\ l.port = Head(u.todo) /\ l.tries = t.event.tries[t.actor]
         /\ n \in Copy /\ MadeBy(n, t.event, l) /\ n.tries = t.event.tries
         /\ \A d \in copies : ~(d.id = n.id /\ d.via = n.via)
         /\ \A d \in copies \cup {n}, m \in Leg : ~MadeBy(d, n, m)
         /\ \A c \in copies, m \in Leg : MadeBy(n, c, m) => c = t.event /\ m = l
         /\ n.via # <<>> /\ LastPort(n) = Head(u.todo)
<1> DEFINE e == t.event
           a == t.actor
           p == Head(u.todo)
<1>1. /\ u \in Task /\ SameWork(u, t) /\ TaskSound(u)
      /\ e \in copies /\ e \in Copy /\ a \in Actor /\ copies \subseteq Copy
  BY SenderKnows DEF IInv, TypeOK
<1>2. u.todo \in Seq(Port) /\ p \in Port /\ p \in Entries(u.todo)
  BY <1>1, HeadTail, TailEntries DEF Task
<1>3. l \in Leg /\ l.port = p /\ l.tries = e.tries[a]
  BY <1>1, <1>2 DEF Leg, Copy
<1>4. /\ n \in Copy /\ n.id = e.id /\ n.via = Append(e.via, l) /\ n.tries = e.tries
  <2>1. n = [e EXCEPT !.via = Append(e.via, l)]
    BY <1>1 DEF Sent, SameWork
  <2>2. n \in Copy
    BY <1>1, <1>2, SentType DEF SameWork
  <2>3. QED
    BY <1>1, <2>1, <2>2 DEF Copy
<1>5. ASSUME NEW d \in copies, d.id = n.id, d.via = n.via PROVE FALSE
  <2>1. MadeBy(d, e, l)
    BY <1>4, <1>5 DEF MadeBy
  <2>2. QED
    BY <1>1, <1>2, <1>3, <2>1 DEF TaskSound, NotSentYet, SameWork
<1>6. ASSUME NEW d \in Copy, NEW c \in Copy, NEW m \in Leg, NEW k \in Leg,
             MadeBy(d, c, m), d.via = Append(e.via, k)
      PROVE  c.via = e.via /\ m = k
  <2>1. d.via = Append(c.via, m) /\ c.via \in Seq(Leg) /\ e.via \in Seq(Leg)
    BY <1>1, <1>6 DEF MadeBy, Copy
  <2>2. QED
    <3>1. Append(c.via, m) = Append(e.via, k)
      BY <1>6, <2>1
    <3>2. c.via \in Seq(Leg) /\ e.via \in Seq(Leg)
      BY <2>1
    <3>3. \A r, s \in Seq(Leg) : \A x, y \in Leg :
            Append(r, x) = Append(s, y) => r = s /\ x = y
      BY SameAppend
    <3>4. c.via = e.via
      BY <3>1, <3>2, <3>3
    <3>5. m = k
      BY <3>1, <3>2, <3>3
    <3>6. QED
      BY <3>4, <3>5
<1>7. ASSUME NEW c \in copies, NEW m \in Leg, MadeBy(n, c, m) PROVE c = e /\ m = l
  <2>1. c.via = e.via /\ m = l /\ c.id = e.id
    BY <1>1, <1>3, <1>4, <1>6, <1>7 DEF MadeBy
  <2>2. QED
    BY <1>1, <2>1 DEF Accounts, CopiesSound, OneOfEach
<1>8. ASSUME NEW d \in copies \cup {n}, NEW m \in Leg, MadeBy(d, n, m) PROVE FALSE
  <2>1. n.via \in Seq(Leg) /\ d.via = Append(n.via, m) /\ d.id = n.id
    BY <1>4, <1>8 DEF Copy, MadeBy
  <2>2. d # n
    <3>1. Len(Append(n.via, m)) = Len(n.via) + 1 /\ Len(n.via) \in Nat
      BY <2>1
    <3>2. QED
      BY <2>1, <3>1
  <2>3. d \in copies /\ d.via # <<>>
    <3>1. Append(n.via, m) # <<>>
      BY <2>1, AppendProperties
    <3>2. QED
      BY <2>1, <2>2, <3>1
  <2>4. PICK c \in copies, k \in Leg : MadeBy(d, c, k)
    BY <2>3 DEF Accounts, CopiesSound, MadeOfCopies
  <2>5. c.via \in Seq(Leg) /\ d.via = Append(c.via, k) /\ d.id = c.id
    BY <1>1, <2>4 DEF MadeBy, Copy
  <2>6. c.via = n.via /\ c.id = n.id
    <3>1. Append(c.via, k) = Append(n.via, m)
      BY <2>1, <2>5
    <3>2. QED
      BY <2>1, <2>5, <3>1, SameAppend, SMTT(40)
  <2>7. QED
    BY <1>5, <2>6
<1>9. n.via # <<>> /\ LastPort(n) = p
  <2>1. e.via \in Seq(Leg)
    BY <1>1 DEF Copy
  <2>2. n.via # <<>> /\ Len(n.via) = Len(e.via) + 1 /\ n.via[Len(e.via) + 1] = l
    BY <1>3, <1>4, <2>1, AppendProperties
  <2>3. QED
    BY <1>3, <2>2 DEF LastPort
<1>10. MadeBy(n, e, l)
  BY <1>4 DEF MadeBy
<1>11. QED
  BY <1>3, <1>4, <1>5, <1>7, <1>8, <1>9, <1>10

(* A task sends: the copy is on the queue, or waits with the task for room *)
(* there.                                                                  *)
LEMMA SendStep ==
  ASSUME IInv, Accounts, NEW t \in tasks, NEW u \in Plans(t), u.todo # <<>>,
         NEW n, n = Sent(u.event, u.actor, Head(u.todo)),
         NEW onQueue \in BOOLEAN,
         \A p \in Queue :
           /\ Tidy(queue'[p])
           /\ Held(queue'[p]) = IF p = Leads[Head(u.todo)] /\ onQueue
                                  THEN Held(queue[p]) \cup {n} ELSE Held(queue[p])
           /\ Awaited(queue'[p]) = IF p = Leads[Head(u.todo)] /\ ~onQueue
                                     THEN Awaited(queue[p]) \cup {n} ELSE Awaited(queue[p]),
         NEW w \in Task, SameWork(w, u), w.phase \in {"send", "parked"},
         w.todo = Tail(u.todo), w.end = u.end, w.failed = u.failed,
         tasks' = (tasks \ {t}) \cup {w},
         copies' = copies \cup {n}, settled' = settled
  PROVE  Accounts'
<1> DEFINE e == t.event
           a == t.actor
           p == Head(u.todo)
           l == [port |-> p, tries |-> e.tries[a]]
<1>1. /\ t \in Task /\ u \in Task /\ SameWork(u, t) /\ Holding(t) /\ u.phase = "send"
      /\ TaskSound(u) /\ e \in copies /\ e \in Copy /\ e \in Worked
      /\ a \in Actor /\ a = At(e) /\ copies \subseteq Copy /\ settled \subseteq Settled
  BY SenderKnows DEF IInv, TypeOK
<1>2. /\ l \in Leg /\ l.port = p /\ l.tries = e.tries[a]
      /\ n \in Copy /\ MadeBy(n, e, l) /\ n.tries = e.tries
      /\ \A d \in copies : ~(d.id = n.id /\ d.via = n.via)
      /\ \A d \in copies \cup {n}, m \in Leg : ~MadeBy(d, n, m)
      /\ \A c \in copies, m \in Leg : MadeBy(n, c, m) => c = e /\ m = l
      /\ n.via # <<>> /\ LastPort(n) = p
  BY SentIsNew
<1> HIDE DEF l
<1>3. /\ u.todo \in Seq(Port) /\ p \in Port /\ p \in Entries(u.todo)
      /\ Entries(u.todo) = Entries(Tail(u.todo)) \cup {p}
      /\ Distinct(Tail(u.todo)) /\ p \notin Entries(Tail(u.todo))
  <2>1. u.todo \in Seq(Port) /\ Distinct(u.todo)
    BY <1>1 DEF Task, TaskSound, TaskShape
  <2>2. QED
    BY <2>1, HeadTail, TailEntries
<1>4. n \notin copies
  BY <1>2
<1>5. w.event = e /\ w.actor = a /\ w.origin = t.origin /\ Holding(w)
  BY <1>1 DEF SameWork, Holding, TaskSound, TaskShape
<1>6. ASSUME NEW c \in copies, c # e, NEW b \in Actor, NEW o \in Port
      PROVE  Reached(b, c, o)' <=> Reached(b, c, o)
  <2> DEFINE m == [port |-> o, tries |-> c.tries[b]]
  <2>1. m \in Leg /\ Sent(c, b, o).via = Append(c.via, m)
    BY <1>1 DEF Leg, Copy, Sent
  <2> HIDE DEF m
  <2>2. ~(n.id = c.id /\ n.via = Sent(c, b, o).via)
    BY <1>2, <1>6, <2>1 DEF MadeBy
  <2>3. QED
    BY <2>2 DEF Reached
<1>7. \A c, b, o : Reached(b, c, o) => Reached(b, c, o)'
  BY DEF Reached
<1>8. TasksSound'
  <2>1. ASSUME NEW v \in tasks, v # t, Holding(v)
        PROVE  (NotSentYet(v) /\ AllOrNone(v) /\ v.event \in copies)'
    <3>1. /\ NotSentYet(v) /\ AllOrNone(v) /\ v.event \in copies /\ v.event # e
          /\ v \in Task /\ v.actor \in Actor
      BY <1>1, <2>1 DEF Accounts, TasksSound, OnePlace, IInv, TypeOK, Task
    <3>2. NotSentYet(v)'
      BY <1>2, <3>1 DEF NotSentYet
    <3>3. AllOrNone(v)'
      <4>1. Entries(Out[v.actor]) \subseteq Port /\ Entries(Err[v.actor]) \subseteq Port
        BY <3>1, NetAssumption DEF Entries
      <4>2. \A o \in Entries(Out[v.actor]) \cup Entries(Err[v.actor]) :
              Reached(v.actor, v.event, o)' <=> Reached(v.actor, v.event, o)
        BY <1>6, <3>1, <4>1
      <4>3. QED
        BY <3>1, <4>2 DEF AllOrNone
    <3>4. QED
      BY <3>1, <3>2, <3>3
  <2>2. TaskShape(w)
    BY <1>1, <1>3, <1>5 DEF TaskSound, TaskShape, SameWork
  <2>3. NotSentYet(w)'
    <3> SUFFICES ASSUME NEW d \in copies \cup {n}, NEW m \in Leg, MadeBy(d, e, m),
                        m.tries = e.tries[a]
                 PROVE  /\ m.port \notin Entries(w.todo)
                        /\ m.port \in Entries(Err[a]) => w.failed
      BY <1>5 DEF NotSentYet
    <3>1. CASE d = n
      <4>1. m = l
        BY <1>1, <1>2, <3>1
      <4>2. p \in Entries(Err[a]) => u.failed
        BY <1>1, <1>3, PortsDistinct DEF TaskSound, TaskShape, SameWork
      <4>3. QED
        BY <1>2, <1>3, <4>1, <4>2
    <3>2. CASE d \in copies
      BY <1>1, <1>3, <3>2 DEF TaskSound, NotSentYet, SameWork
    <3>3. QED
      BY <3>1, <3>2
  <2>4. AllOrNone(w)'
    <3>1. Reached(a, e, p)'
      <4>1. Sent(e, a, p).via = n.via /\ n.id = e.id
        <5>1. n = Sent(e, a, p)
          BY <1>1 DEF SameWork
        <5>2. QED
          BY <1>2, <5>1 DEF MadeBy
      <4>2. QED
        BY <4>1 DEF Reached
    <3>2. AllOrNone(u)
      BY <1>1 DEF TaskSound
    <3>3. u.todo # <<>> /\ u.phase \in {"send", "parked"}
      BY <1>1
    <3>4. ASSUME w.end = "return", NEW P, P = (IF w.failed THEN Err ELSE Out)[a]
          PROVE  \A o \in Entries(P) : o \in Entries(w.todo) \/ Reached(a, e, o)'
      <4>1. \A o \in Entries(P) : o \in Entries(u.todo) \/ Reached(a, e, o)
        BY <1>1, <3>2, <3>3, <3>4 DEF AllOrNone, SameWork
      <4>2. QED
        BY <1>3, <1>7, <3>1, <4>1
    <3>5. QED
      BY <1>5, <3>4 DEF AllOrNone
  <2>5. w.event \in copies'
    BY <1>1, <1>5
  <2>6. QED
    BY <2>1, <2>2, <2>3, <2>4, <2>5 DEF Accounts, TasksSound
<1>9. CopiesSound'
  <2>1. OneOfEach'
    BY <1>2 DEF Accounts, CopiesSound, OneOfEach
  <2>2. MadeOfCopies'
    <3>1. \E c \in copies', k \in Leg : MadeBy(n, c, k)
      BY <1>1, <1>2
    <3>2. ASSUME NEW d \in copies
          PROVE  d.via = <<>> \/ \E c \in copies', k \in Leg : MadeBy(d, c, k)
      BY DEF Accounts, CopiesSound, MadeOfCopies
    <3>3. QED
      BY <3>1, <3>2 DEF MadeOfCopies
  <2>3. TriesGrow'
    <3>1. ASSUME NEW c \in copies', NEW d \in copies', NEW m \in Leg, MadeBy(d, c, m)
          PROVE  m.tries <= c.tries[At(c)]
      <4>1. c \in copies
        BY <1>2, <3>1
      <4>2. CASE d = n
        <5>1. c = e /\ m = l /\ l.tries = e.tries[At(e)]
          BY <1>1, <1>2, <3>1, <4>1, <4>2
        <5>2. l.tries \in Int
          BY <1>2, NetAssumption DEF Leg
        <5>3. QED
          BY <5>1, <5>2
      <4>3. CASE d \in copies
        BY <3>1, <4>1, <4>3 DEF Accounts, CopiesSound, TriesGrow
      <4>4. QED
        BY <4>2, <4>3
    <3>2. QED
      BY <3>1 DEF TriesGrow
  <2>4. /\ e.via \in Seq(Leg) /\ n.via = Append(e.via, l) /\ n.id = e.id
    BY <1>1, <1>2 DEF Copy, MadeBy
  <2>5. /\ Len(e.via) \in Nat /\ Len(n.via) = Len(e.via) + 1
        /\ DOMAIN e.via = 1..Len(e.via) /\ DOMAIN n.via = 1..(Len(e.via) + 1)
        /\ \A i \in 1..Len(e.via) : n.via[i] = e.via[i]
        /\ n.via[Len(e.via) + 1] = l
        /\ e.via = <<>> <=> Len(e.via) = 0
    BY <1>2, <2>4
  <2>6. SenderAt(n, Len(n.via)) = a
    <3>1. CASE e.via = <<>>
      BY <1>1, <2>4, <2>5, <3>1, SMTT(40) DEF SenderAt, At
    <3>2. CASE e.via # <<>>
      <4>1. Len(n.via) # 1 /\ Len(n.via) - 1 = Len(e.via) /\ Len(e.via) \in 1..Len(e.via)
        BY <2>5, <3>2
      <4>2. QED
        BY <1>1, <2>5, <3>2, <4>1 DEF SenderAt, At, LastPort
    <3>3. QED
      BY <3>1, <3>2
  <2>7. CountedByRescuers'
    <3>1. e \in copies /\ \A b \in Actor \ Rescue : e.tries[b] = 0
      BY <1>1 DEF Accounts, CopiesSound, CountedByRescuers
    <3>2. \A b \in Actor \ Rescue : n.tries[b] = 0
      BY <1>2, <3>1
    <3>3. ASSUME NEW i \in DOMAIN n.via, n.via[i].tries # 0
          PROVE  SenderAt(n, i) \in Rescue
      <4>1. CASE i = Len(e.via) + 1
        BY <1>1, <1>2, <2>5, <2>6, <3>1, <3>3, <4>1
      <4>2. CASE i # Len(e.via) + 1
        <5>1. i \in 1..Len(e.via) /\ (i # 1 => i - 1 \in 1..Len(e.via))
          <6> DEFINE k == Len(e.via)
          <6>1. k \in Nat /\ i \in 1..(k + 1) /\ i # k + 1
            BY <2>5, <4>2
          <6> HIDE DEF k
          <6>2. i \in 1..k /\ (i # 1 => i - 1 \in 1..k)
            BY <6>1
          <6>3. QED
            BY <6>2 DEF k
        <5>2. e.via[i].tries # 0 /\ SenderAt(n, i) = SenderAt(e, i)
          BY <2>4, <2>5, <3>3, <5>1 DEF SenderAt
        <5>3. QED
          BY <1>1, <2>5, <5>1, <5>2 DEF Accounts, CopiesSound, CountedByRescuers
      <4>3. QED
        BY <4>1, <4>2
    <3>4. QED
      <4>1. \A c \in copies :
              /\ \A b \in Actor \ Rescue : c.tries[b] = 0
              /\ \A i \in DOMAIN c.via : c.via[i].tries # 0 => SenderAt(c, i) \in Rescue
        BY DEF Accounts, CopiesSound, CountedByRescuers
      <4>2. QED
        BY <3>2, <3>3, <4>1 DEF CountedByRescuers
  <2>8. ErrorOnlyAfterRescues'
    <3>1. ASSUME \E i \in DOMAIN Err[a] : Err[a][i] = n.via[Len(n.via)].port
          PROVE  n.tries[a] = Limit(a)
      <4>1. p \in Entries(Err[a])
        BY <1>2, <3>1 DEF Entries, LastPort
      <4>2. u.failed
        BY <1>1, <1>3, <4>1, PortsDistinct DEF TaskSound, TaskShape, SameWork
      <4>3. QED
        BY <1>1, <1>2, <4>2 DEF TaskSound, TaskShape, SameWork
    <3>2. QED
      BY <2>6, <3>1 DEF ErrorOnlyAfterRescues, Accounts, CopiesSound, Limit
  <2>9. QED
    BY <2>1, <2>2, <2>3, <2>7, <2>8 DEF CopiesSound
<1>10. Worked' = Worked /\ Over' = Over
  BY <1>1, <1>5 DEF Worked, Over
<1>11. n \notin Worked /\ n \notin Over
  BY <1>4 DEF Worked, Accounts, TasksSound, OnePlace
<1>12. QueuedRight'
  <2> SUFFICES ASSUME NEW o \in Queue, NEW c \in Held(queue'[o]) \cup Awaited(queue'[o])
               PROVE  /\ c \in copies' /\ c.via # <<>> /\ Leads[LastPort(c)] = o
                      /\ \A d \in copies', m \in Leg : MadeBy(d, c, m) => m.tries < c.tries[At(c)]
                      /\ c \notin Worked /\ c \notin Over
    BY <1>10 DEF QueuedRight
  <2>1. CASE c = n
    <3>1. o = Leads[p]
      BY <1>4, <2>1 DEF Accounts, QueuedRight
    <3>2. QED
      BY <1>2, <1>11, <2>1, <3>1
  <2>2. CASE c # n
    <3>1. c \in Held(queue[o]) \cup Awaited(queue[o])
      BY <2>2
    <3>2. /\ c \in copies /\ c.via # <<>> /\ Leads[LastPort(c)] = o
          /\ \A d \in copies, m \in Leg : MadeBy(d, c, m) => m.tries < c.tries[At(c)]
          /\ c \notin Worked /\ c \notin Over
      BY <3>1 DEF Accounts, QueuedRight
    <3>3. c # e
      BY <1>1, <3>2
    <3>4. \A m \in Leg : ~MadeBy(n, c, m)
      BY <1>2, <3>2, <3>3
    <3>5. QED
      BY <3>2, <3>4
  <2>3. QED
    BY <2>1, <2>2
<1>13. OnePlace'
  <2>1. \A c \in copies' :
          \/ c \in Worked \/ c \in Over
          \/ \E o \in Queue : c \in Held(queue'[o]) \cup Awaited(queue'[o])
    <3>1. Leads[p] \in Queue
      BY <1>3, NetAssumption
    <3>2. n \in Held(queue'[Leads[p]]) \cup Awaited(queue'[Leads[p]])
      BY <3>1
    <3>3. QED
      BY <3>1, <3>2 DEF Accounts, OnePlace
  <2>2. ASSUME NEW v \in tasks', NEW x \in tasks', Holding(v), Holding(x), v.event = x.event
        PROVE  v = x
    BY <1>1, <1>5, <2>2 DEF Accounts, OnePlace
  <2>3. QED
    BY <1>10, <2>1, <2>2 DEF Accounts, OnePlace
<1>14. SendsComplete'
  <2> SUFFICES ASSUME NEW s \in settled
               PROVE  (LET b == s.actor
                       IN  /\ s.how = "errored" =>
                                \A i \in DOMAIN Err[b] : Reached(b, s.event, Err[b][i])
                           /\ s.how = "done" => \A i, j \in DOMAIN Out[b] :
                                Reached(b, s.event, Out[b][i]) => Reached(b, s.event, Out[b][j]))'
    BY DEF SendsComplete
  <2>1. s.event \in copies /\ s.event # e /\ s.actor \in Actor
    BY <1>1 DEF Accounts, OnePlace, Over, Settled
  <2>2. \A o \in Port : Reached(s.actor, s.event, o)' <=> Reached(s.actor, s.event, o)
    BY <1>6, <2>1
  <2>3. /\ \A i \in DOMAIN Out[s.actor] : Out[s.actor][i] \in Port
        /\ \A i \in DOMAIN Err[s.actor] : Err[s.actor][i] \in Port
    <3>1. Out[s.actor] \in Seq(Port) /\ Err[s.actor] \in Seq(Port)
      BY <2>1, NetAssumption
    <3>2. QED
      BY <3>1
  <2>4. /\ s.how = "errored" => \A i \in DOMAIN Err[s.actor] :
             Reached(s.actor, s.event, Err[s.actor][i])
        /\ s.how = "done" => \A i, j \in DOMAIN Out[s.actor] :
             Reached(s.actor, s.event, Out[s.actor][i]) => Reached(s.actor, s.event, Out[s.actor][j])
    BY DEF Accounts, SendsComplete
  <2>5. QED
    BY <2>2, <2>3, <2>4
<1>15. QED
  BY <1>8, <1>9, <1>12, <1>13, <1>14 DEF Accounts
(* A rescue changes the event in place: it is made as before and counts    *)
(* one try more, which frees its task to send through every port again.    *)
LEMMA RescueStep ==
  ASSUME IInv, Accounts, NEW t \in tasks, NEW u \in Plans(t), Raised(u),
         NEW f, f.id = t.event.id, f.via = t.event.via,
         f.tries[t.actor] = t.event.tries[t.actor] + 1,
         \A b \in Actor \ {t.actor} : f.tries[b] = t.event.tries[b],
         NEW w, w \in Task, w.actor = t.actor, w.origin = t.origin, w.event = f,
         w.phase = "asleep", w.todo = u.todo, w.end = "requeue", w.failed = u.failed,
         queue' = queue, tasks' = (tasks \ {t}) \cup {w},
         copies' = (copies \ {t.event}) \cup {f}, settled' = settled
  PROVE  Accounts'
<1> DEFINE e == t.event
           a == t.actor
<1>1. /\ t \in Task /\ u \in Task /\ SameWork(u, t) /\ Holding(t) /\ TaskSound(u)
      /\ e \in copies /\ e \in Copy /\ e \in Worked
      /\ a \in Actor /\ a = At(e) /\ copies \subseteq Copy
  BY SenderKnows DEF IInv, TypeOK
<1>2. u.todo = <<>> /\ ~u.failed /\ t.origin # NoQueue
  BY <1>1 DEF Raised, TaskSound, TaskShape, SameWork
<1>3. a \in Rescue /\ e.tries[a] \in Int /\ e.tries[a] < MaxRescue
  <2>1. MayRescue(u)
    BY <1>1, PlansType
  <2>2. e.tries[a] \in 0..MaxRescue
    BY <1>1 DEF Copy
  <2>3. QED
    BY <1>1, <2>1, <2>2 DEF MayRescue, SameWork
<1>4. /\ f.id = e.id /\ f.via = e.via /\ f.tries[a] = e.tries[a] + 1
      /\ \A b \in Actor \ {a} : f.tries[b] = e.tries[b]
  OBVIOUS
<1> HIDE DEF e
<1>5. f \notin copies
  <2>1. f # e
    BY <1>3, <1>4
  <2>2. QED
    BY <1>1, <1>4, <2>1 DEF Accounts, CopiesSound, OneOfEach
<1>6. copies' = (copies \ {e}) \cup {f} /\ w.event = f /\ t.event = e
  BY DEF e
<1>7. /\ \A c, m : MadeBy(f, c, m) <=> MadeBy(e, c, m)
      /\ \A c, m : MadeBy(c, f, m) <=> MadeBy(c, e, m)
      /\ At(f) = At(e)
  BY <1>4 DEF MadeBy, At, LastPort
<1>8. \A b, c, o : Reached(b, c, o)' <=> Reached(b, c, o)
  BY <1>1, <1>4, <1>6 DEF Reached
<1>9. TasksSound'
  <2>1. ASSUME NEW v \in tasks, v # t, Holding(v)
        PROVE  (NotSentYet(v) /\ AllOrNone(v) /\ v.event \in copies)'
    <3>1. NotSentYet(v) /\ AllOrNone(v) /\ v.event \in copies /\ v.event # e
      BY <1>1, <1>6, <2>1 DEF Accounts, TasksSound, OnePlace
    <3>2. NotSentYet(v)'
      BY <1>1, <1>6, <1>7, <3>1 DEF NotSentYet
    <3>3. AllOrNone(v)'
      BY <1>8, <3>1 DEF AllOrNone
    <3>4. QED
      BY <1>6, <3>1, <3>2, <3>3
  <2>2. TaskShape(w)
    BY <1>1, <1>2, <1>4, <1>6, <1>7 DEF TaskSound, TaskShape, SameWork, LastPort
  <2>3. NotSentYet(w)'
    <3> SUFFICES ASSUME NEW d \in copies', NEW m \in Leg, MadeBy(d, f, m),
                        m.tries = f.tries[a]
                 PROVE  FALSE
      BY <1>6 DEF NotSentYet
    <3>1. \E c \in copies : MadeBy(c, e, m)
      BY <1>1, <1>6, <1>7
    <3>2. m.tries <= e.tries[a]
      BY <1>1, <3>1 DEF Accounts, CopiesSound, TriesGrow
    <3>3. QED
      BY <1>3, <1>4, <3>2
  <2>4. AllOrNone(w)'
    BY DEF AllOrNone
  <2>5. QED
    BY <1>6, <2>1, <2>2, <2>3, <2>4 DEF Accounts, TasksSound
<1>10. CopiesSound'
  <2>1. OneOfEach'
    BY <1>1, <1>4, <1>6 DEF Accounts, CopiesSound, OneOfEach
  <2>2. MadeOfCopies'
    <3>1. ASSUME NEW d \in copies
          PROVE  d.via = <<>> \/ \E c \in copies', k \in Leg : MadeBy(d, c, k)
      <4>1. d.via = <<>> \/ \E c \in copies, k \in Leg : MadeBy(d, c, k)
        BY DEF Accounts, CopiesSound, MadeOfCopies
      <4>2. QED
        BY <1>6, <1>7, <4>1
    <3>2. f.via = <<>> \/ \E c \in copies', k \in Leg : MadeBy(f, c, k)
      BY <1>1, <1>4, <1>7, <3>1
    <3>3. QED
      BY <1>6, <3>1, <3>2 DEF MadeOfCopies
  <2>3. TriesGrow'
    <3> SUFFICES ASSUME NEW c \in copies', NEW d \in copies', NEW m \in Leg, MadeBy(d, c, m)
                 PROVE  m.tries <= c.tries[At(c)]
      BY DEF TriesGrow
    <3>1. PICK x \in copies : x = d \/ (d = f /\ x = e)
      BY <1>1, <1>6
    <3>2. MadeBy(x, c, m)
      BY <1>7, <3>1
    <3>3. CASE c = f
      <4>1. m.tries <= e.tries[At(e)]
        BY <1>1, <1>7, <3>2, <3>3 DEF Accounts, CopiesSound, TriesGrow
      <4>2. m.tries \in Int
        BY NetAssumption DEF Leg
      <4>3. QED
        BY <1>1, <1>3, <1>4, <1>7, <3>3, <4>1, <4>2
    <3>4. CASE c \in copies
      BY <3>2, <3>4 DEF Accounts, CopiesSound, TriesGrow
    <3>5. QED
      BY <1>6, <3>3, <3>4
  <2>4. CountedByRescuers'
    <3>1. \A c \in copies :
            /\ \A b \in Actor \ Rescue : c.tries[b] = 0
            /\ \A i \in DOMAIN c.via : c.via[i].tries # 0 => SenderAt(c, i) \in Rescue
      BY DEF Accounts, CopiesSound, CountedByRescuers
    <3>2. \A b \in Actor \ Rescue : f.tries[b] = 0
      BY <1>1, <1>3, <1>4, <3>1
    <3>3. \A i \in DOMAIN f.via : f.via[i].tries # 0 => SenderAt(f, i) \in Rescue
      BY <1>1, <1>4, <3>1 DEF SenderAt
    <3>4. QED
      BY <1>6, <3>1, <3>2, <3>3 DEF CountedByRescuers
  <2>5. ErrorOnlyAfterRescues'
    <3> DEFINE b == SenderAt(e, Len(e.via))
    <3>1. ASSUME e.via # <<>>, \E i \in DOMAIN Err[b] : Err[b][i] = e.via[Len(e.via)].port
          PROVE  e.tries[b] = Limit(b)
      BY <1>1, <3>1 DEF Accounts, CopiesSound, ErrorOnlyAfterRescues, Limit
    <3>2. e.via # <<>> => b \in Actor
      <4>1. e.via \in Seq(Leg) /\ e.id \in Event
        BY <1>1 DEF Copy
      <4>2. Len(e.via) \in Nat /\ \A i \in 1..Len(e.via) : e.via[i] \in Leg
        BY <4>1
      <4>3. \A k \in Leg : Reader[Leads[k.port]] \in Actor
        BY NetAssumption DEF Leg
      <4>4. e.via # <<>> /\ Len(e.via) # 1 => Len(e.via) - 1 \in 1..Len(e.via)
        <5>1. e.via # <<>> => Len(e.via) # 0
          BY <4>1
        <5>2. \A k \in Nat : k # 0 /\ k # 1 => k - 1 \in 1..k
          OBVIOUS
        <5>3. QED
          BY <4>2, <5>1, <5>2, Zenon
      <4>5. Entry[e.id] \in Actor
        BY <4>1, NetAssumption
      <4>6. CASE Len(e.via) = 1
        BY <4>5, <4>6 DEF SenderAt
      <4>7. CASE Len(e.via) # 1
        BY <4>2, <4>3, <4>4, <4>7, Zenon DEF SenderAt
      <4>8. QED
        BY <4>6, <4>7
    <3>3. ASSUME e.via # <<>>, \E i \in DOMAIN Err[b] : Err[b][i] = e.via[Len(e.via)].port
          PROVE  f.tries[b] = Limit(b)
      <4>1. b # a
        BY <1>3, <3>1, <3>3, NetAssumption DEF Limit
      <4>2. QED
        BY <1>4, <3>1, <3>2, <3>3, <4>1
    <3>4. SenderAt(f, Len(f.via)) = b
      BY <1>4 DEF SenderAt
    <3> HIDE DEF b
    <3>5. QED
      BY <1>4, <1>6, <3>3, <3>4 DEF Accounts, CopiesSound, ErrorOnlyAfterRescues, Limit
  <2>6. QED
    BY <2>1, <2>2, <2>3, <2>4, <2>5 DEF CopiesSound
<1>11. Worked' = (Worked \ {e}) \cup {f} /\ Over' = Over
  <2>1. \A v \in tasks : Holding(v) => (v.event = e <=> v = t)
    BY <1>1, <1>6 DEF Accounts, OnePlace
  <2>2. Holding(w)
    BY DEF Holding
  <2>3. QED
    BY <1>1, <1>6, <2>1, <2>2 DEF Worked, Over
<1>12. f \notin Worked /\ f \notin Over
  BY <1>5 DEF Worked, Accounts, TasksSound, OnePlace
<1>13. QueuedRight'
  <2> SUFFICES ASSUME NEW o \in Queue, NEW c \in Held(queue[o]) \cup Awaited(queue[o])
               PROVE  /\ c \in copies' /\ c.via # <<>> /\ Leads[LastPort(c)] = o
                      /\ \A d \in copies', m \in Leg : MadeBy(d, c, m) => m.tries < c.tries[At(c)]
                      /\ c \notin Worked' /\ c \notin Over
    BY <1>11 DEF QueuedRight, Accounts
  <2>1. /\ c \in copies /\ c.via # <<>> /\ Leads[LastPort(c)] = o
        /\ \A d \in copies, m \in Leg : MadeBy(d, c, m) => m.tries < c.tries[At(c)]
        /\ c \notin Worked /\ c \notin Over
    BY DEF Accounts, QueuedRight
  <2>2. c # e /\ c # f
    BY <1>1, <1>5, <2>1
  <2>3. QED
    BY <1>1, <1>6, <1>7, <1>11, <2>1, <2>2
<1>14. OnePlace'
  <2>1. \A c \in copies' :
          \/ c \in Worked' \/ c \in Over
          \/ \E o \in Queue : c \in Held(queue[o]) \cup Awaited(queue[o])
    BY <1>6, <1>11 DEF Accounts, OnePlace
  <2>2. ASSUME NEW v \in tasks', NEW x \in tasks', Holding(v), Holding(x), v.event = x.event
        PROVE  v = x
    <3>1. \A y \in tasks : Holding(y) => y.event # f
      BY <1>12 DEF Worked
    <3>2. QED
      BY <1>6, <2>2, <3>1 DEF Accounts, OnePlace
  <2>3. Over \subseteq copies' /\ Worked' \cap Over = {}
    BY <1>1, <1>6, <1>11, <1>12 DEF Accounts, OnePlace
  <2>4. QED
    BY <1>11, <2>1, <2>2, <2>3 DEF Accounts, OnePlace
<1>15. SendsComplete'
  BY <1>8 DEF Accounts, SendsComplete
<1>16. QED
  BY <1>9, <1>10, <1>13, <1>14, <1>15 DEF Accounts
-----------------------------------------------------------------------------
(* At first the fresh events are all there is, each with its sender.       *)
LEMMA InitAccounts == Init => Accounts
<1> SUFFICES ASSUME Init PROVE Accounts
  OBVIOUS
<1>1. ASSUME NEW e \in Event
      PROVE  /\ Fresh(e) \in Copy /\ Fresh(e).id = e /\ Fresh(e).via = <<>>
             /\ \A a \in Actor : Fresh(e).tries[a] = 0
             /\ At(Fresh(e)) = Entry[e] /\ Entry[e] \in Actor
  BY FreshType, NetAssumption DEF Fresh, At
<1>2. ASSUME NEW e \in Event
      PROVE  LET t == SenderOf(e)
             IN  /\ t.actor = Entry[e] /\ t.origin = NoQueue /\ t.event = Fresh(e)
                 /\ t.phase = "send" /\ t.todo = Out[Entry[e]] /\ t.end = "return"
                 /\ t.failed = FALSE
  BY DEF SenderOf, NewTask
<1>3. copies = {Fresh(e) : e \in Event} /\ tasks = {SenderOf(e) : e \in Event} /\ settled = {}
  BY DEF Init
<1>4. \A d \in copies, c \in copies, l \in Leg : ~MadeBy(d, c, l)
  <2>1. \A c \in copies : c.via = <<>>
    BY <1>1, <1>3
  <2>2. \A l \in Leg : Append(<<>>, l) # <<>>
    OBVIOUS
  <2>3. QED
    BY <2>1, <2>2 DEF MadeBy
<1>5. TasksSound
  <2> SUFFICES ASSUME NEW e \in Event, NEW t, t = SenderOf(e)
               PROVE  TaskShape(t) /\ NotSentYet(t) /\ AllOrNone(t) /\ t.event \in copies
    BY <1>3 DEF TasksSound
  <2>1. TaskShape(t)
    <3>1. NoQueue = t.origin /\ Distinct(t.todo)
      BY <1>1, <1>2, PortsDistinct
    <3>2. QED
      BY <1>1, <1>2, <3>1 DEF TaskShape
  <2>2. t.event \in copies
    BY <1>2, <1>3
  <2>3. NotSentYet(t)
    BY <1>4, <2>2 DEF NotSentYet
  <2>4. AllOrNone(t)
    BY <1>2 DEF AllOrNone
  <2>5. QED
    BY <2>1, <2>2, <2>3, <2>4
<1>6. CopiesSound
  <2>1. OneOfEach /\ MadeOfCopies /\ TriesGrow
    BY <1>1, <1>3, <1>4 DEF OneOfEach, MadeOfCopies, TriesGrow
  <2>2. CountedByRescuers /\ ErrorOnlyAfterRescues
    BY <1>1, <1>3 DEF CountedByRescuers, ErrorOnlyAfterRescues
  <2>3. QED
    BY <2>1, <2>2 DEF CopiesSound
<1>7. Worked = copies /\ Over = {}
  <2>1. \A e \in Event : Holding(SenderOf(e))
    BY <1>2 DEF Holding
  <2>2. \A e \in Event : SenderOf(e).event = Fresh(e)
    BY <1>2
  <2>3. QED
    BY <1>3, <2>1, <2>2 DEF Worked, Over
<1>8. QueuedRight
  BY EmptyQueueTidy DEF Init, QueuedRight
<1>9. OnePlace
  <2>1. ASSUME NEW t \in tasks, NEW u \in tasks, t.event = u.event PROVE t = u
    <3>1. PICK d, e \in Event : t = SenderOf(d) /\ u = SenderOf(e)
      BY <1>3
    <3>2. t.event = Fresh(d) /\ u.event = Fresh(e)
      BY <1>2, <3>1
    <3>3. Fresh(d).id = d /\ Fresh(e).id = e
      BY <1>1
    <3>4. d = e
      BY <2>1, <3>2, <3>3
    <3>5. QED
      BY <3>1, <3>4
  <2>2. QED
    BY <1>3, <1>7, <2>1 DEF OnePlace
<1>10. SendsComplete
  BY <1>3 DEF SendsComplete
<1>11. QED
  BY <1>5, <1>6, <1>8, <1>9, <1>10 DEF Accounts

(* Every step keeps the accounts.                                          *)
LEMMA StepAccounts == IInv /\ Accounts /\ [Next]_vars => Accounts'
<1> SUFFICES ASSUME IInv, Accounts, [Next]_vars PROVE Accounts'
  OBVIOUS
<1> DEFINE QType == QueueType(Copy, Copy)
<1>0. /\ queue \in [Queue -> QType] /\ \A q \in Queue : Tidy(queue[q])
      /\ tasks \subseteq Task /\ copies \subseteq Copy
  BY DEF IInv, TypeOK, Accounts, QueuedRight
<1>1. ASSUME NEW q \in Queue, NEW c \in Held(queue[q]) \cup Awaited(queue[q])
      PROVE  c \in copies /\ c \notin Worked
  BY DEF Accounts, QueuedRight
<1>2. ASSUME NEW q \in Queue, NEW r, queue' = [queue EXCEPT ![q] = r]
      PROVE  \A p \in Queue : queue'[p] = IF p = q THEN r ELSE queue[p]
  BY <1>0, <1>2
<1> HIDE DEF QType
<1>3. ASSUME NEW q \in Queue, NEW r, queue' = [queue EXCEPT ![q] = r],
             r.items = queue[q].items, r.putters = queue[q].putters,
             tasks' = tasks, copies' = copies, settled' = settled
      PROVE  Accounts'
  <2>1. /\ Tidy(r) /\ Held(r) = Held(queue[q]) /\ Awaited(r) = Awaited(queue[q])
    BY <1>0, <1>3, NothingMoves
  <2>2. \A p \in Queue : /\ Tidy(queue'[p])
                         /\ Held(queue'[p]) = Held(queue[p])
                         /\ Awaited(queue'[p]) = Awaited(queue[p])
    BY <1>0, <1>2, <1>3, <2>1
  <2>3. QED
    BY <1>3, <2>2, NothingStep
<1>4. ASSUME queue' = queue, tasks' = tasks, copies' = copies, settled' = settled
      PROVE  Accounts'
  BY <1>0, <1>4, NothingStep
<1>5. ASSUME NEW q \in Queue, NEW r, queue' = [queue EXCEPT ![q] = r],
             r.items = <<>>, r.putters = queue[q].putters,
             tasks' = tasks \cup TasksFor(q), copies' = copies, settled' = settled
      PROVE  Accounts'
  <2>1. Tidy(r) /\ Held(r) = {} /\ Awaited(r) = Awaited(queue[q])
    <3>1. Entries(<<>>) = {} /\ Distinct(<<>>)
      BY DEF Entries, Distinct
    <3>2. QED
      BY <1>0, <1>5, <3>1 DEF Tidy, Held, Awaited
  <2>2. \A p \in Queue :
          /\ Tidy(queue'[p])
          /\ Held(queue'[p]) = IF p = q THEN Held(queue[p]) \ Held(queue[q]) ELSE Held(queue[p])
          /\ Awaited(queue'[p]) = Awaited(queue[p])
    BY <1>0, <1>2, <1>5, <2>1
  <2>3. TasksFor(q) = {NewTask(Reader[q], q, c, FALSE) : c \in Held(queue[q])}
    BY DEF TasksFor, Held, Entries
  <2>4. QED
    BY <1>5, <2>2, <2>3, TakeStep
<1>10. ASSUME NEW a \in Actor, Start(a) PROVE Accounts'
  BY <1>4, <1>10 DEF Start
<1>11. ASSUME NEW a \in Actor, Stop(a) PROVE Accounts'
  BY <1>4, <1>11 DEF Stop
<1>12. ASSUME NEW q \in Queue, WakePutter(q) PROVE Accounts'
  <2> DEFINE x == Head(queue[q].putters).item
  <2>1. /\ Tidy(Admit(queue[q])) /\ x \in Awaited(queue[q])
        /\ Held(Admit(queue[q])) = Held(queue[q]) \cup {x}
        /\ Awaited(Admit(queue[q])) = Awaited(queue[q]) \ {x}
    BY <1>0, <1>12, AdmitPlaces DEF WakePutter, QType
  <2>2. PICK t \in tasks :
          /\ t.phase = "parked"
          /\ tasks' = IF t.end = "requeue" THEN tasks \ {t}
                                           ELSE (tasks \ {t}) \cup {Resumed(t)}
    BY <1>12 DEF WakePutter
  <2>3. queue' = [queue EXCEPT ![q] = Admit(queue[q])] /\ copies' = copies /\ settled' = settled
    BY <1>12 DEF WakePutter
  <2> HIDE DEF x
  <2>4. \A p \in Queue :
          /\ Tidy(queue'[p])
          /\ Held(queue'[p]) = IF p = q THEN Held(queue[p]) \cup {x} ELSE Held(queue[p])
          /\ Awaited(queue'[p]) = IF p = q THEN Awaited(queue[p]) \ {x} ELSE Awaited(queue[p])
    BY <1>0, <1>2, <2>1, <2>3
  <2>5. QED
    BY <2>1, <2>2, <2>3, <2>4, AdmitStep
<1>13. ASSUME NEW q \in Queue, UnlockEnds(q) PROVE Accounts'
  <2>1. queue[q] \in QType
    BY <1>0
  <2>2. /\ EndUnlock(queue[q]).items = queue[q].items
        /\ EndUnlock(queue[q]).putters = queue[q].putters
    BY <2>1 DEF EndUnlock, QType, QueueType
  <2>3. QED
    BY <1>3, <1>13, <2>2 DEF UnlockEnds
<1>14. ASSUME NEW q \in Queue, Enter(q) PROVE Accounts'
  BY <1>4, <1>14 DEF Enter
<1>15. ASSUME NEW q \in Queue, ConsumeAll(q) PROVE Accounts'
  <2> DEFINE r == Emptied(queue[q])
  <2>1. r.items = <<>> /\ r.putters = queue[q].putters /\ r \in QType
    BY <1>0, EmptiedKeeps DEF QType
  <2>2. GetEmpty(r).items = r.items /\ GetEmpty(r).putters = r.putters
    BY <2>1 DEF GetEmpty, QType, QueueType
  <2>3. queue' = [queue EXCEPT ![q] = r] \/ queue' = [queue EXCEPT ![q] = GetEmpty(r)]
    BY <1>15 DEF ConsumeAll
  <2>4. tasks' = tasks \cup TasksFor(q) /\ copies' = copies /\ settled' = settled
    BY <1>15 DEF ConsumeAll
  <2> HIDE DEF r
  <2>5. QED
    BY <1>5, <2>1, <2>2, <2>3, <2>4
<1>16. ASSUME NEW q \in Queue, ConsumeInline(q) PROVE Accounts'
  <2> DEFINE x == Head(queue[q].items)
  <2>1. /\ Tidy(Get(queue[q])) /\ x \in Held(queue[q])
        /\ Held(Get(queue[q])) = Held(queue[q]) \ {x}
        /\ Awaited(Get(queue[q])) = Awaited(queue[q])
    BY <1>0, <1>16, GetPlaces DEF ConsumeInline, QType
  <2>2. /\ queue' = [queue EXCEPT ![q] = Get(queue[q])] /\ copies' = copies /\ settled' = settled
        /\ tasks' = tasks \cup {NewTask(Reader[q], q, x, TRUE)}
    BY <1>16 DEF ConsumeInline
  <2> HIDE DEF x
  <2>3. \A p \in Queue :
          /\ Tidy(queue'[p])
          /\ Held(queue'[p]) = IF p = q THEN Held(queue[p]) \ {x} ELSE Held(queue[p])
          /\ Awaited(queue'[p]) = Awaited(queue[p])
    BY <1>0, <1>2, <2>1, <2>2
  <2>4. tasks' = tasks \cup {NewTask(Reader[q], q, c, TRUE) : c \in {x}}
    BY <2>2
  <2>5. {x} \subseteq Held(queue[q]) /\ TRUE \in BOOLEAN
    BY <2>1
  <2>6. QED
    BY <2>2, <2>3, <2>4, <2>5, TakeStep
<1>17. ASSUME NEW q \in Queue, ConsumeNothing(q) PROVE Accounts'
  <2>1. queue[q] \in QType
    BY <1>0
  <2>2. /\ GetEmpty(queue[q]).items = queue[q].items
        /\ GetEmpty(queue[q]).putters = queue[q].putters
    BY <2>1 DEF GetEmpty, QType, QueueType
  <2>3. QED
    BY <1>3, <1>17, <2>2 DEF ConsumeNothing
<1>18. ASSUME NEW q \in Queue, Drain(q) PROVE Accounts'
  <2>1. /\ Emptied(queue[q]).items = <<>>
        /\ Emptied(queue[q]).putters = queue[q].putters
    BY <1>0, EmptiedKeeps DEF QType
  <2>2. QED
    BY <1>5, <1>18, <2>1 DEF Drain
<1>19. ASSUME NEW t \in tasks, Send(t) PROVE Accounts'
  <2>1. PICK u \in Plans(t) :
          LET q == Leads[Head(u.todo)]
              n == Sent(u.event, u.actor, Head(u.todo))
          IN  /\ u.todo # <<>>
              /\ queue' = [queue EXCEPT ![q] = Put(@, n, u.event)]
              /\ Becomes(t, [u EXCEPT !.todo = Tail(@),
                                      !.phase = IF HasRoom(queue[q]) THEN "send" ELSE "parked"])
              /\ copies' = copies \cup {n}
              /\ settled' = settled
    BY <1>19 DEF Send
  <2> DEFINE q == Leads[Head(u.todo)]
             n == Sent(u.event, u.actor, Head(u.todo))
             room == HasRoom(queue[q])
             w == [u EXCEPT !.todo = Tail(@), !.phase = IF room THEN "send" ELSE "parked"]
             r == Put(queue[q], n, u.event)
  <2>2. u \in Task /\ u.todo # <<>> /\ room \in BOOLEAN /\ u.event \in Copy
    BY <2>1, SenderKnows DEF HasRoom, Task
  <2>3. Head(u.todo) \in Port /\ Tail(u.todo) \in Seq(Port) /\ q \in Queue
    BY <2>2, HeadTail, NetAssumption DEF Task
  <2>4. n \in Copy /\ n \notin copies
    <3> DEFINE l == [port |-> Head(u.todo), tries |-> t.event.tries[t.actor]]
    <3>1. /\ n \in Copy /\ MadeBy(n, t.event, l)
          /\ \A d \in copies : ~(d.id = n.id /\ d.via = n.via)
      BY <2>2, SentIsNew
    <3>2. QED
      BY <3>1
  <2>5. /\ w \in Task /\ SameWork(w, u) /\ w.phase \in {"send", "parked"}
        /\ w.todo = Tail(u.todo) /\ w.end = u.end /\ w.failed = u.failed
    <3> DEFINE p == IF room THEN "send" ELSE "parked"
    <3>1. p \in {"send", "parked"}
      OBVIOUS
    <3> HIDE DEF p
    <3>2. QED
      BY <2>2, <2>3, <3>1 DEF Task, SameWork
  <2>6. /\ queue' = [queue EXCEPT ![q] = r] /\ tasks' = (tasks \ {t}) \cup {w}
        /\ copies' = copies \cup {n} /\ settled' = settled
    BY <2>1 DEF Becomes
  <2>7. n \notin Held(queue[q]) \cup Awaited(queue[q])
    BY <1>1, <2>3, <2>4
  <2>8. /\ Tidy(r)
        /\ Held(r) = IF room THEN Held(queue[q]) \cup {n} ELSE Held(queue[q])
        /\ Awaited(r) = IF room THEN Awaited(queue[q]) ELSE Awaited(queue[q]) \cup {n}
    <3>1. queue[q] \in QueueType(Copy, Copy) /\ Tidy(queue[q])
      BY <1>0, <2>3 DEF QType
    <3> HIDE DEF n, q
    <3>0. u.event \in Copy
      BY <2>2
    <3>2. Tidy(r)
      BY <2>4, <2>7, <3>0, <3>1, PutPlaces
    <3>3. Held(r) = IF room THEN Held(queue[q]) \cup {n} ELSE Held(queue[q])
      BY <2>4, <2>7, <3>0, <3>1, PutPlaces
    <3>4. Awaited(r) = IF room THEN Awaited(queue[q]) ELSE Awaited(queue[q]) \cup {n}
      BY <2>4, <2>7, <3>0, <3>1, PutPlaces
    <3>5. QED
      BY <3>2, <3>3, <3>4
  <2> HIDE DEF w, n, room, r
  <2>9. \A p \in Queue :
          /\ Tidy(queue'[p])
          /\ Held(queue'[p]) = IF p = q /\ room THEN Held(queue[p]) \cup {n} ELSE Held(queue[p])
          /\ Awaited(queue'[p]) = IF p = q /\ ~room THEN Awaited(queue[p]) \cup {n}
                                                    ELSE Awaited(queue[p])
    BY <1>0, <1>2, <2>3, <2>6, <2>8
  <2>10. n = Sent(u.event, u.actor, Head(u.todo))
    BY DEF n
  <2>11. QED
    BY <2>2, <2>5, <2>6, <2>9, <2>10, SendStep
<1>20. ASSUME NEW t \in tasks, Return(t) PROVE Accounts'
  <2>1. PICK u \in Plans(t) :
          /\ u.todo = <<>> /\ u.end \in {"return", "reject"}
          /\ Settle(t, Outcome(u))
          /\ UNCHANGED <<queue, run, loop, copies>>
    BY <1>20 DEF Return
  <2>2. /\ SameWork(u, t) /\ Holding(t) /\ u.phase = "send" /\ AllOrNone(u)
        /\ Entries(<<>>) = {}
    BY SenderKnows DEF TaskSound, Entries
  <2>3. CASE u.failed /\ u.end = "return"
    <3>1. \A p \in Entries(Err[t.actor]) : Reached(t.actor, t.event, p)
      BY <2>1, <2>2, <2>3 DEF AllOrNone, SameWork
    <3>2. QED
      BY <2>1, <2>2, <2>3, <3>1, SettleStep DEF Settle, Outcome
  <2>4. CASE ~u.failed /\ u.end = "return"
    <3>1. \A p, o \in Entries(Out[t.actor]) :
            Reached(t.actor, t.event, p) => Reached(t.actor, t.event, o)
      BY <2>1, <2>2, <2>4 DEF AllOrNone, SameWork
    <3>2. QED
      BY <2>1, <2>2, <2>4, <3>1, SettleStep DEF Settle, Outcome
  <2>5. CASE u.end = "reject"
    <3>1. Settle(t, "rejected")
      BY <2>1, <2>5 DEF Outcome
    <3>2. QED
      BY <2>1, <2>2, <3>1, SettleStep DEF Settle
  <2>6. QED
    BY <2>1, <2>3, <2>4, <2>5, SenderKnows DEF Task
<1>22. ASSUME NEW t \in tasks, StartRescue(t) PROVE Accounts'
  <2>1. PICK u \in Plans(t) :
          LET c == [u.event EXCEPT !.tries[u.actor] = @ + 1]
          IN  /\ Raised(u)
              /\ Becomes(t, [u EXCEPT !.phase = "asleep", !.end = "requeue", !.event = c])
              /\ copies' = (copies \ {u.event}) \cup {c}
              /\ UNCHANGED <<queue, settled>>
    BY <1>22 DEF StartRescue
  <2> DEFINE f == [u.event EXCEPT !.tries[u.actor] = @ + 1]
             w == [u EXCEPT !.phase = "asleep", !.end = "requeue", !.event = f]
  <2>2. /\ u \in Task /\ SameWork(u, t) /\ t.event \in Copy /\ t.actor \in Actor
        /\ MayRescue(u)
    BY <2>1, SenderKnows, PlansType
  <2>3. /\ f \in Copy /\ f.id = t.event.id /\ f.via = t.event.via
        /\ f.tries[t.actor] = t.event.tries[t.actor] + 1
        /\ \A b \in Actor \ {t.actor} : f.tries[b] = t.event.tries[b]
    <3> DEFINE e == t.event
               a == t.actor
               g == [e.tries EXCEPT ![a] = @ + 1]
    <3>1. e.tries \in [Actor -> 0..MaxRescue] /\ e.tries[a] < MaxRescue
      BY <2>2 DEF Copy, MayRescue, SameWork
    <3>2. /\ g \in [Actor -> 0..MaxRescue] /\ g[a] = e.tries[a] + 1
          /\ \A b \in Actor \ {a} : g[b] = e.tries[b]
      BY <2>2, <3>1, OneMoreTry
    <3>3. f = [e EXCEPT !.tries = g]
      BY <2>2 DEF SameWork
    <3> HIDE DEF g, f
    <3>4. QED
      BY <2>2, <3>2, <3>3 DEF Copy
  <2>4. tasks' = (tasks \ {t}) \cup {w} /\ copies' = (copies \ {t.event}) \cup {f}
        /\ queue' = queue /\ settled' = settled
    BY <2>1, <2>2 DEF Becomes, SameWork
  <2> HIDE DEF f
  <2>5. /\ w \in Task /\ w.actor = t.actor /\ w.origin = t.origin /\ w.event = f
        /\ w.phase = "asleep" /\ w.todo = u.todo /\ w.end = "requeue" /\ w.failed = u.failed
    BY <2>2, <2>3 DEF Task, SameWork
  <2> HIDE DEF w
  <2>6. QED
    BY <2>1, <2>3, <2>4, <2>5, RescueStep, SMTT(40)
<1>23. ASSUME NEW t \in tasks, EndRescue(t) PROVE Accounts'
  <2> DEFINE q == t.origin
             room == HasRoom(queue[q])
             r == Put(queue[q], t.event, t.event)
  <2>1. t \in Task /\ t.event \in Copy /\ t.phase = "asleep" /\ TaskShape(t) /\ Holding(t)
    BY <1>0, <1>23 DEF EndRescue, Accounts, TasksSound, Holding, Task
  <2>2. q \in Queue /\ room \in BOOLEAN /\ t.event \in Worked
    BY <2>1 DEF TaskShape, Task, HasRoom, Worked
  <2>3. t.event \notin Held(queue[q]) \cup Awaited(queue[q])
    BY <1>1, <2>2
  <2>4. queue[q] \in QueueType(Copy, Copy) /\ Tidy(queue[q])
    BY <1>0, <2>2 DEF QType
  <2> HIDE DEF q
  <2>5. /\ Tidy(r)
        /\ Held(r) = IF room THEN Held(queue[q]) \cup {t.event} ELSE Held(queue[q])
        /\ Awaited(r) = IF room THEN Awaited(queue[q]) ELSE Awaited(queue[q]) \cup {t.event}
    <3>1. Tidy(r)
      BY <2>1, <2>3, <2>4, PutPlaces
    <3>2. Held(r) = IF room THEN Held(queue[q]) \cup {t.event} ELSE Held(queue[q])
      BY <2>1, <2>3, <2>4, PutPlaces, SMTT(40)
    <3>3. Awaited(r) = IF room THEN Awaited(queue[q]) ELSE Awaited(queue[q]) \cup {t.event}
      BY <2>1, <2>3, <2>4, PutPlaces
    <3>4. QED
      BY <3>1, <3>2, <3>3
  <2>6. /\ queue' = [queue EXCEPT ![q] = r] /\ copies' = copies /\ settled' = settled
        /\ tasks' = IF room THEN tasks \ {t}
                            ELSE (tasks \ {t}) \cup {[t EXCEPT !.phase = "parked"]}
    BY <1>23 DEF EndRescue, Becomes, q
  <2> HIDE DEF room, r
  <2>7. \A p \in Queue :
          /\ Tidy(queue'[p])
          /\ Held(queue'[p]) = IF p = q /\ room THEN Held(queue[p]) \cup {t.event}
                                                ELSE Held(queue[p])
          /\ Awaited(queue'[p]) = IF p = q /\ ~room THEN Awaited(queue[p]) \cup {t.event}
                                                    ELSE Awaited(queue[p])
    BY <1>0, <1>2, <2>2, <2>5, <2>6
  <2>8. q = t.origin
    BY DEF q
  <2>9. QED
    BY <2>1, <2>2, <2>6, <2>7, <2>8, RequeueStep
<1>24. CASE UNCHANGED vars
  BY <1>4, <1>24 DEF vars
<1>25. QED
  BY <1>10, <1>11, <1>12, <1>13, <1>14, <1>15, <1>16, <1>17, <1>18, <1>19, <1>20,
     <1>22, <1>23, <1>24
     DEF Next, Hub, Consumer, TaskStep
-----------------------------------------------------------------------------
(* What the accounts say of an event object: the slots, putters, tasks and *)
(* settlements it is found at are one altogether.                          *)
LEMMA AccountsConserve == IInv /\ Accounts => Conservation
<1> SUFFICES ASSUME IInv, Accounts, NEW c \in copies
             PROVE  Cardinality(OnQueues(c)) + Cardinality(AtPutters(c))
                      + Cardinality(InTasks(c)) + Cardinality(IsSettled(c)) = 1
  BY DEF Conservation
<1>1. ASSUME NEW q \in Queue, c \in Held(queue[q]) \cup Awaited(queue[q])
      PROVE  /\ Leads[LastPort(c)] = q /\ Tidy(queue[q])
             /\ c \notin Worked /\ c \notin Over
  BY <1>1 DEF Accounts, QueuedRight
<1>2. ASSUME NEW s \in OnQueues(c)
      PROVE  /\ s = <<s[1], s[2]>> /\ s[1] \in Queue
             /\ s[2] \in DOMAIN queue[s[1]].items /\ queue[s[1]].items[s[2]] = c
             /\ c \in Held(queue[s[1]])
  BY DEF OnQueues, ItemSlots, Held, Entries
<1>3. ASSUME NEW s \in AtPutters(c)
      PROVE  /\ s = <<s[1], s[2]>> /\ s[1] \in Queue
             /\ s[2] \in DOMAIN Brought(queue[s[1]].putters)
             /\ Brought(queue[s[1]].putters)[s[2]] = c
             /\ c \in Awaited(queue[s[1]])
  BY DEF AtPutters, PutterSlots, Awaited, Entries, Brought
<1>4. InTasks(c) = {t \in tasks : t.event = c /\ Holding(t)}
  BY DEF InTasks, Holding
<1>5. ASSUME NEW q \in Queue, c \in Held(queue[q])
      PROVE  \E s : OnQueues(c) = {s}
  <2>1. PICK i \in DOMAIN queue[q].items : queue[q].items[i] = c
    BY <1>5 DEF Held, Entries
  <2>2. <<q, i>> \in OnQueues(c)
    BY <2>1 DEF OnQueues, ItemSlots
  <2>3. ASSUME NEW s \in OnQueues(c) PROVE s = <<q, i>>
    <3>1. s[1] = q
      BY <1>1, <1>2, <1>5
    <3>2. s[2] = i
      BY <1>1, <1>2, <1>5, <2>1, <3>1 DEF Tidy, Distinct
    <3>3. QED
      BY <1>2, <3>1, <3>2
  <2>4. QED
    BY <2>2, <2>3
<1>6. ASSUME NEW q \in Queue, c \in Awaited(queue[q])
      PROVE  \E s : AtPutters(c) = {s}
  <2>1. PICK i \in DOMAIN Brought(queue[q].putters) : Brought(queue[q].putters)[i] = c
    BY <1>6 DEF Awaited, Entries
  <2>2. <<q, i>> \in AtPutters(c)
    BY <2>1 DEF AtPutters, PutterSlots, Brought
  <2>3. ASSUME NEW s \in AtPutters(c) PROVE s = <<q, i>>
    <3>1. s[1] = q
      BY <1>1, <1>3, <1>6
    <3>2. s[2] = i
      BY <1>1, <1>3, <1>6, <2>1, <3>1 DEF Tidy, Distinct
    <3>3. QED
      BY <1>3, <3>1, <3>2
  <2>4. QED
    BY <2>2, <2>3
<1>7. c \in Worked => \E t : InTasks(c) = {t}
  BY <1>4 DEF Accounts, OnePlace, Worked
<1>8. c \in Over => \E s : IsSettled(c) = {s}
  BY DEF Accounts, OnePlace, Over, IsSettled
<1>9. /\ (\A q \in Queue : c \notin Held(queue[q])) => OnQueues(c) = {}
      /\ (\A q \in Queue : c \notin Awaited(queue[q])) => AtPutters(c) = {}
      /\ c \notin Worked => InTasks(c) = {}
      /\ c \notin Over => IsSettled(c) = {}
  BY <1>2, <1>3, <1>4 DEF Worked, Over, IsSettled
<1>10. Cardinality({}) = 0 /\ \A s : Cardinality({s}) = 1
  BY FS_EmptySet, FS_Singleton
<1>11. ASSUME NEW q \in Queue, c \in Held(queue[q]) \cup Awaited(queue[q])
       PROVE  /\ \A p \in Queue \ {q} : c \notin Held(queue[p]) \cup Awaited(queue[p])
              /\ c \in Held(queue[q]) <=> c \notin Awaited(queue[q])
              /\ c \notin Worked /\ c \notin Over
  BY <1>1, <1>11 DEF Tidy
<1>12. CASE \E q \in Queue : c \in Held(queue[q])
  <2>1. \A q \in Queue : c \notin Awaited(queue[q])
    BY <1>11, <1>12
  <2>2. /\ AtPutters(c) = {} /\ InTasks(c) = {} /\ IsSettled(c) = {}
        /\ \E s : OnQueues(c) = {s}
    BY <1>5, <1>9, <1>11, <1>12, <2>1
  <2>3. /\ Cardinality(OnQueues(c)) = 1 /\ Cardinality(AtPutters(c)) = 0
        /\ Cardinality(InTasks(c)) = 0 /\ Cardinality(IsSettled(c)) = 0
    BY <1>10, <2>2, Zenon
  <2>4. QED
    BY <2>3
<1>13. CASE \E q \in Queue : c \in Awaited(queue[q])
  <2>1. \A q \in Queue : c \notin Held(queue[q])
    BY <1>11, <1>13
  <2>2. /\ OnQueues(c) = {} /\ InTasks(c) = {} /\ IsSettled(c) = {}
        /\ \E s : AtPutters(c) = {s}
    BY <1>6, <1>9, <1>11, <1>13, <2>1
  <2>3. /\ Cardinality(OnQueues(c)) = 0 /\ Cardinality(AtPutters(c)) = 1
        /\ Cardinality(InTasks(c)) = 0 /\ Cardinality(IsSettled(c)) = 0
    BY <1>10, <2>2, Zenon
  <2>4. QED
    BY <2>3
<1>14. CASE \A q \in Queue : c \notin Held(queue[q]) \cup Awaited(queue[q])
  <2>1. OnQueues(c) = {} /\ AtPutters(c) = {}
    BY <1>9, <1>14
  <2>2. (c \in Worked \/ c \in Over) /\ ~(c \in Worked /\ c \in Over)
    BY <1>14 DEF Accounts, OnePlace
  <2>3. \/ (\E t : InTasks(c) = {t}) /\ IsSettled(c) = {}
        \/ (\E s : IsSettled(c) = {s}) /\ InTasks(c) = {}
    BY <1>7, <1>8, <1>9, <2>2
  <2>4. /\ Cardinality(OnQueues(c)) = 0 /\ Cardinality(AtPutters(c)) = 0
        /\ \/ Cardinality(InTasks(c)) = 1 /\ Cardinality(IsSettled(c)) = 0
           \/ Cardinality(InTasks(c)) = 0 /\ Cardinality(IsSettled(c)) = 1
    BY <1>10, <2>1, <2>3, Zenon
  <2>5. QED
    BY <2>4
<1>15. QED
  BY <1>12, <1>13, <1>14

(* In every network no event object is lost and none is worked on twice,   *)
(* through full queues, rescues and stops.                                 *)
THEOREM NetConservation == Spec => []Conservation
  BY InitIInv, StepIInv, InitAccounts, StepAccounts, AccountsConserve, PTL DEF Spec

(* An actor done with an event has sent it through all its ports or none,  *)
(* and one that gave it up through every error port.                       *)
THEOREM NetSendsComplete == Spec => []SendsComplete
<1>1. Accounts => SendsComplete
  BY DEF Accounts
<1>2. QED
  BY InitIInv, StepIInv, InitAccounts, StepAccounts, <1>1, PTL DEF Spec

(* What arrives through an error port was tried as often as its sender's   *)
(* rescue setting says.                                                    *)
THEOREM NetErrorOnlyAfterRescues == Spec => []ErrorOnlyAfterRescues
<1>1. Accounts => ErrorOnlyAfterRescues
  BY DEF Accounts, CopiesSound
<1>2. QED
  BY InitIInv, StepIInv, InitAccounts, StepAccounts, <1>1, PTL DEF Spec

(* Two copies of one event that went the same way differ in the try in     *)
(* which a rescuing actor on that way sent them.                           *)
LEMMA AccountsOfDuplicates == IInv /\ Accounts => DuplicatesOnlyFromRescue
<1> SUFFICES ASSUME IInv, Accounts, NEW c \in copies, NEW d \in copies,
                    c.id = d.id, Route(c) = Route(d), c # d
             PROVE  \E i \in DOMAIN c.via :
                      c.via[i].tries # d.via[i].tries /\ SenderAt(c, i) \in Rescue
  BY DEF DuplicatesOnlyFromRescue
<1> DEFINE n == Len(c.via)
<1>1. c.via \in Seq(Leg) /\ d.via \in Seq(Leg)
  BY DEF IInv, TypeOK, Copy
<1>2. n \in Nat /\ DOMAIN c.via = 1..n
  BY <1>1
<1>3. DOMAIN d.via = 1..n
  BY <1>2 DEF Route
<1>4. \A i \in 1..n : c.via[i].port = d.via[i].port /\ c.via[i] \in Leg /\ d.via[i] \in Leg
  BY <1>1, <1>2, <1>3 DEF Route
<1>5. \E i \in 1..n : c.via[i].tries # d.via[i].tries
  <2> SUFFICES ASSUME \A i \in 1..n : c.via[i].tries = d.via[i].tries PROVE FALSE
    OBVIOUS
  <2>1. \A l, m \in Leg : l.port = m.port /\ l.tries = m.tries => l = m
    BY DEF Leg
  <2>2. \A i \in 1..n : c.via[i] = d.via[i]
    BY <1>4, <2>1
  <2>3. Len(d.via) = n
    BY <1>1, <1>2, <1>3
  <2>4. c.via = [i \in 1..n |-> c.via[i]] /\ d.via = [i \in 1..n |-> d.via[i]]
    BY <1>1, <2>3, SequenceIsFunction
  <2>5. c.via = d.via
    BY <2>2, <2>4
  <2>6. QED
    BY <2>5 DEF Accounts, CopiesSound, OneOfEach
<1>6. ASSUME NEW i \in 1..n PROVE SenderAt(c, i) = SenderAt(d, i)
  <2>1. i = 1 \/ i - 1 \in 1..n
    BY <1>2
  <2>2. QED
    BY <1>4, <2>1 DEF SenderAt
<1>7. \A i \in 1..n : /\ c.via[i].tries # 0 => SenderAt(c, i) \in Rescue
                      /\ d.via[i].tries # 0 => SenderAt(d, i) \in Rescue
  BY <1>2, <1>3 DEF Accounts, CopiesSound, CountedByRescuers
<1>8. QED
  BY <1>2, <1>5, <1>6, <1>7

(* Without rescue an event goes a way at most once, in every network.      *)
THEOREM NetDuplicatesOnlyFromRescue == Spec => []DuplicatesOnlyFromRescue
  BY InitIInv, StepIInv, InitAccounts, StepAccounts, AccountsOfDuplicates, PTL DEF Spec
-----------------------------------------------------------------------------
(* The consumer of a queue whose actor blocks and has not been stopped is  *)
(* busy while a task of that queue lives, does it itself, and there is but *)
(* one.                                                                    *)
Serial(q) ==
  /\ consumer[q] \in {"begin", "wait", "busy"}
  /\ \A t \in tasks : t.origin = q => t.inline /\ consumer[q] = "busy"
  /\ \A t, u \in tasks : t.origin = q /\ u.origin = q => t = u

SerialConsumers ==
  \A q \in Queue : Reader[q] \in Blocking /\ loop[Reader[q]] => Serial(q)

(* No task comes from a queue at first.                                    *)
LEMMA InitSerial == Init => SerialConsumers
<1> SUFFICES ASSUME Init PROVE SerialConsumers
  OBVIOUS
<1>1. \A t \in tasks : t.origin = NoQueue
  BY DEF Init, SenderOf, NewTask
<1>2. \A q \in Queue : q # NoQueue /\ consumer[q] = "begin"
  BY NetAssumption DEF Init
<1>3. QED
  BY <1>1, <1>2 DEF SerialConsumers, Serial

(* Every step leaves such a consumer with one task at most.                *)
LEMMA StepSerial == IInv /\ Accounts /\ SerialConsumers /\ [Next]_vars => SerialConsumers'
<1> SUFFICES ASSUME IInv, Accounts, SerialConsumers, [Next]_vars,
                    NEW q \in Queue, Reader[q] \in Blocking, loop'[Reader[q]]
             PROVE  Serial(q)'
  BY DEF SerialConsumers
<1>1. /\ consumer \in [Queue -> {"begin", "wait", "busy", "drain", "exited"}]
      /\ tasks \subseteq Task /\ loop \in [Actor -> BOOLEAN] /\ Reader[q] \in Actor
      /\ q # NoQueue
  BY NetAssumption, SMTT(40) DEF IInv, TypeOK
<1>2. loop[Reader[q]]
  BY <1>1 DEF Next, Start, Stop, Hub, WakePutter, UnlockEnds, Consumer, Enter, ConsumeAll,
              ConsumeInline, ConsumeNothing, Drain, TaskStep, Send, Return,
              Settle, StartRescue, EndRescue, vars
<1>3. Serial(q) /\ NextTurn(Reader[q]) = "wait"
  BY <1>2 DEF SerialConsumers, NextTurn
<1>4. ASSUME NEW t \in tasks, t.origin = q PROVE t.actor = Reader[q]
  BY <1>1, <1>4 DEF Accounts, TasksSound, TaskShape, At
<1>5. ASSUME consumer' = consumer, tasks' = tasks PROVE Serial(q)'
  BY <1>3, <1>5 DEF Serial
<1>6. ASSUME NEW t \in tasks, NEW u, u.origin = t.origin, u.inline = t.inline,
             consumer' = consumer, tasks' = (tasks \ {t}) \cup {u}
      PROVE  Serial(q)'
  BY <1>3, <1>6 DEF Serial
<1>7. ASSUME NEW t \in tasks, consumer' = ConsumerAfter(t), tasks' = tasks \ {t}
      PROVE  Serial(q)'
  <2>1. CASE t.origin = q
    <3>1. t.inline /\ \A u \in tasks' : u.origin # q
      BY <1>3, <1>7, <2>1 DEF Serial
    <3>2. consumer'[q] = "wait"
      BY <1>1, <1>3, <1>4, <1>7, <2>1, <3>1 DEF ConsumerAfter
    <3>3. QED
      BY <3>1, <3>2 DEF Serial
  <2>2. CASE t.origin # q
    <3>1. consumer'[q] = consumer[q]
      BY <1>1, <1>7, <2>2 DEF ConsumerAfter
    <3>2. QED
      BY <1>3, <1>7, <3>1 DEF Serial
  <2>3. QED
    BY <2>1, <2>2
<1>8. ASSUME NEW p \in Queue, p # q, consumer'[q] = consumer[q],
             \A t \in tasks' : t \in tasks \/ t.origin = p
      PROVE  Serial(q)'
  BY <1>3, <1>8 DEF Serial
<1>9. ASSUME NEW p \in Queue, NEW t \in TasksFor(p) PROVE t.origin = p
  BY DEF TasksFor, NewTask
<1>10. ASSUME NEW a \in Actor, Start(a) \/ Stop(a) PROVE Serial(q)'
  BY <1>5, <1>10 DEF Start, Stop
<1>11. ASSUME NEW p \in Queue, WakePutter(p) PROVE Serial(q)'
  <2>1. PICK t \in tasks :
          \/ tasks' = tasks \ {t} /\ consumer' = ConsumerAfter(t)
          \/ tasks' = (tasks \ {t}) \cup {Resumed(t)} /\ consumer' = consumer
    BY <1>11 DEF WakePutter
  <2>2. Resumed(t).origin = t.origin /\ Resumed(t).inline = t.inline
    BY <1>1 DEF Resumed, Task
  <2>3. QED
    BY <1>6, <1>7, <2>1, <2>2
<1>12. ASSUME NEW p \in Queue, UnlockEnds(p) PROVE Serial(q)'
  BY <1>5, <1>12 DEF UnlockEnds
<1>13. ASSUME NEW p \in Queue, Enter(p) PROVE Serial(q)'
  <2>1. tasks' = tasks /\ consumer' = [consumer EXCEPT ![p] = NextTurn(Reader[p])]
    BY <1>13 DEF Enter
  <2>2. CASE p = q
    <3>1. consumer[q] = "begin" /\ consumer'[q] = "wait"
      BY <1>1, <1>3, <1>13, <2>1, <2>2 DEF Enter
    <3>2. QED
      BY <1>3, <2>1, <3>1 DEF Serial
  <2>3. CASE p # q
    BY <1>1, <1>8, <2>1, <2>3
  <2>4. QED
    BY <2>2, <2>3
<1>14. ASSUME NEW p \in Queue, ConsumeAll(p) PROVE Serial(q)'
  <2>1. p # q
    BY <1>14 DEF ConsumeAll
  <2>2. tasks' = tasks \cup TasksFor(p) /\ consumer'[q] = consumer[q]
    BY <1>1, <1>14, <2>1 DEF ConsumeAll
  <2>3. QED
    BY <1>8, <1>9, <2>1, <2>2
<1>15. ASSUME NEW p \in Queue, ConsumeInline(p) PROVE Serial(q)'
  <2> DEFINE n == NewTask(Reader[p], p, Head(queue[p].items), TRUE)
  <2>1. /\ tasks' = tasks \cup {n} /\ n.origin = p /\ n.inline = TRUE
        /\ consumer' = [consumer EXCEPT ![p] = "busy"]
    BY <1>15 DEF ConsumeInline, NewTask
  <2> HIDE DEF n
  <2>2. CASE p = q
    <3>1. consumer'[q] = "busy" /\ \A t \in tasks : t.origin # q
      BY <1>1, <1>3, <1>15, <2>1, <2>2 DEF ConsumeInline, Serial
    <3>2. QED
      BY <2>1, <2>2, <3>1 DEF Serial
  <2>3. CASE p # q
    BY <1>1, <1>8, <2>1, <2>3
  <2>4. QED
    BY <2>2, <2>3
<1>16. ASSUME NEW p \in Queue, ConsumeNothing(p) PROVE Serial(q)'
  <2>1. tasks' = tasks /\ consumer' = [consumer EXCEPT ![p] = NextTurn(Reader[p])]
    BY <1>16 DEF ConsumeNothing
  <2>2. CASE p = q
    <3>1. consumer[q] = "wait" /\ consumer'[q] = "wait"
      BY <1>1, <1>3, <1>16, <2>1, <2>2 DEF ConsumeNothing
    <3>2. QED
      BY <1>3, <2>1, <3>1 DEF Serial
  <2>3. CASE p # q
    BY <1>1, <1>8, <2>1, <2>3
  <2>4. QED
    BY <2>2, <2>3
<1>17. ASSUME NEW p \in Queue, Drain(p) PROVE Serial(q)'
  <2>1. p # q
    BY <1>3, <1>17 DEF Drain, Serial
  <2>2. tasks' = tasks \cup TasksFor(p) /\ consumer'[q] = consumer[q]
    BY <1>1, <1>17, <2>1 DEF Drain
  <2>3. QED
    BY <1>8, <1>9, <2>1, <2>2
<1>18. ASSUME NEW t \in tasks, Send(t) PROVE Serial(q)'
  <2>1. PICK u \in Plans(t) :
          /\ Becomes(t, [u EXCEPT !.todo = Tail(@),
                           !.phase = IF HasRoom(queue[Leads[Head(u.todo)]])
                                       THEN "send" ELSE "parked"])
          /\ consumer' = consumer
    BY <1>18 DEF Send
  <2>2. u \in Task /\ u.origin = t.origin /\ u.inline = t.inline
    BY SenderKnows DEF SameWork
  <2> DEFINE w == [u EXCEPT !.todo = Tail(@),
                     !.phase = IF HasRoom(queue[Leads[Head(u.todo)]])
                                 THEN "send" ELSE "parked"]
  <2>3. w.origin = t.origin /\ w.inline = t.inline
    BY <2>2 DEF Task
  <2>4. tasks' = (tasks \ {t}) \cup {w}
    BY <2>1 DEF Becomes
  <2> HIDE DEF w
  <2>5. QED
    BY <1>6, <2>1, <2>3, <2>4
<1>19. ASSUME NEW t \in tasks, Return(t) PROVE Serial(q)'
  BY <1>7, <1>19 DEF Return, Settle
<1>20. ASSUME NEW t \in tasks, StartRescue(t) PROVE Serial(q)'
  <2>1. PICK u \in Plans(t) :
          /\ \E c : Becomes(t, [u EXCEPT !.phase = "asleep", !.end = "requeue", !.event = c])
          /\ consumer' = consumer
    BY <1>20 DEF StartRescue
  <2>2. PICK c : Becomes(t, [u EXCEPT !.phase = "asleep", !.end = "requeue", !.event = c])
    BY <2>1
  <2>3. u \in Task /\ u.origin = t.origin /\ u.inline = t.inline
    BY SenderKnows DEF SameWork
  <2> DEFINE w == [u EXCEPT !.phase = "asleep", !.end = "requeue", !.event = c]
  <2>4. w.origin = t.origin /\ w.inline = t.inline
    BY <2>3 DEF Task
  <2>5. tasks' = (tasks \ {t}) \cup {w}
    BY <2>2 DEF Becomes
  <2> HIDE DEF w
  <2>6. QED
    BY <1>6, <2>1, <2>4, <2>5
<1>21. ASSUME NEW t \in tasks, EndRescue(t) PROVE Serial(q)'
  <2> DEFINE w == [t EXCEPT !.phase = "parked"]
  <2>1. \/ tasks' = tasks \ {t} /\ consumer' = ConsumerAfter(t)
        \/ tasks' = (tasks \ {t}) \cup {w} /\ consumer' = consumer
    BY <1>21 DEF EndRescue, Becomes
  <2>2. w.origin = t.origin /\ w.inline = t.inline
    BY <1>1 DEF Task
  <2> HIDE DEF w
  <2>3. QED
    BY <1>6, <1>7, <2>1, <2>2
<1>22. CASE UNCHANGED vars
  BY <1>5, <1>22 DEF vars
<1>23. QED
  BY <1>10, <1>11, <1>12, <1>13, <1>14, <1>15, <1>16, <1>17, <1>18, <1>19, <1>20,
     <1>21, <1>22
     DEF Next, Hub, Consumer, TaskStep

(* A blocking actor that has not been stopped works on one event of a      *)
(* queue at a time, through full queues and rescues, in every network.     *)
THEOREM NetSerialConsume == Spec => []SerialConsume
<1>1. SerialConsumers => SerialConsume
  <2> SUFFICES ASSUME SerialConsumers, NEW q \in Queue, Reader[q] \in Blocking,
                      loop[Reader[q]]
               PROVE  Cardinality({t \in tasks : t.origin = q}) <= 1
    BY DEF SerialConsume
  <2> DEFINE S == {t \in tasks : t.origin = q}
  <2>1. \A t, u \in S : t = u
    BY DEF SerialConsumers, Serial
  <2> HIDE DEF S
  <2>2. S = {} \/ \E t : S = {t}
    <3>1. ASSUME NEW t \in S PROVE S = {t}
      BY <2>1
    <3>2. QED
      BY <3>1
  <2>3. Cardinality(S) = 0 \/ Cardinality(S) = 1
    BY <2>2, FS_EmptySet, FS_Singleton, Zenon
  <2>4. QED
    BY <2>3 DEF S
<1>2. QED
  BY InitIInv, StepIInv, InitAccounts, StepAccounts, InitSerial, StepSerial, <1>1, PTL
     DEF Spec

(***************************************************************************)
(* The order of work.  What a queue accepts is recorded; what is still on  *)
(* it is the end of the record.                                            *)
(***************************************************************************)

(* Two forms of one event object: a rescue changes only its counters.      *)
Alike(c, d) == c.id = d.id /\ c.via = d.via

(* Sequence s is the end of h.                                             *)
Ends(h, s) ==
  Len(s) <= Len(h) /\ \A i \in DOMAIN s : s[i] = h[Len(h) - Len(s) + i]

(* How many of the events that q accepted have been taken from it.         *)
Taken(q) == Len(accepted[q]) - Len(queue[q].items)

(* The record of q: what it accepted was sent to it; an actor that never   *)
(* puts an event back accepts it once.                                     *)
RecordRight(q) ==
  /\ accepted[q] \in Seq(Copy)
  /\ Ends(accepted[q], queue[q].items)
  /\ \A i \in DOMAIN accepted[q] :
       LET c == accepted[q][i]
       IN  c.via # <<>> /\ Leads[LastPort(c)] = q /\ \E d \in copies : Alike(d, c)

AcceptedOnce(q) ==
  /\ \A i, j \in DOMAIN accepted[q] : Alike(accepted[q][i], accepted[q][j]) => i = j
  /\ \A i \in DOMAIN accepted[q], c \in Awaited(queue[q]) : ~Alike(accepted[q][i], c)

Recorded ==
  \A q \in Queue : RecordRight(q) /\ (Reader[q] \notin Rescue => AcceptedOnce(q))

(* Who stops, puts back and sends first.                                   *)
Steady ==
  /\ \A a \in Actor \ Stoppable : loop[a]
  /\ \A t \in tasks : t.end = "requeue" => t.actor \in Rescue
  /\ \A t \in tasks : t.origin = NoQueue => t.event.via = <<>>

(* A sleeping putter brings what was made of its event, or that event back.*)
PuttersBring ==
  \A q \in Queue : \A p \in Entries(queue[q].putters) :
    \/ p.item = p.by /\ Reader[q] \in Rescue
    \/ \E l \in Leg : MadeBy(p.item, p.by, l)

(* The task of an orderly queue works on the event taken last.             *)
AtWork(q) ==
  \A t \in tasks : t.origin = q =>
    Taken(q) > 0 /\ Alike(t.event, accepted[q][Taken(q)])

OneByOne == \A q \in Queue : Orderly(q) => AtWork(q)

OrderInv == Recorded /\ Steady /\ PuttersBring /\ OneByOne /\ WorkInOrder

Base == IInv /\ Accounts /\ SerialConsumers

-----------------------------------------------------------------------------
(* What the operators of EventQueue do to a record.                        *)

(* Nothing is missing from the end of a record when an event joins both,   *)
LEMMA EndsAppend ==
  ASSUME NEW S, NEW h \in Seq(S), NEW s \in Seq(S), NEW x \in S, Ends(h, s)
  PROVE  Ends(Append(h, x), Append(s, x))
<1>1. /\ Len(Append(h, x)) = Len(h) + 1 /\ Len(Append(s, x)) = Len(s) + 1
      /\ Len(h) \in Nat /\ Len(s) \in Nat
      /\ DOMAIN s = 1..Len(s) /\ DOMAIN Append(s, x) = 1..(Len(s) + 1)
  OBVIOUS
<1>2. ASSUME NEW i \in 1..(Len(s) + 1)
      PROVE  Append(s, x)[i] = Append(h, x)[Len(h) + 1 - (Len(s) + 1) + i]
  <2>1. CASE i = Len(s) + 1
    BY <1>1, <2>1
  <2>2. CASE i \in 1..Len(s)
    <3>1. s[i] = h[Len(h) - Len(s) + i] /\ Len(s) <= Len(h)
      BY <1>1, <2>2 DEF Ends
    <3>2. Append(s, x)[i] = s[i]
      BY <2>2
    <3>3. Len(h) - Len(s) + i \in 1..Len(h)
      BY <1>1, <2>2, <3>1
    <3>4. Append(h, x)[Len(h) - Len(s) + i] = h[Len(h) - Len(s) + i]
      BY <3>3
    <3>5. Len(h) + 1 - (Len(s) + 1) + i = Len(h) - Len(s) + i
      BY <1>1
    <3>6. QED
      BY <3>1, <3>2, <3>4, <3>5
  <2>3. i = Len(s) + 1 \/ i \in 1..Len(s)
    BY <1>1
  <2>4. QED
    BY <2>1, <2>2, <2>3
<1>3. QED
  BY <1>1, <1>2 DEF Ends

(* or when the head is taken,                                              *)
LEMMA EndsTail ==
  ASSUME NEW S, NEW h \in Seq(S), NEW s \in Seq(S), s # <<>>, Ends(h, s)
  PROVE  /\ Ends(h, Tail(s)) /\ Len(Tail(s)) = Len(s) - 1 /\ Len(s) \in Nat \ {0}
         /\ Len(h) - Len(s) + 1 \in DOMAIN h /\ Head(s) = h[Len(h) - Len(s) + 1]
<1>1. /\ Len(Tail(s)) = Len(s) - 1 /\ Len(s) \in Nat \ {0} /\ Len(h) \in Nat
      /\ DOMAIN s = 1..Len(s) /\ DOMAIN Tail(s) = 1..(Len(s) - 1) /\ DOMAIN h = 1..Len(h)
      /\ Head(s) = s[1]
  OBVIOUS
<1>2. ASSUME NEW i \in 1..(Len(s) - 1)
      PROVE  Tail(s)[i] = h[Len(h) - (Len(s) - 1) + i]
  <2>1. Tail(s)[i] = s[i + 1] /\ i + 1 \in 1..Len(s)
    BY <1>1
  <2>2. s[i + 1] = h[Len(h) - Len(s) + (i + 1)]
    BY <1>1, <2>1 DEF Ends
  <2>3. Len(h) - Len(s) + (i + 1) = Len(h) - (Len(s) - 1) + i
    BY <1>1
  <2>4. QED
    BY <2>1, <2>2, <2>3
<1>3. s[1] = h[Len(h) - Len(s) + 1] /\ Len(s) <= Len(h)
  BY <1>1 DEF Ends
<1>4. QED
  BY <1>1, <1>2, <1>3 DEF Ends

(* or all of it.                                                           *)
LEMMA EndsNothing ==
  ASSUME NEW S, NEW h \in Seq(S) PROVE Ends(h, <<>>)
  BY DEF Ends

(* A put with room lays its item on the queue,                             *)
LEMMA PutLays ==
  ASSUME NEW Item, NEW q \in QueueType(Item, Item), NEW x \in Item, NEW g \in Item,
         NEW r, r = Put(q, x, g)
  PROVE  \/ HasRoom(q) /\ r.items = Append(q.items, x) /\ r.putters = q.putters
         \/ ~HasRoom(q) /\ r.items = q.items
  BY DEF Put, QueueType

(* another leaves a putter;                                                *)
LEMMA PutSleeps ==
  ASSUME NEW Item, NEW q \in QueueType(Item, Item), NEW x \in Item, NEW g \in Item,
         NEW r, r = Put(q, x, g), ~HasRoom(q)
  PROVE  r.putters = Append(q.putters, [item |-> x, by |-> g])
  BY DEF Put, QueueType

(* an admission lays down what the oldest putter brought,                  *)
LEMMA AdmitLays ==
  ASSUME NEW Item, NEW Greenlet, NEW q \in QueueType(Item, Greenlet), CanAdmit(q)
  PROVE  /\ Admit(q).items = Append(q.items, Head(q.putters).item)
         /\ Admit(q).putters = Tail(q.putters)
         /\ Head(q.putters).item \in Item
<1>1. Head(q.putters).item \in Item
  BY AdmitKeeps, Zenon DEF QueueType, CanAdmit
<1>2. /\ Admit(q).items = Append(q.items, Head(q.putters).item)
      /\ Admit(q).putters = Tail(q.putters)
  BY DEF Admit, QueueType
<1>3. QED
  BY <1>1, <1>2

(* and a queue that does not grow has accepted nothing.                    *)
LEMMA NothingNoted ==
  ASSUME NEW S, NEW q, NEW r, NEW h, q.items \in Seq(S), r.items \in Seq(S),
         Len(r.items) <= Len(q.items)
  PROVE  Noted(h, q, r) = h
  BY DEF Noted

(* What is awaited are the items of the putters.                           *)
LEMMA AwaitedOf ==
  ASSUME NEW q PROVE Awaited(q) = {p.item : p \in Entries(q.putters)}
  BY DEF Awaited, Entries, Brought
-----------------------------------------------------------------------------
(* What became of a task is at work on the same event for the same queue.  *)
Pursues(u, t) ==
  /\ u.origin = t.origin /\ u.actor = t.actor /\ Alike(u.event, t.event)
  /\ u.end = "requeue" => t.end = "requeue" \/ t.actor \in Rescue

TasksGoOn == \A u \in tasks' : \E t \in tasks : Pursues(u, t)

Others(q) == \A p \in Queue \ {q} : queue'[p] = queue[p]

(* The kinds of steps there are, for the order of events: nothing moves;   *)
Idles ==
  /\ \A q \in Queue : /\ queue'[q].items = queue[q].items
                       /\ queue'[q].putters = queue[q].putters
  /\ TasksGoOn
  /\ \A c \in copies : \E d \in copies' : Alike(d, c)

(* a consumer takes one event or all;                                      *)
Takes(q) ==
  /\ Others(q)
  /\ queue'[q].putters = queue[q].putters
  /\ copies' = copies
  /\ \/ /\ Reader[q] \notin Blocking \/ consumer[q] = "drain"
        /\ queue'[q].items = <<>>
        /\ tasks' = tasks \cup TasksFor(q)
     \/ /\ consumer[q] = "wait"
        /\ queue[q].items # <<>>
        /\ queue'[q].items = Tail(queue[q].items)
        /\ tasks' = tasks \cup {NewTask(Reader[q], q, Head(queue[q].items), TRUE)}

(* task t sends the new event n to q;                                      *)
Sends(t, n, q) ==
  /\ n \in Copy /\ n.via # <<>> /\ Leads[LastPort(n)] = q
  /\ \E l \in Leg : MadeBy(n, t.event, l)
  /\ \A d \in copies : ~Alike(d, n)
  /\ Others(q) /\ queue'[q] = Put(queue[q], n, t.event)
  /\ copies' = copies \cup {n}
  /\ \E w : /\ tasks' = (tasks \ {t}) \cup {w}
            /\ Pursues(w, t)

(* a rescued event goes back to the queue it came from;                    *)
PutsBack(t, q) ==
  /\ Reader[q] \in Rescue
  /\ t.event \in copies /\ t.event.via # <<>> /\ Leads[LastPort(t.event)] = q
  /\ Others(q) /\ queue'[q] = Put(queue[q], t.event, t.event)
  /\ copies' = copies
  /\ TasksGoOn

(* the hub lets the oldest putter of q in, whose task is t.                *)
Admits(q, t) ==
  /\ CanAdmit(queue[q]) /\ Others(q) /\ queue'[q] = Admit(queue[q])
  /\ t.event = Head(queue[q].putters).by
  /\ copies' = copies
  /\ TasksGoOn

StepKind ==
  \/ Idles
  \/ \E q \in Queue : Takes(q)
  \/ \E t \in tasks, n \in Copy, q \in Queue : Sends(t, n, q)
  \/ \E t \in tasks, q \in Queue : PutsBack(t, q)
  \/ \E q \in Queue, t \in tasks : Admits(q, t)

(* A task that comes from a queue is its reader's.                         *)
LEMMA TaskOfQueue ==
  ASSUME Base, NEW t \in tasks, NEW q \in Queue, t.origin = q
  PROVE  t.actor = Reader[q] /\ t.event.via # <<>> /\ Leads[LastPort(t.event)] = q
<1>1. TaskShape(t) /\ t.origin # NoQueue
  BY NetAssumption DEF Base, Accounts, TasksSound
<1>2. QED
  BY <1>1 DEF TaskShape, At

(* Steps of tasks that move nothing: the task ends, or is rescued.         *)
LEMMA TaskIdles ==
  ASSUME Base, Steady, NEW t \in tasks, Return(t) \/ StartRescue(t)
  PROVE  Idles
<1>1. tasks \subseteq Task /\ queue' = queue
  BY DEF Base, IInv, TypeOK, Return, StartRescue
<1>2. \A v \in tasks : Pursues(v, v)
  BY DEF Pursues, Alike
<1>3. ASSUME tasks' = tasks \ {t}, copies' = copies PROVE Idles
  BY <1>1, <1>2, <1>3 DEF Idles, TasksGoOn, Alike
<1>4. CASE Return(t)
  BY <1>3, <1>4 DEF Return, Settle
<1>5. CASE StartRescue(t)
  <2>1. PICK u \in Plans(t) :
          LET c == [u.event EXCEPT !.tries[u.actor] = @ + 1]
          IN  /\ Raised(u)
              /\ Becomes(t, [u EXCEPT !.phase = "asleep", !.end = "requeue", !.event = c])
              /\ copies' = (copies \ {u.event}) \cup {c}
    BY <1>5 DEF StartRescue
  <2> DEFINE f == [u.event EXCEPT !.tries[u.actor] = @ + 1]
             w == [u EXCEPT !.phase = "asleep", !.end = "requeue", !.event = f]
  <2>2. u \in Task /\ SameWork(u, t) /\ t.event \in Copy /\ MayRescue(u)
    BY <2>1, SenderKnows, PlansType DEF Base
  <2>3. f.id = t.event.id /\ f.via = t.event.via
    BY <2>2 DEF Copy, SameWork
  <2>4. tasks' = (tasks \ {t}) \cup {w} /\ copies' = (copies \ {t.event}) \cup {f}
    BY <2>1, <2>2 DEF Becomes, SameWork
  <2> HIDE DEF f
  <2>5. w.origin = t.origin /\ w.actor = t.actor /\ w.event = f
    BY <2>2 DEF Task, SameWork
  <2> HIDE DEF w
  <2>6. Pursues(w, t)
    BY <2>2, <2>3, <2>5 DEF Pursues, Alike, MayRescue, SameWork
  <2>7. \A c \in copies : \E d \in copies' : Alike(d, c)
    BY <2>3, <2>4 DEF Alike
  <2>8. QED
    BY <1>1, <1>2, <2>4, <2>6, <2>7 DEF Idles, TasksGoOn
<1>6. QED
  BY <1>4, <1>5

(* A send is of something new.                                             *)
LEMMA TaskSends ==
  ASSUME Base, NEW t \in tasks, Send(t)
  PROVE  \E n \in Copy, q \in Queue : Sends(t, n, q)
<1>1. PICK u \in Plans(t) :
        LET q == Leads[Head(u.todo)]
            n == Sent(u.event, u.actor, Head(u.todo))
        IN  /\ u.todo # <<>>
            /\ queue' = [queue EXCEPT ![q] = Put(@, n, u.event)]
            /\ Becomes(t, [u EXCEPT !.todo = Tail(@),
                                    !.phase = IF HasRoom(queue[q]) THEN "send" ELSE "parked"])
            /\ copies' = copies \cup {n}
  BY DEF Send
<1> DEFINE q == Leads[Head(u.todo)]
           n == Sent(u.event, u.actor, Head(u.todo))
           w == [u EXCEPT !.todo = Tail(@),
                          !.phase = IF HasRoom(queue[q]) THEN "send" ELSE "parked"]
           l == [port |-> Head(u.todo), tries |-> t.event.tries[t.actor]]
<1>2. u \in Task /\ SameWork(u, t) /\ u.todo # <<>> /\ t.event \in Copy /\ u.phase = "send"
  BY <1>1, SenderKnows DEF Base
<1>3. Head(u.todo) \in Port /\ q \in Queue
  BY <1>2, HeadTail, NetAssumption DEF Task
<1>4. /\ l \in Leg /\ n \in Copy /\ MadeBy(n, t.event, l)
      /\ \A d \in copies : ~(d.id = n.id /\ d.via = n.via)
      /\ n.via # <<>> /\ LastPort(n) = Head(u.todo)
  BY <1>2, SentIsNew DEF Base
<1>5. /\ w.origin = t.origin /\ w.actor = t.actor /\ w.event = t.event /\ w.end = u.end
  BY <1>2 DEF Task, SameWork
<1>6. u.end # "requeue"
  BY SenderKnows DEF Base, TaskSound, TaskShape
<1>7. tasks' = (tasks \ {t}) \cup {w} /\ copies' = copies \cup {n}
  BY <1>1 DEF Becomes
<1>8. queue \in [Queue -> QueueType(Copy, Copy)]
  BY DEF Base, IInv, TypeOK
<1>9. queue' = [queue EXCEPT ![q] = Put(queue[q], n, t.event)]
  BY <1>1, <1>2 DEF SameWork
<1> HIDE DEF w, n, q, l
<1>10. queue'[q] = Put(queue[q], n, t.event) /\ Others(q)
  BY <1>3, <1>8, <1>9 DEF Others, q
<1>11. Pursues(w, t)
  BY <1>5, <1>6 DEF Pursues, Alike
<1>12. Leads[LastPort(n)] = q
  BY <1>4 DEF q
<1>13. Sends(t, n, q)
  BY <1>4, <1>7, <1>10, <1>11, <1>12 DEF Sends, Alike
<1>14. QED
  BY <1>3, <1>4, <1>13 DEF q

(* A rescued event goes back.                                              *)
LEMMA TaskPutsBack ==
  ASSUME Base, Steady, NEW t \in tasks, EndRescue(t)
  PROVE  \E q \in Queue : PutsBack(t, q)
<1> DEFINE q == t.origin
<1>1. t \in Task /\ t.phase = "asleep" /\ TaskShape(t) /\ Holding(t) /\ t.event \in copies
  BY DEF EndRescue, Base, IInv, TypeOK, Accounts, TasksSound, Holding
<1>2. q \in Queue /\ t.actor \in Rescue
  BY <1>1 DEF TaskShape, Task, Steady
<1>3. Reader[q] \in Rescue /\ t.event.via # <<>> /\ Leads[LastPort(t.event)] = q
  BY <1>2, TaskOfQueue
<1>4. queue \in [Queue -> QueueType(Copy, Copy)]
  BY DEF Base, IInv, TypeOK
<1>5. queue' = [queue EXCEPT ![q] = Put(queue[q], t.event, t.event)]
  BY DEF EndRescue
<1> HIDE DEF q
<1>6. queue'[q] = Put(queue[q], t.event, t.event) /\ Others(q)
  BY <1>2, <1>4, <1>5 DEF Others
<1> DEFINE w == [t EXCEPT !.phase = "parked"]
<1>7. w.origin = t.origin /\ w.actor = t.actor /\ w.event = t.event /\ w.end = t.end
  BY <1>1 DEF Task
<1>8. tasks' = tasks \ {t} \/ tasks' = (tasks \ {t}) \cup {w}
  BY DEF EndRescue, Becomes
<1> HIDE DEF w
<1>9. TasksGoOn /\ \A u \in tasks \ {t} : u \in tasks'
  BY <1>7, <1>8 DEF TasksGoOn, Pursues, Alike
<1>10. copies' = copies
  BY DEF EndRescue
<1>11. PutsBack(t, q)
  BY <1>1, <1>3, <1>6, <1>9, <1>10 DEF PutsBack, q
<1>12. QED
  BY <1>2, <1>11

(* The hub admits.                                                         *)
LEMMA HubAdmits ==
  ASSUME Base, NEW q \in Queue, WakePutter(q)
  PROVE  \E t \in tasks : Admits(q, t)
<1>1. PICK t \in tasks :
        /\ t.event = Head(queue[q].putters).by
        /\ tasks' = IF t.end = "requeue" THEN tasks \ {t}
                                         ELSE (tasks \ {t}) \cup {Resumed(t)}
  BY DEF WakePutter
<1>2. /\ CanAdmit(queue[q]) /\ copies' = copies
      /\ queue' = [queue EXCEPT ![q] = Admit(queue[q])]
  BY DEF WakePutter
<1>3. queue \in [Queue -> QueueType(Copy, Copy)] /\ t \in Task
  BY DEF Base, IInv, TypeOK
<1>4. queue'[q] = Admit(queue[q]) /\ Others(q)
  BY <1>2, <1>3 DEF Others
<1> DEFINE w == Resumed(t)
<1>5. w.origin = t.origin /\ w.actor = t.actor /\ w.event = t.event /\ w.end = t.end
  BY <1>3 DEF Task, Resumed
<1> HIDE DEF w
<1>6. tasks' = tasks \ {t} \/ tasks' = (tasks \ {t}) \cup {w}
  BY <1>1 DEF w
<1>7. TasksGoOn /\ \A u \in tasks \ {t} : u \in tasks'
  BY <1>5, <1>6 DEF TasksGoOn, Pursues, Alike
<1>8. QED
  BY <1>1, <1>2, <1>4, <1>7 DEF Admits

(* A consumer takes, or waits for what comes.                              *)
LEMMA ConsumerTakes ==
  ASSUME Base, NEW q \in Queue, Consumer(q)
  PROVE  Idles \/ Takes(q)
<1>1. queue \in [Queue -> QueueType(Copy, Copy)] /\ queue[q] \in QueueType(Copy, Copy)
  BY DEF Base, IInv, TypeOK
<1>2. TasksGoOn \/ tasks' # tasks
  BY DEF TasksGoOn, Pursues, Alike
<1>3. ASSUME NEW r, queue' = [queue EXCEPT ![q] = r] PROVE queue'[q] = r /\ Others(q)
  BY <1>1, <1>3 DEF Others
<1>4. CASE Enter(q)
  BY <1>2, <1>4 DEF Enter, Idles, Alike
<1>5. CASE ConsumeNothing(q)
  <2> DEFINE r == GetEmpty(queue[q])
  <2>1. r.items = queue[q].items /\ r.putters = queue[q].putters
    BY <1>1 DEF GetEmpty, QueueType
  <2>2. queue' = [queue EXCEPT ![q] = r] /\ tasks' = tasks /\ copies' = copies
    BY <1>5 DEF ConsumeNothing
  <2> HIDE DEF r
  <2>3. QED
    BY <1>2, <1>3, <2>1, <2>2 DEF Idles, Others, Alike
<1>6. CASE ConsumeInline(q)
  <2> DEFINE r == Get(queue[q])
  <2>1. r.items = Tail(queue[q].items) /\ r.putters = queue[q].putters
    BY <1>1 DEF Get, QueueType
  <2>2. /\ queue' = [queue EXCEPT ![q] = r] /\ copies' = copies
        /\ consumer[q] = "wait" /\ queue[q].items # <<>>
        /\ tasks' = tasks \cup {NewTask(Reader[q], q, Head(queue[q].items), TRUE)}
    BY <1>6 DEF ConsumeInline
  <2> HIDE DEF r
  <2>3. QED
    BY <1>3, <2>1, <2>2 DEF Takes
<1>7. CASE ConsumeAll(q)
  <2> DEFINE r == Emptied(queue[q])
  <2>1. r.items = <<>> /\ r.putters = queue[q].putters /\ r \in QueueType(Copy, Copy)
    BY <1>1, EmptiedKeeps
  <2>2. GetEmpty(r).items = r.items /\ GetEmpty(r).putters = r.putters
    BY <2>1 DEF GetEmpty, QueueType
  <2>3. queue' = [queue EXCEPT ![q] = r] \/ queue' = [queue EXCEPT ![q] = GetEmpty(r)]
    BY <1>7 DEF ConsumeAll
  <2>4. tasks' = tasks \cup TasksFor(q) /\ copies' = copies /\ Reader[q] \notin Blocking
    BY <1>7 DEF ConsumeAll
  <2> HIDE DEF r
  <2>5. QED
    BY <1>3, <2>1, <2>2, <2>3, <2>4 DEF Takes
<1>8. CASE Drain(q)
  <2> DEFINE r == Emptied(queue[q])
  <2>1. r.items = <<>> /\ r.putters = queue[q].putters
    BY <1>1, EmptiedKeeps
  <2>2. /\ queue' = [queue EXCEPT ![q] = r] /\ consumer[q] = "drain"
        /\ tasks' = tasks \cup TasksFor(q) /\ copies' = copies
    BY <1>8 DEF Drain
  <2> HIDE DEF r
  <2>3. QED
    BY <1>3, <2>1, <2>2 DEF Takes
<1>9. QED
  BY <1>4, <1>5, <1>6, <1>7, <1>8 DEF Consumer

(* Every step is of one of these kinds.                                    *)
LEMMA StepKinds == Base /\ Steady /\ Next => StepKind
<1> SUFFICES ASSUME Base, Steady, Next PROVE StepKind
  OBVIOUS
<1>1. ASSUME NEW a \in Actor, Start(a) \/ Stop(a) PROVE Idles
  BY <1>1 DEF Start, Stop, Idles, TasksGoOn, Pursues, Alike
<1>2. ASSUME NEW q \in Queue, UnlockEnds(q) PROVE Idles
  <2> DEFINE r == EndUnlock(queue[q])
  <2>1. queue \in [Queue -> QueueType(Copy, Copy)] /\ queue[q] \in QueueType(Copy, Copy)
    BY DEF Base, IInv, TypeOK
  <2>2. r.items = queue[q].items /\ r.putters = queue[q].putters
    BY <2>1 DEF EndUnlock, QueueType
  <2>3. queue' = [queue EXCEPT ![q] = r] /\ tasks' = tasks /\ copies' = copies
    BY <1>2 DEF UnlockEnds
  <2> HIDE DEF r
  <2>4. TasksGoOn
    BY <2>3 DEF TasksGoOn, Pursues, Alike
  <2>5. QED
    BY <2>1, <2>2, <2>3, <2>4 DEF Idles, Alike
<1>3. ASSUME NEW q \in Queue, Hub(q) \/ Consumer(q) PROVE StepKind
  BY <1>2, <1>3, HubAdmits, ConsumerTakes DEF Hub, StepKind
<1>4. ASSUME NEW t \in tasks, TaskStep(t) PROVE StepKind
  BY <1>4, TaskIdles, TaskSends, TaskPutsBack DEF TaskStep, StepKind
<1>5. QED
  BY <1>1, <1>3, <1>4 DEF Next, StepKind
-----------------------------------------------------------------------------
(* Who stops, puts back and sends first stays as it is.                    *)
LEMMA StepSteady == Base /\ Steady /\ Next => Steady'
<1> SUFFICES ASSUME Base, Steady, Next PROVE Steady'
  OBVIOUS
<1>1. ASSUME NEW a \in Actor \ Stoppable PROVE loop'[a]
  <2>1. loop \in [Actor -> BOOLEAN] /\ loop[a]
    BY DEF Base, IInv, TypeOK, Steady
  <2>2. QED
    BY <2>1 DEF Next, Start, Stop, Hub, WakePutter, UnlockEnds, Consumer, Enter, ConsumeAll,
                ConsumeInline, ConsumeNothing, Drain, TaskStep, Send, Return,
                Settle, StartRescue, EndRescue
<1> DEFINE Right(u) == /\ u.end = "requeue" => u.actor \in Rescue
                       /\ u.origin = NoQueue => u.event.via = <<>>
<1>2. \A t \in tasks : Right(t)
  BY DEF Steady
<1>3. ASSUME NEW t \in tasks, NEW u, Pursues(u, t) PROVE Right(u)
  BY <1>2, <1>3 DEF Pursues, Alike
<1>4. ASSUME NEW q \in Queue, NEW c, NEW i PROVE Right(NewTask(Reader[q], q, c, i))
  BY NetAssumption DEF NewTask
<1> HIDE DEF Right
<1>5. ASSUME TasksGoOn PROVE \A u \in tasks' : Right(u)
  BY <1>3, <1>5 DEF TasksGoOn
<1>6. ASSUME NEW q \in Queue, Takes(q) PROVE \A u \in tasks' : Right(u)
  <2>1. \A u \in TasksFor(q) : Right(u)
    BY <1>4 DEF TasksFor
  <2>2. QED
    <3>1. Right(NewTask(Reader[q], q, Head(queue[q].items), TRUE))
      BY <1>4
    <3>2. \/ tasks' = tasks \cup TasksFor(q)
          \/ tasks' = tasks \cup {NewTask(Reader[q], q, Head(queue[q].items), TRUE)}
      BY <1>6 DEF Takes
    <3>3. QED
      BY <1>2, <2>1, <3>1, <3>2
<1>7. ASSUME NEW t \in tasks, NEW n, NEW q, Sends(t, n, q) PROVE \A u \in tasks' : Right(u)
  BY <1>2, <1>3, <1>7 DEF Sends
<1>8. \A u \in tasks' : Right(u)
  BY StepKinds, <1>5, <1>6, <1>7 DEF StepKind, Idles, PutsBack, Admits
<1>9. QED
  BY <1>1, <1>8 DEF Steady, Right

(* The sleeping putters after a send,                                      *)
LEMMA SendsPutters ==
  ASSUME Base, NEW t \in tasks, NEW n \in Copy, NEW q \in Queue, Sends(t, n, q),
         NEW o \in Queue, NEW p \in Entries(queue'[o].putters)
  PROVE  \/ p \in Entries(queue[o].putters)
         \/ o = q /\ p = [item |-> n, by |-> t.event] /\ ~HasRoom(queue[q])
<1> DEFINE R == [item : Copy, by : Copy]
           r == [item |-> n, by |-> t.event]
<1>1. /\ queue[q] \in QueueType(Copy, Copy) /\ queue[q].putters \in Seq(R)
      /\ t.event \in Copy /\ r \in R
  BY DEF Base, IInv, TypeOK, Task, QueueType
<1>2. CASE o # q
  BY <1>2 DEF Sends, Others
<1>3. CASE o = q /\ HasRoom(queue[q])
  <2>1. queue'[q] = Put(queue[q], n, t.event)
    BY DEF Sends
  <2>2. queue'[q].putters = queue[q].putters
    BY <1>1, <1>3, <2>1, PutLays
  <2>3. QED
    BY <1>3, <2>2
<1>4. CASE o = q /\ ~HasRoom(queue[q])
  <2>1. queue'[q].putters = Append(queue[q].putters, r)
    BY <1>1, <1>4, PutSleeps DEF Sends
  <2> HIDE DEF R, r
  <2>2. Entries(Append(queue[q].putters, r)) = Entries(queue[q].putters) \cup {r}
    BY <1>1, AppendEntries
  <2>3. QED
    BY <1>4, <2>1, <2>2 DEF r
<1>5. QED
  BY <1>2, <1>3, <1>4

(* after a rescued event went back,                                        *)
LEMMA PutsBackPutters ==
  ASSUME Base, NEW t \in tasks, NEW q \in Queue, PutsBack(t, q),
         NEW o \in Queue, NEW p \in Entries(queue'[o].putters)
  PROVE  \/ p \in Entries(queue[o].putters)
         \/ o = q /\ p.item = p.by /\ p.item = t.event
<1> DEFINE R == [item : Copy, by : Copy]
           r == [item |-> t.event, by |-> t.event]
<1>1. /\ queue[q] \in QueueType(Copy, Copy) /\ queue[q].putters \in Seq(R)
      /\ t.event \in Copy /\ r \in R
  BY DEF Base, IInv, TypeOK, Task, QueueType
<1>2. CASE o # q
  BY <1>2 DEF PutsBack, Others
<1>3. CASE o = q /\ HasRoom(queue[q])
  <2>1. queue'[q] = Put(queue[q], t.event, t.event)
    BY DEF PutsBack
  <2>2. queue'[q].putters = queue[q].putters
    BY <1>1, <1>3, <2>1, PutLays
  <2>3. QED
    BY <1>3, <2>2
<1>4. CASE o = q /\ ~HasRoom(queue[q])
  <2>1. queue'[q].putters = Append(queue[q].putters, r)
    BY <1>1, <1>4, PutSleeps DEF PutsBack
  <2> HIDE DEF R, r
  <2>2. Entries(Append(queue[q].putters, r)) = Entries(queue[q].putters) \cup {r}
    BY <1>1, AppendEntries
  <2>3. QED
    BY <1>4, <2>1, <2>2 DEF r
<1>5. QED
  BY <1>2, <1>3, <1>4

(* and after the hub admitted the oldest of a queue.                       *)
LEMMA AdmitsPutters ==
  ASSUME Base, NEW q \in Queue, NEW t \in tasks, Admits(q, t),
         NEW o \in Queue, NEW p \in Entries(queue'[o].putters)
  PROVE  p \in Entries(queue[o].putters)
<1>1. /\ queue[q] \in QueueType(Copy, Copy) /\ queue[q].putters # <<>>
      /\ queue[q].putters \in Seq([item : Copy, by : Copy])
      /\ queue'[q] = Admit(queue[q]) /\ CanAdmit(queue[q])
  BY DEF Base, IInv, TypeOK, QueueType, Admits, CanAdmit
<1>2. CASE o = q
  <2>1. queue'[q].putters = Tail(queue[q].putters)
    BY <1>1, AdmitLays
  <2>2. Entries(queue[q].putters) = Entries(Tail(queue[q].putters)) \cup {Head(queue[q].putters)}
    BY <1>1, TailEntries
  <2>3. QED
    BY <1>2, <2>1, <2>2
<1>3. CASE o # q
  BY <1>3 DEF Admits, Others
<1>4. QED
  BY <1>2, <1>3

(* What sleeping putters bring stays right.                                *)
LEMMA StepBrought == Base /\ Steady /\ PuttersBring /\ Next => PuttersBring'
<1> SUFFICES ASSUME Base, Steady, PuttersBring, Next,
                    NEW o \in Queue, NEW p \in Entries(queue'[o].putters)
             PROVE  \/ p.item = p.by /\ Reader[o] \in Rescue
                    \/ \E l \in Leg : MadeBy(p.item, p.by, l)
  BY DEF PuttersBring
<1>1. CASE p \in Entries(queue[o].putters)
  BY <1>1 DEF PuttersBring
<1>2. CASE Idles
  BY <1>1, <1>2 DEF Idles
<1>3. ASSUME NEW q \in Queue, Takes(q) PROVE p \in Entries(queue[o].putters)
  BY <1>3 DEF Takes, Others
<1>4. ASSUME NEW t \in tasks, NEW n \in Copy, NEW q \in Queue, Sends(t, n, q),
             p \notin Entries(queue[o].putters)
      PROVE  \E l \in Leg : MadeBy(p.item, p.by, l)
  <2>1. p = [item |-> n, by |-> t.event]
    BY <1>4, SendsPutters
  <2>2. p.item = n /\ p.by = t.event
    BY <2>1
  <2>3. QED
    BY <1>4, <2>2 DEF Sends
<1>5. ASSUME NEW t \in tasks, NEW q \in Queue, PutsBack(t, q),
             p \notin Entries(queue[o].putters)
      PROVE  p.item = p.by /\ Reader[o] \in Rescue
  BY <1>5, PutsBackPutters DEF PutsBack
<1>6. ASSUME NEW q \in Queue, NEW t \in tasks, Admits(q, t)
      PROVE  p \in Entries(queue[o].putters)
  BY <1>6, AdmitsPutters
<1>7. QED
  BY StepKinds, <1>1, <1>2, <1>3, <1>4, <1>5, <1>6 DEF StepKind
-----------------------------------------------------------------------------
(* The record of a queue through a step that accepts nothing there,        *)
LEMMA RecordStays ==
  ASSUME Recorded, NEW q \in Queue,
         accepted'[q] = accepted[q], Ends(accepted[q], queue'[q].items),
         \A c \in copies : \E d \in copies' : Alike(d, c),
         Reader[q] \notin Rescue =>
           \A c \in Awaited(queue'[q]) :
             c \in Awaited(queue[q]) \/ \A i \in DOMAIN accepted[q] : ~Alike(accepted[q][i], c)
  PROVE  RecordRight(q)' /\ (Reader[q] \notin Rescue => AcceptedOnce(q)')
<1>1. RecordRight(q) /\ (Reader[q] \notin Rescue => AcceptedOnce(q))
  BY DEF Recorded
<1>2. RecordRight(q)'
  <2>1. \A i \in DOMAIN accepted[q] :
          LET c == accepted[q][i]
          IN  c.via # <<>> /\ Leads[LastPort(c)] = q /\ \E d \in copies' : Alike(d, c)
    BY <1>1 DEF RecordRight, Alike
  <2>2. accepted[q] \in Seq(Copy)
    BY <1>1 DEF RecordRight
  <2>3. QED
    BY <2>1, <2>2 DEF RecordRight
<1>3. ASSUME Reader[q] \notin Rescue PROVE AcceptedOnce(q)'
  BY <1>1, <1>3 DEF AcceptedOnce
<1>4. QED
  BY <1>2, <1>3

(* and through one that accepts event x.                                   *)
LEMMA RecordGrows ==
  ASSUME Recorded, NEW q \in Queue, queue[q].items \in Seq(Copy),
         NEW x \in Copy, x.via # <<>>, Leads[LastPort(x)] = q,
         \E d \in copies' : Alike(d, x),
         \A c \in copies : \E d \in copies' : Alike(d, c),
         accepted'[q] = Append(accepted[q], x),
         queue'[q].items = Append(queue[q].items, x),
         Reader[q] \notin Rescue =>
           /\ \A i \in DOMAIN accepted[q] : ~Alike(accepted[q][i], x)
           /\ \A c \in Awaited(queue'[q]) : c \in Awaited(queue[q]) /\ ~Alike(x, c)
  PROVE  RecordRight(q)' /\ (Reader[q] \notin Rescue => AcceptedOnce(q)')
<1> DEFINE h == accepted[q]
           g == Append(h, x)
<1>1. RecordRight(q) /\ (Reader[q] \notin Rescue => AcceptedOnce(q)) /\ h \in Seq(Copy)
  BY DEF Recorded, RecordRight
<1>2. /\ DOMAIN g = DOMAIN h \cup {Len(h) + 1} /\ g[Len(h) + 1] = x
      /\ \A i \in DOMAIN h : g[i] = h[i]
      /\ g \in Seq(Copy)
  BY <1>1
<1>3. Ends(g, Append(queue[q].items, x))
  BY <1>1, EndsAppend DEF RecordRight
<1>4. \A i \in DOMAIN h :
        LET c == h[i]
        IN  c.via # <<>> /\ Leads[LastPort(c)] = q /\ \E d \in copies' : Alike(d, c)
  BY <1>1 DEF RecordRight, Alike
<1> HIDE DEF g, h
<1>5. accepted'[q] = g
  BY DEF g, h
<1>6. RecordRight(q)'
  BY <1>2, <1>3, <1>4, <1>5 DEF RecordRight
<1>7. ASSUME Reader[q] \notin Rescue PROVE AcceptedOnce(q)'
  <2>1. /\ \A i, j \in DOMAIN h : Alike(h[i], h[j]) => i = j
        /\ \A i \in DOMAIN h, c \in Awaited(queue[q]) : ~Alike(h[i], c)
    BY <1>1, <1>7 DEF AcceptedOnce, h
  <2>2. \A i \in DOMAIN h : ~Alike(h[i], x) /\ ~Alike(x, h[i])
    BY <1>7 DEF Alike, h
  <2>3. \A i, j \in DOMAIN g : Alike(g[i], g[j]) => i = j
    BY <1>2, <2>1, <2>2
  <2>4. \A i \in DOMAIN g, c \in Awaited(queue'[q]) : ~Alike(g[i], c)
    BY <1>2, <1>7, <2>1
  <2>5. QED
    BY <1>5, <2>3, <2>4 DEF AcceptedOnce
<1>8. QED
  BY <1>6, <1>7

(* Events a queue awaits are copies sent there, told apart by their ways.  *)
LEMMA AwaitedAreCopies ==
  ASSUME Base, NEW q \in Queue, NEW c \in Awaited(queue[q])
  PROVE  /\ c \in copies /\ c \in Copy /\ c.via # <<>> /\ Leads[LastPort(c)] = q
         /\ \A d \in copies : Alike(d, c) \/ Alike(c, d) => d = c
<1>1. c \in copies /\ c.via # <<>> /\ Leads[LastPort(c)] = q
  BY DEF Base, Accounts, QueuedRight
<1>2. QED
  BY <1>1 DEF Base, IInv, TypeOK, Accounts, CopiesSound, OneOfEach, Alike

Noting == accepted' = [q \in Queue |-> Noted(accepted[q], queue[q], queue'[q])]

(* A queue that a step leaves alone has accepted nothing in it.            *)
LEMMA NotingNothing ==
  ASSUME Base, Noting, NEW q \in Queue, queue'[q].items = queue[q].items
  PROVE  accepted'[q] = accepted[q]
<1>1. queue[q].items \in Seq(Copy)
  BY DEF Base, IInv, TypeOK, QueueType
<1>2. QED
  BY <1>1 DEF Noting, Noted

(* a put with room adds its item to the record,                            *)
LEMMA NotingPut ==
  ASSUME Base, Noting, NEW q \in Queue, NEW x \in Copy, NEW g \in Copy,
         queue'[q] = Put(queue[q], x, g), HasRoom(queue[q])
  PROVE  /\ accepted'[q] = Append(accepted[q], x)
         /\ queue'[q].items = Append(queue[q].items, x)
         /\ queue'[q].putters = queue[q].putters
<1> DEFINE s == queue[q].items
           n == Len(s) + 1
<1>1. queue[q] \in QueueType(Copy, Copy) /\ s \in Seq(Copy)
  BY DEF Base, IInv, TypeOK, QueueType
<1>2. queue'[q].items = Append(s, x) /\ queue'[q].putters = queue[q].putters
  BY <1>1, PutLays
<1>3. Len(Append(s, x)) = n /\ n > Len(s) /\ Append(s, x)[n] = x
  BY <1>1
<1>4. accepted'[q] = Noted(accepted[q], queue[q], queue'[q])
  BY DEF Noting
<1> HIDE DEF n
<1>5. Noted(accepted[q], queue[q], queue'[q]) = Append(accepted[q], x)
  BY <1>2, <1>3 DEF Noted
<1>6. QED
  BY <1>2, <1>4, <1>5

(* and an admission what the oldest putter brought.                        *)
LEMMA NotingAdmit ==
  ASSUME Base, Noting, NEW q \in Queue, CanAdmit(queue[q]), queue'[q] = Admit(queue[q]),
         NEW x, x = Head(queue[q].putters).item
  PROVE  /\ accepted'[q] = Append(accepted[q], x)
         /\ queue'[q].items = Append(queue[q].items, x)
         /\ queue'[q].putters = Tail(queue[q].putters)
<1> DEFINE s == queue[q].items
           n == Len(s) + 1
<1>1. queue[q] \in QueueType(Copy, Copy) /\ s \in Seq(Copy)
  BY DEF Base, IInv, TypeOK, QueueType
<1>2. /\ queue'[q].items = Append(s, x) /\ queue'[q].putters = Tail(queue[q].putters)
      /\ x \in Copy
  BY <1>1, AdmitLays
<1>3. Len(Append(s, x)) = n /\ n > Len(s) /\ Append(s, x)[n] = x
  BY <1>1, <1>2
<1>4. accepted'[q] = Noted(accepted[q], queue[q], queue'[q])
  BY DEF Noting
<1> HIDE DEF n
<1>5. Noted(accepted[q], queue[q], queue'[q]) = Append(accepted[q], x)
  BY <1>2, <1>3 DEF Noted
<1>6. QED
  BY <1>2, <1>4, <1>5

(* The records stay right.                                                 *)
LEMMA StepRecorded ==
  ASSUME Base, Steady, Recorded, Next, Noting
  PROVE  Recorded'
<1> SUFFICES ASSUME NEW q \in Queue
             PROVE  RecordRight(q)' /\ (Reader[q] \notin Rescue => AcceptedOnce(q)')
  BY DEF Recorded
<1> DEFINE Goal == RecordRight(q)' /\ (Reader[q] \notin Rescue => AcceptedOnce(q)')
           Kept == \A c \in copies : \E d \in copies' : Alike(d, c)
<1>1. /\ accepted[q] \in Seq(Copy) /\ Ends(accepted[q], queue[q].items)
      /\ queue[q] \in QueueType(Copy, Copy) /\ queue[q].items \in Seq(Copy)
      /\ \A i \in DOMAIN accepted[q] : \E d \in copies : Alike(d, accepted[q][i])
      /\ accepted'[q] = Noted(accepted[q], queue[q], queue'[q])
  BY DEF Recorded, RecordRight, Base, IInv, TypeOK, QueueType, Noting
<1>2. copies \subseteq copies' => Kept
  BY DEF Alike
<1>3. ASSUME queue'[q].items = queue[q].items, queue'[q].putters = queue[q].putters, Kept
      PROVE  Goal
  <2>1. accepted'[q] = accepted[q] /\ Awaited(queue'[q]) = Awaited(queue[q])
    BY <1>3, NotingNothing, AwaitedOf
  <2>2. QED
    BY <1>1, <1>3, <2>1, RecordStays
<1>4. CASE Idles
  BY <1>3, <1>4 DEF Idles
<1>5. ASSUME NEW r \in Queue, Takes(r) PROVE Goal
  <2>1. CASE r # q
    BY <1>2, <1>3, <1>5, <2>1 DEF Takes, Others
  <2>2. CASE r = q
    <3>1. /\ Ends(accepted[q], queue'[q].items) /\ queue'[q].items \in Seq(Copy)
          /\ Len(queue'[q].items) <= Len(queue[q].items)
      <4>1. CASE queue'[q].items = <<>>
        BY <1>1, <4>1, EndsNothing
      <4>2. CASE queue[q].items # <<>> /\ queue'[q].items = Tail(queue[q].items)
        <5>1. /\ Ends(accepted[q], Tail(queue[q].items))
              /\ Len(Tail(queue[q].items)) = Len(queue[q].items) - 1
          BY <1>1, <4>2, EndsTail
        <5>2. QED
          BY <1>1, <4>2, <5>1
      <4>3. QED
        BY <1>5, <2>2, <4>1, <4>2 DEF Takes
    <3>2. accepted'[q] = accepted[q]
      BY <1>1, <3>1, NothingNoted
    <3>3. Awaited(queue'[q]) = Awaited(queue[q]) /\ Kept
      BY <1>2, <1>5, <2>2, AwaitedOf DEF Takes
    <3>4. QED
      BY <3>1, <3>2, <3>3, RecordStays
  <2>3. QED
    BY <2>1, <2>2
<1>6. ASSUME NEW t \in tasks, NEW n \in Copy, NEW r \in Queue, Sends(t, n, r) PROVE Goal
  <2>1. Kept
    BY <1>2, <1>6 DEF Sends
  <2>2. CASE r # q
    BY <1>3, <1>6, <2>1, <2>2 DEF Sends, Others
  <2>3. CASE r = q
    <3>1. /\ n.via # <<>> /\ Leads[LastPort(n)] = q /\ n \in copies'
          /\ \A d \in copies : ~Alike(d, n)
          /\ queue'[q] = Put(queue[q], n, t.event) /\ t.event \in Copy
      BY <1>6, <2>3 DEF Sends, Base, IInv, TypeOK, Task
    <3>2. \A i \in DOMAIN accepted[q] : ~Alike(accepted[q][i], n)
      BY <1>1, <3>1 DEF Alike
    <3>3. \A c \in Awaited(queue[q]) : ~Alike(n, c)
      BY <3>1, AwaitedAreCopies DEF Alike
    <3>4. CASE HasRoom(queue[q])
      <4>1. queue'[q].items = Append(queue[q].items, n)
        BY <3>1, <3>4, NotingPut
      <4>2. queue'[q].putters = queue[q].putters
        BY <3>1, <3>4, NotingPut
      <4>3. accepted'[q] = Append(accepted[q], n)
        BY <3>1, <3>4, NotingPut
      <4>4. Awaited(queue'[q]) = Awaited(queue[q])
        BY <4>2, AwaitedOf
      <4>5. \E d \in copies' : Alike(d, n)
        BY <3>1 DEF Alike
      <4>6. QED
        BY <1>1, <2>1, <3>1, <3>2, <3>3, <4>1, <4>3, <4>4, <4>5, RecordGrows
    <3>5. CASE ~HasRoom(queue[q])
      <4>1. queue'[q].items = queue[q].items
        BY <1>1, <3>1, <3>5, PutLays
      <4>2. accepted'[q] = accepted[q]
        BY <4>1, NotingNothing
      <4>3. \A c \in Awaited(queue'[q]) : c \in Awaited(queue[q]) \/ c = n
        <5> SUFFICES ASSUME NEW c \in Awaited(queue'[q])
                     PROVE  c \in Awaited(queue[q]) \/ c = n
          OBVIOUS
        <5>1. PICK p \in Entries(queue'[q].putters) : c = p.item
          BY AwaitedOf
        <5>2. CASE p \in Entries(queue[q].putters)
          BY <5>1, <5>2, AwaitedOf
        <5>3. CASE p = [item |-> n, by |-> t.event]
          BY <5>1, <5>3
        <5>4. QED
          BY <1>6, <2>3, <5>2, <5>3, SendsPutters
      <4>4. QED
        BY <1>1, <2>1, <3>2, <4>1, <4>2, <4>3, RecordStays
    <3>6. QED
      BY <3>4, <3>5
  <2>4. QED
    BY <2>2, <2>3
<1>7. ASSUME NEW t \in tasks, NEW r \in Queue, PutsBack(t, r) PROVE Goal
  <2>1. Kept
    BY <1>2, <1>7 DEF PutsBack
  <2>2. CASE r # q
    BY <1>3, <1>7, <2>1, <2>2 DEF PutsBack, Others
  <2>3. CASE r = q
    <3>1. /\ queue'[q] = Put(queue[q], t.event, t.event) /\ t.event \in Copy
          /\ Reader[q] \in Rescue /\ t.event.via # <<>> /\ Leads[LastPort(t.event)] = q
          /\ \E d \in copies' : Alike(d, t.event)
      BY <1>7, <2>3 DEF PutsBack, Base, IInv, TypeOK, Task, Alike
    <3>2. CASE HasRoom(queue[q])
      <4>1. queue'[q].items = Append(queue[q].items, t.event)
        BY <3>1, <3>2, NotingPut
      <4>2. accepted'[q] = Append(accepted[q], t.event)
        BY <3>1, <3>2, NotingPut
      <4>3. QED
        BY <1>1, <2>1, <3>1, <4>1, <4>2, RecordGrows
    <3>3. CASE ~HasRoom(queue[q])
      <4>1. queue'[q].items = queue[q].items
        BY <1>1, <3>1, <3>3, PutLays
      <4>2. accepted'[q] = accepted[q]
        BY <4>1, NotingNothing
      <4>3. QED
        BY <1>1, <2>1, <3>1, <4>1, <4>2, RecordStays
    <3>4. QED
      BY <3>2, <3>3
  <2>4. QED
    BY <2>2, <2>3
<1>8. ASSUME NEW r \in Queue, NEW t \in tasks, Admits(r, t) PROVE Goal
  <2>1. Kept
    BY <1>2, <1>8 DEF Admits
  <2>2. CASE r # q
    BY <1>3, <1>8, <2>1, <2>2 DEF Admits, Others
  <2>3. CASE r = q
    <3> DEFINE x == Head(queue[q].putters).item
    <3>1. CanAdmit(queue[q]) /\ queue'[q] = Admit(queue[q]) /\ copies' = copies
      BY <1>8, <2>3 DEF Admits
    <3>2. Tidy(queue[q])
      BY DEF Base, Accounts, QueuedRight
    <3>3. x \in Awaited(queue[q]) /\ Awaited(queue'[q]) = Awaited(queue[q]) \ {x}
      BY <1>1, <3>1, <3>2, AdmitPlaces
    <3>4. queue'[q].items = Append(queue[q].items, x)
      BY <3>1, NotingAdmit
    <3>5. accepted'[q] = Append(accepted[q], x)
      BY <3>1, NotingAdmit
    <3> HIDE DEF x
    <3>6. /\ x \in copies /\ x \in Copy /\ x.via # <<>> /\ Leads[LastPort(x)] = q
          /\ \E d \in copies' : Alike(d, x)
      BY <3>1, <3>3, AwaitedAreCopies DEF Alike
    <3>7. \A c \in Awaited(queue'[q]) : c \in Awaited(queue[q]) /\ ~Alike(x, c)
      BY <3>3, <3>6, AwaitedAreCopies
    <3>8. ASSUME Reader[q] \notin Rescue
          PROVE  \A i \in DOMAIN accepted[q] : ~Alike(accepted[q][i], x)
      BY <3>3, <3>8 DEF Recorded, AcceptedOnce
    <3>9. QED
      BY <1>1, <2>1, <3>4, <3>5, <3>6, <3>7, <3>8, RecordGrows
  <2>4. QED
    BY <2>2, <2>3
<1>9. QED
  BY StepKinds, <1>4, <1>5, <1>6, <1>7, <1>8 DEF StepKind

(* A consumer that takes accepts nothing.                                  *)
LEMMA TakesNothing ==
  ASSUME Base, Recorded, Noting, NEW r \in Queue, Takes(r), NEW q \in Queue
  PROVE  accepted'[q] = accepted[q]
<1>1. CASE r # q
  BY <1>1, NotingNothing DEF Takes, Others
<1>2. CASE r = q
  <2>1. queue[q].items \in Seq(Copy)
    BY DEF Base, IInv, TypeOK, QueueType
  <2>2. queue'[q].items \in Seq(Copy) /\ Len(queue'[q].items) <= Len(queue[q].items)
    <3>1. CASE queue'[q].items = <<>>
      BY <2>1, <3>1
    <3>2. CASE queue[q].items # <<>> /\ queue'[q].items = Tail(queue[q].items)
      BY <2>1, <3>2
    <3>3. QED
      BY <1>2, <3>1, <3>2 DEF Takes
  <2>3. QED
    BY <2>1, <2>2, NothingNoted DEF Noting
<1>3. QED
  BY <1>1, <1>2

(* A put that adds nothing to the record adds nothing to the queue.        *)
LEMMA PutUnlessAccepted ==
  ASSUME Base, Recorded, Noting, NEW q \in Queue, NEW x \in Copy, NEW g \in Copy,
         queue'[q] = Put(queue[q], x, g), accepted'[q] = accepted[q]
  PROVE  queue'[q].items = queue[q].items
<1>1. CASE HasRoom(queue[q])
  <2>1. accepted[q] \in Seq(Copy) /\ accepted[q] = Append(accepted[q], x)
    BY <1>1, NotingPut DEF Recorded, RecordRight
  <2>2. Len(Append(accepted[q], x)) = Len(accepted[q]) + 1 /\ Len(accepted[q]) \in Nat
    BY <2>1
  <2>3. QED
    BY <2>1, <2>2
<1>2. CASE ~HasRoom(queue[q])
  <2>1. queue[q] \in QueueType(Copy, Copy)
    BY DEF Base, IInv, TypeOK
  <2>2. QED
    BY <1>2, <2>1, PutLays
<1>3. QED
  BY <1>1, <1>2

(* What a step does to the record of q: it stays, or grows with the queue. *)
LEMMA RecordStep ==
  ASSUME Base, Steady, Recorded, Next, Noting, NEW q \in Queue
  PROVE  \/ accepted'[q] = accepted[q]
         \/ \E x \in Copy : /\ accepted'[q] = Append(accepted[q], x)
                           /\ queue'[q].items = Append(queue[q].items, x)
<1> DEFINE Goal == \/ accepted'[q] = accepted[q]
                   \/ \E x \in Copy : /\ accepted'[q] = Append(accepted[q], x)
                                     /\ queue'[q].items = Append(queue[q].items, x)
<1>1. ASSUME NEW x \in Copy, NEW g \in Copy, queue'[q] = Put(queue[q], x, g) PROVE Goal
  <2>1. CASE HasRoom(queue[q])
    BY <1>1, <2>1, NotingPut
  <2>2. CASE ~HasRoom(queue[q])
    <3>1. queue[q] \in QueueType(Copy, Copy)
      BY DEF Base, IInv, TypeOK
    <3>2. queue'[q].items = queue[q].items
      BY <1>1, <2>2, <3>1, PutLays
    <3>3. QED
      BY <3>2, NotingNothing
  <2>3. QED
    BY <2>1, <2>2
<1>2. ASSUME queue'[q].items = queue[q].items PROVE Goal
  BY <1>2, NotingNothing
<1>3. ASSUME NEW r \in Queue, Takes(r) PROVE Goal
  BY <1>3, TakesNothing
<1>4. ASSUME NEW t \in tasks, NEW n \in Copy, NEW r \in Queue, Sends(t, n, r) PROVE Goal
  <2>1. t.event \in Copy
    BY DEF Base, IInv, TypeOK, Task
  <2>2. QED
    BY <1>1, <1>2, <1>4, <2>1 DEF Sends, Others
<1>5. ASSUME NEW t \in tasks, NEW r \in Queue, PutsBack(t, r) PROVE Goal
  <2>1. t.event \in Copy
    BY DEF Base, IInv, TypeOK, Task
  <2>2. QED
    BY <1>1, <1>2, <1>5, <2>1 DEF PutsBack, Others
<1>6. ASSUME NEW r \in Queue, NEW t \in tasks, Admits(r, t) PROVE Goal
  <2>1. CASE r # q
    BY <1>2, <1>6, <2>1 DEF Admits, Others
  <2>2. CASE r = q
    <3>1. CanAdmit(queue[q]) /\ queue'[q] = Admit(queue[q])
      BY <1>6, <2>2 DEF Admits
    <3>2. queue[q] \in QueueType(Copy, Copy)
      BY DEF Base, IInv, TypeOK
    <3> DEFINE x == Head(queue[q].putters).item
    <3>3. x \in Copy
      BY <3>1, <3>2, AdmitLays
    <3>4. accepted'[q] = Append(accepted[q], x) /\ queue'[q].items = Append(queue[q].items, x)
      BY <3>1, NotingAdmit
    <3>5. QED
      BY <3>3, <3>4
  <2>3. QED
    BY <2>1, <2>2
<1>7. QED
  BY StepKinds, <1>2, <1>3, <1>4, <1>5, <1>6 DEF StepKind, Idles
-----------------------------------------------------------------------------
(* The counting behind Taken: it lies within the record.                   *)
LEMMA TakenWithin ==
  ASSUME Base, Recorded, NEW q \in Queue
  PROVE  /\ accepted[q] \in Seq(Copy) /\ queue[q].items \in Seq(Copy)
         /\ Len(accepted[q]) \in Nat /\ Len(queue[q].items) \in Nat
         /\ DOMAIN accepted[q] = 1..Len(accepted[q])
         /\ Taken(q) \in 0..Len(accepted[q])
<1>1. accepted[q] \in Seq(Copy) /\ queue[q].items \in Seq(Copy)
  BY DEF Recorded, RecordRight, Base, IInv, TypeOK, QueueType
<1>2. Len(queue[q].items) <= Len(accepted[q])
  BY DEF Recorded, RecordRight, Ends
<1>3. Len(accepted[q]) \in Nat /\ Len(queue[q].items) \in Nat
  BY <1>1
<1>4. Taken(q) \in 0..Len(accepted[q])
  <2> DEFINE m == Len(accepted[q])
             n == Len(queue[q].items)
  <2>1. Taken(q) = m - n
    BY DEF Taken
  <2>2. m \in Nat /\ n \in Nat /\ n <= m
    BY <1>2, <1>3
  <2> HIDE DEF m, n
  <2>3. Taken(q) \in 0..m
    BY <2>1, <2>2
  <2>4. QED
    BY <2>3 DEF m
<1>5. DOMAIN accepted[q] = 1..Len(accepted[q])
  BY <1>1
<1>6. QED
  BY <1>1, <1>3, <1>4, <1>5

(* A step after which no more has been taken from q leaves what was taken  *)
(* last.                                                                   *)
LEMMA TakenStays ==
  ASSUME Base, Recorded, NEW q \in Queue,
         \/ accepted'[q] = accepted[q] /\ queue'[q].items = queue[q].items
         \/ \E x \in Copy : /\ accepted'[q] = Append(accepted[q], x)
                           /\ queue'[q].items = Append(queue[q].items, x)
  PROVE  /\ Taken(q)' = Taken(q)
         /\ \A i \in DOMAIN accepted[q] : i \in DOMAIN accepted'[q] /\ accepted'[q][i] = accepted[q][i]
<1>1. CASE accepted'[q] = accepted[q] /\ queue'[q].items = queue[q].items
  BY <1>1 DEF Taken
<1>2. ASSUME NEW x \in Copy, accepted'[q] = Append(accepted[q], x),
             queue'[q].items = Append(queue[q].items, x)
      PROVE  /\ Taken(q)' = Taken(q)
             /\ \A i \in DOMAIN accepted[q] :
                  i \in DOMAIN accepted'[q] /\ accepted'[q][i] = accepted[q][i]
  <2> DEFINE h == accepted[q]
             s == queue[q].items
  <2>1. h \in Seq(Copy) /\ s \in Seq(Copy) /\ Len(h) \in Nat /\ Len(s) \in Nat
    BY TakenWithin
  <2> HIDE DEF h, s
  <2>2. /\ Len(Append(h, x)) = Len(h) + 1 /\ Len(Append(s, x)) = Len(s) + 1
        /\ \A i \in DOMAIN h : i \in DOMAIN Append(h, x) /\ Append(h, x)[i] = h[i]
    BY <2>1
  <2>3. QED
    BY <1>2, <2>1, <2>2 DEF Taken, h, s
<1>3. QED
  BY <1>1, <1>2

(* The task of an orderly queue goes on with the event taken last, and the *)
(* next one starts when that task is over.                                 *)
LEMMA StepAtWork ==
  ASSUME Base, Steady, Recorded, Next, Noting, NEW q \in Queue, Orderly(q), AtWork(q)
  PROVE  AtWork(q)'
<1>1. Serial(q)
  BY NetAssumption DEF Orderly, Base, SerialConsumers, Steady
<1>2. /\ accepted[q] \in Seq(Copy) /\ queue[q].items \in Seq(Copy)
      /\ Len(accepted[q]) \in Nat /\ Len(queue[q].items) \in Nat
      /\ DOMAIN accepted[q] = 1..Len(accepted[q]) /\ Taken(q) \in 0..Len(accepted[q])
  BY TakenWithin
<1>3. ASSUME \/ accepted'[q] = accepted[q] /\ queue'[q].items = queue[q].items
             \/ \E x \in Copy : /\ accepted'[q] = Append(accepted[q], x)
                               /\ queue'[q].items = Append(queue[q].items, x),
             \A u \in tasks' : u.origin = q => \E t \in tasks : Pursues(u, t)
      PROVE  AtWork(q)'
  <2>1. /\ Taken(q)' = Taken(q)
        /\ \A i \in DOMAIN accepted[q] : accepted'[q][i] = accepted[q][i]
    BY <1>3, TakenStays
  <2>2. ASSUME NEW u \in tasks', u.origin = q
        PROVE  Taken(q) > 0 /\ Alike(u.event, accepted[q][Taken(q)])
    BY <1>3, <2>2 DEF AtWork, Pursues, Alike
  <2>3. ASSUME NEW u \in tasks', u.origin = q
        PROVE  Taken(q)' > 0 /\ Alike(u.event, accepted'[q][Taken(q)'])
    <3>1. Taken(q) \in DOMAIN accepted[q]
      BY <1>2, <2>2, <2>3
    <3>2. QED
      BY <2>1, <2>2, <2>3, <3>1
  <2>4. QED
    BY <2>3 DEF AtWork, Alike
<1>4. ASSUME TasksGoOn, accepted'[q] = accepted[q] => queue'[q].items = queue[q].items
      PROVE  AtWork(q)'
  BY <1>3, <1>4, RecordStep DEF TasksGoOn
<1>5. CASE Idles
  BY <1>4, <1>5 DEF Idles
<1>6. ASSUME NEW r \in Queue, Takes(r) PROVE AtWork(q)'
  <2>1. accepted'[q] = accepted[q]
    BY <1>6, TakesNothing
  <2>2. CASE r # q
    <3>1. queue'[q].items = queue[q].items
      BY <1>6, <2>2 DEF Takes, Others
    <3>2. \A u \in tasks' : u.origin = q => u \in tasks
      BY <1>6, <2>2 DEF Takes, TasksFor, NewTask
    <3>3. QED
      BY <1>3, <2>1, <3>1, <3>2 DEF Pursues, Alike
  <2>3. CASE r = q
    <3> DEFINE c == Head(queue[q].items)
               w == NewTask(Reader[q], q, c, TRUE)
    <3>1. /\ consumer[q] = "wait" /\ queue[q].items # <<>>
          /\ queue'[q].items = Tail(queue[q].items)
          /\ tasks' = tasks \cup {w}
      BY <1>1, <1>6, <2>3 DEF Takes, Orderly, Serial
    <3>2. w.event = c
      BY DEF NewTask
    <3>3. \A t \in tasks : t.origin # q
      BY <1>1, <3>1 DEF Serial
    <3>4. Ends(accepted[q], queue[q].items)
      BY DEF Recorded, RecordRight
    <3>5. /\ Len(Tail(queue[q].items)) = Len(queue[q].items) - 1
          /\ Len(accepted[q]) - Len(queue[q].items) + 1 \in DOMAIN accepted[q]
          /\ c = accepted[q][Len(accepted[q]) - Len(queue[q].items) + 1]
      BY <1>2, <3>1, <3>4, EndsTail
    <3> HIDE DEF c, w
    <3> DEFINE m == Len(accepted[q])
               n == Len(queue[q].items)
               k == Len(Tail(queue[q].items))
    <3>6. /\ Taken(q)' = m - k /\ m \in Nat /\ n \in Nat /\ k = n - 1
          /\ m - n + 1 \in 1..m /\ c = accepted[q][m - n + 1]
      <4>1. Taken(q)' = m - k
        BY <2>1, <3>1 DEF Taken
      <4>2. QED
        BY <1>2, <3>5, <4>1
    <3> HIDE DEF m, n, k
    <3>7. \A u \in tasks' : u.origin = q => u = w
      BY <3>1, <3>3
    <3>8. Taken(q)' > 0 /\ accepted'[q][Taken(q)'] = c
      <4>1. m - k = m - n + 1 /\ m - n + 1 > 0
        BY <3>6
      <4>2. QED
        BY <2>1, <3>6, <4>1
    <3>9. QED
      BY <3>2, <3>7, <3>8 DEF AtWork, Alike
  <2>4. QED
    BY <2>2, <2>3
<1>7. ASSUME NEW t \in tasks, NEW n \in Copy, NEW r \in Queue, Sends(t, n, r)
      PROVE  AtWork(q)'
  <2>1. TasksGoOn
    BY <1>7 DEF Sends, TasksGoOn, Pursues, Alike
  <2>2. t.event \in Copy
    BY DEF Base, IInv, TypeOK, Task
  <2>3. QED
    BY <1>4, <1>7, <2>1, <2>2, PutUnlessAccepted DEF Sends, Others
<1>8. ASSUME NEW t \in tasks, NEW r \in Queue, PutsBack(t, r) PROVE AtWork(q)'
  <2>1. t.event \in Copy
    BY DEF Base, IInv, TypeOK, Task
  <2>2. QED
    BY <1>4, <1>8, <2>1, PutUnlessAccepted DEF PutsBack, Others
<1>9. ASSUME NEW r \in Queue, NEW t \in tasks, Admits(r, t) PROVE AtWork(q)'
  <2>1. CASE r # q
    BY <1>4, <1>9, <2>1 DEF Admits, Others
  <2>2. CASE r = q
    <3>1. CanAdmit(queue[q]) /\ queue'[q] = Admit(queue[q]) /\ TasksGoOn
      BY <1>9, <2>2 DEF Admits
    <3> DEFINE x == Head(queue[q].putters).item
    <3>2. x \in Copy
      <4>1. queue[q] \in QueueType(Copy, Copy)
        BY DEF Base, IInv, TypeOK
      <4>2. QED
        BY <3>1, <4>1, AdmitLays
    <3>3. accepted'[q] = Append(accepted[q], x) /\ queue'[q].items = Append(queue[q].items, x)
      BY <3>1, NotingAdmit
    <3>4. QED
      BY <1>3, <3>1, <3>2, <3>3 DEF TasksGoOn
  <2>3. QED
    BY <2>1, <2>2
<1>10. QED
  BY StepKinds, <1>5, <1>6, <1>7, <1>8, <1>9 DEF StepKind
-----------------------------------------------------------------------------
(* What was made of an event that a queue accepted was made after it was   *)
(* taken: what is still on the queue has not been sent on.                 *)
MadeOfTaken ==
  \A q \in Queue, o \in Queue :
    Reader[q] \notin Rescue =>
      \A i \in DOMAIN accepted[q], k \in DOMAIN accepted[o] :
        Child(accepted[o][k], accepted[q][i]) => i <= Taken(q)

(* It follows from the accounts and the records.                           *)
LEMMA RecordsOfTaken == Base /\ Recorded => MadeOfTaken
<1> SUFFICES ASSUME Base, Recorded, NEW q \in Queue, NEW o \in Queue, Reader[q] \notin Rescue,
                    NEW i \in DOMAIN accepted[q], NEW k \in DOMAIN accepted[o],
                    Child(accepted[o][k], accepted[q][i]), ~(i <= Taken(q))
             PROVE  FALSE
  BY DEF MadeOfTaken
<1> DEFINE c == accepted[q][i]
           m == Len(accepted[q])
           n == Len(queue[q].items)
           j == i - Taken(q)
<1>1. /\ m \in Nat /\ n \in Nat /\ i \in 1..m /\ Taken(q) \in 0..m /\ Taken(q) = m - n
      /\ DOMAIN queue[q].items = 1..n /\ accepted[q] \in Seq(Copy)
  <2>1. /\ m \in Nat /\ n \in Nat /\ i \in 1..m /\ Taken(q) \in 0..m
        /\ queue[q].items \in Seq(Copy) /\ accepted[q] \in Seq(Copy)
    BY TakenWithin
  <2>2. Taken(q) = m - n
    BY DEF Taken
  <2>3. DOMAIN queue[q].items = 1..n
    BY <2>1
  <2>4. QED
    BY <2>1, <2>2, <2>3
<1>2. c \in Held(queue[q])
  <2>1. j \in 1..n /\ m - n + j = i
    <3> HIDE DEF m, n
    <3>1. QED
      BY <1>1
  <2>2. queue[q].items[j] = accepted[q][m - n + j]
    <3> HIDE DEF j
    <3>1. QED
      BY <1>1, <2>1 DEF Recorded, RecordRight, Ends
  <2>3. QED
    BY <1>1, <2>1, <2>2 DEF Held, Entries
<1>3. c \in copies /\ \A d \in copies, l \in Leg : MadeBy(d, c, l) => l.tries < c.tries[At(c)]
  BY <1>2 DEF Base, Accounts, QueuedRight
<1>4. At(c) = Reader[q] /\ Reader[q] \in Actor
  BY NetAssumption DEF Recorded, RecordRight, At
<1>5. c.tries[At(c)] = 0
  BY <1>3, <1>4 DEF Base, Accounts, CopiesSound, CountedByRescuers
<1>6. PICK l \in Leg : accepted[o][k].id = c.id /\ accepted[o][k].via = Append(c.via, l)
  BY DEF Child
<1>7. PICK d \in copies : Alike(d, accepted[o][k])
  BY DEF Recorded, RecordRight
<1>8. MadeBy(d, c, l)
  BY <1>6, <1>7 DEF Alike, MadeBy
<1>9. l.tries \in 0..MaxRescue /\ MaxRescue \in Nat
  BY NetAssumption DEF Leg
<1>10. l.tries < 0
  BY <1>3, <1>5, <1>8
<1>11. QED
  BY <1>9, <1>10

(* So it does after a step.                                                *)
LEMMA RecordsOfTakenNext == Base' /\ Recorded' => MadeOfTaken'
  BY RecordsOfTaken, PTL

(* What a task makes of an event that an orderly queue accepted, it makes  *)
(* of the one taken last.                                                  *)
LEMMA WorkedIsTaken ==
  ASSUME Base, Steady, Recorded, OneByOne, NEW q \in Queue, Orderly(q),
         NEW t \in tasks, NEW x \in Copy, NEW l \in Leg, MadeBy(x, t.event, l),
         NEW i \in DOMAIN accepted[q], Child(x, accepted[q][i])
  PROVE  i = Taken(q)
<1> DEFINE c == accepted[q][i]
<1>1. /\ c.via # <<>> /\ Leads[LastPort(c)] = q /\ c \in Copy /\ t.event \in Copy
  BY DEF Recorded, RecordRight, Base, IInv, TypeOK, Task
<1>2. PICK m \in Leg : x.id = c.id /\ x.via = Append(c.via, m)
  BY DEF Child
<1>3. c.via \in Seq(Leg) /\ t.event.via \in Seq(Leg) /\ Append(c.via, m) = Append(t.event.via, l)
  BY <1>1, <1>2 DEF Copy, MadeBy
<1>4. t.event.via = c.via /\ t.event.id = c.id
  <2>1. t.event.via = c.via
    BY <1>3, SameAppend
  <2>2. QED
    BY <1>2, <2>1 DEF MadeBy
<1>5. t.origin = q
  <2>1. t.event.via # <<>> /\ Leads[LastPort(t.event)] = q
    BY <1>1, <1>4 DEF LastPort
  <2>2. t.origin # NoQueue /\ TaskShape(t)
    BY <2>1 DEF Steady, Base, Accounts, TasksSound
  <2>3. QED
    BY <2>1, <2>2 DEF TaskShape
<1>6. Taken(q) > 0 /\ Alike(t.event, accepted[q][Taken(q)])
  BY <1>5 DEF OneByOne, AtWork
<1>7. Taken(q) \in DOMAIN accepted[q]
  <2>1. Taken(q) \in 0..Len(accepted[q]) /\ Len(accepted[q]) \in Nat
        /\ DOMAIN accepted[q] = 1..Len(accepted[q])
    BY TakenWithin
  <2>2. QED
    BY <1>6, <2>1
<1>8. Alike(c, accepted[q][Taken(q)])
  BY <1>4, <1>6 DEF Alike
<1>9. QED
  BY <1>7, <1>8 DEF Recorded, AcceptedOnce, Orderly

(* So is what any queue accepts next, unless its reader rescues.           *)
LEMMA NewIsOfTaken ==
  ASSUME Base, Steady, Recorded, PuttersBring, OneByOne, Next, Noting,
         NEW q \in Queue, Orderly(q), NEW o \in Queue, Reader[o] \notin Rescue
  PROVE  \/ accepted'[o] = accepted[o]
         \/ \E x \in Copy :
              /\ accepted'[o] = Append(accepted[o], x)
              /\ \A i \in DOMAIN accepted[q] : Child(x, accepted[q][i]) => i = Taken(q)
<1> DEFINE Goal == \/ accepted'[o] = accepted[o]
                   \/ \E x \in Copy :
                        /\ accepted'[o] = Append(accepted[o], x)
                        /\ \A i \in DOMAIN accepted[q] : Child(x, accepted[q][i]) => i = Taken(q)
<1>1. ASSUME NEW t \in tasks, NEW x \in Copy, NEW l \in Leg, MadeBy(x, t.event, l)
      PROVE  \A i \in DOMAIN accepted[q] : Child(x, accepted[q][i]) => i = Taken(q)
  BY <1>1, WorkedIsTaken
<1>2. CASE Idles
  BY <1>2, NotingNothing DEF Idles
<1>3. ASSUME NEW r \in Queue, Takes(r) PROVE Goal
  BY <1>3, TakesNothing
<1>4. ASSUME NEW t \in tasks, NEW n \in Copy, NEW r \in Queue, Sends(t, n, r) PROVE Goal
  <2>1. CASE r # o
    BY <1>4, <2>1, NotingNothing DEF Sends, Others
  <2>2. CASE r = o
    <3>1. queue'[o] = Put(queue[o], n, t.event) /\ t.event \in Copy
          /\ \E l \in Leg : MadeBy(n, t.event, l)
      BY <1>4, <2>2 DEF Sends, Base, IInv, TypeOK, Task
    <3>2. CASE HasRoom(queue[o])
      BY <1>1, <3>1, <3>2, NotingPut
    <3>3. CASE ~HasRoom(queue[o])
      <4>1. queue[o] \in QueueType(Copy, Copy)
        BY DEF Base, IInv, TypeOK
      <4>2. queue'[o].items = queue[o].items
        BY <3>1, <3>3, <4>1, PutLays
      <4>3. QED
        BY <4>2, NotingNothing
    <3>4. QED
      BY <3>2, <3>3
  <2>3. QED
    BY <2>1, <2>2
<1>5. ASSUME NEW t \in tasks, NEW r \in Queue, PutsBack(t, r) PROVE Goal
  BY <1>5, NotingNothing DEF PutsBack, Others
<1>6. ASSUME NEW r \in Queue, NEW t \in tasks, Admits(r, t) PROVE Goal
  <2>1. CASE r # o
    BY <1>6, <2>1, NotingNothing DEF Admits, Others
  <2>2. CASE r = o
    <3> DEFINE p == Head(queue[o].putters)
    <3>1. /\ CanAdmit(queue[o]) /\ queue'[o] = Admit(queue[o]) /\ t.event = p.by
          /\ queue[o] \in QueueType(Copy, Copy) /\ queue[o].putters # <<>>
          /\ queue[o].putters \in Seq([item : Copy, by : Copy])
      BY <1>6, <2>2 DEF Admits, CanAdmit, Base, IInv, TypeOK, QueueType
    <3>2. p \in Entries(queue[o].putters)
      BY <3>1, TailEntries
    <3>3. PICK l \in Leg : MadeBy(p.item, p.by, l)
      BY <3>2 DEF PuttersBring
    <3>4. p.item \in Copy
      BY <3>1, AdmitLays
    <3>5. accepted'[o] = Append(accepted[o], p.item)
      BY <3>1, NotingAdmit
    <3>6. MadeBy(p.item, t.event, l)
      BY <3>1, <3>3
    <3> HIDE DEF p
    <3>7. \A i \in DOMAIN accepted[q] : Child(p.item, accepted[q][i]) => i = Taken(q)
      BY <1>1, <3>4, <3>6
    <3>8. QED
      BY <3>4, <3>5, <3>7
  <2>3. QED
    BY <2>1, <2>2
<1>7. QED
  BY StepKinds, <1>2, <1>3, <1>4, <1>5, <1>6 DEF StepKind

(* The order of work stays.                                                *)
LEMMA StepInOrder ==
  ASSUME Base, OrderInv, Next, Noting, MadeOfTaken'
  PROVE  WorkInOrder'
<1> SUFFICES ASSUME NEW q \in Queue, NEW o \in Queue, Orderly(q), Reader[o] \notin Rescue,
                    NEW i \in DOMAIN accepted'[q], NEW j \in DOMAIN accepted'[q],
                    NEW k \in DOMAIN accepted'[o], NEW l \in DOMAIN accepted'[o],
                    Child(accepted'[o][k], accepted'[q][i]),
                    Child(accepted'[o][l], accepted'[q][j]), i < j
             PROVE  k < l
  BY DEF WorkInOrder, Child, Orderly
<1> DEFINE h == accepted[q]
           g == accepted[o]
<1>1. /\ h \in Seq(Copy) /\ DOMAIN h = 1..Len(h) /\ Len(h) \in Nat /\ Taken(q) \in 0..Len(h)
      /\ g \in Seq(Copy) /\ DOMAIN g = 1..Len(g) /\ Len(g) \in Nat
  BY TakenWithin DEF OrderInv
<1>2. i <= Taken(q)' /\ j <= Taken(q)'
  BY DEF MadeOfTaken, Orderly, Child
(* i and j were there before.                                              *)
<1>3. /\ i \in DOMAIN h /\ accepted'[q][i] = h[i]
      /\ j \in DOMAIN h /\ accepted'[q][j] = h[j]
  <2>1. CASE accepted'[q] = h
    BY <2>1
  <2>2. ASSUME NEW x \in Copy, accepted'[q] = Append(h, x),
               queue'[q].items = Append(queue[q].items, x)
        PROVE  /\ i \in DOMAIN h /\ accepted'[q][i] = h[i]
               /\ j \in DOMAIN h /\ accepted'[q][j] = h[j]
    <3>1. /\ Taken(q)' = Taken(q)
          /\ \A m \in DOMAIN h : accepted'[q][m] = h[m]
      BY <2>2, TakenStays DEF OrderInv
    <3>2. DOMAIN accepted'[q] = 1..(Len(h) + 1)
      BY <1>1, <2>2
    <3>3. i \in 1..Len(h) /\ j \in 1..Len(h)
      BY <1>1, <1>2, <3>1, <3>2
    <3>4. QED
      BY <1>1, <3>1, <3>3
  <2>3. QED
    BY <2>1, <2>2, RecordStep DEF OrderInv
<1>4. /\ \A m \in DOMAIN h, n \in DOMAIN g : Child(g[n], h[m]) => m <= Taken(q)
      /\ \A m, n \in DOMAIN h, r, s \in DOMAIN g :
           Child(g[r], h[m]) /\ Child(g[s], h[n]) /\ m < n => r < s
  BY RecordsOfTaken DEF OrderInv, MadeOfTaken, WorkInOrder, Orderly
<1> HIDE DEF h, g
<1>5. CASE accepted'[o] = g
  BY <1>3, <1>4, <1>5
<1>6. ASSUME NEW x \in Copy, accepted'[o] = Append(g, x),
             \A m \in DOMAIN h : Child(x, h[m]) => m = Taken(q)
      PROVE  k < l
  <2>1. /\ DOMAIN accepted'[o] = 1..(Len(g) + 1) /\ accepted'[o][Len(g) + 1] = x
        /\ \A m \in 1..Len(g) : accepted'[o][m] = g[m]
    BY <1>1, <1>6
  <2>2. CASE k \in 1..Len(g) /\ l \in 1..Len(g)
    BY <1>1, <1>3, <1>4, <2>1, <2>2
  <2>3. CASE k \in 1..Len(g) /\ l = Len(g) + 1
    BY <1>1, <2>3
  <2>4. CASE k = Len(g) + 1
    <3>1. i = Taken(q)
      BY <1>3, <1>6, <2>1, <2>4
    <3>2. j <= Taken(q)
      <4>1. CASE l = Len(g) + 1
        <5>1. j = Taken(q)
          BY <1>3, <1>6, <2>1, <4>1
        <5>2. QED
          BY <1>1, <5>1
      <4>2. CASE l \in 1..Len(g)
        BY <1>1, <1>3, <1>4, <2>1, <4>2
      <4>3. QED
        BY <1>1, <2>1, <4>1, <4>2
    <3>3. QED
      BY <1>1, <1>3, <3>1, <3>2
  <2>5. QED
    BY <1>1, <2>1, <2>2, <2>3, <2>4
<1>7. QED
  BY <1>5, <1>6, NewIsOfTaken DEF OrderInv, h, g

(* At first nothing has been accepted.                                     *)
LEMMA InitOrder == OrderInit => OrderInv
<1> SUFFICES ASSUME OrderInit PROVE OrderInv
  OBVIOUS
<1>1. \A q \in Queue : accepted[q] = <<>> /\ queue[q].items = <<>> /\ queue[q].putters = <<>>
  BY DEF OrderInit, Init, EmptyQueue
<1>2. \A q \in Queue : Awaited(queue[q]) = {} /\ Entries(queue[q].putters) = {}
  BY <1>1, AwaitedOf DEF Entries
<1>3. ASSUME NEW t \in tasks
      PROVE  t.origin = NoQueue /\ t.end = "return" /\ t.event.via = <<>>
  <2>1. PICK e \in Event : t = SenderOf(e)
    BY DEF OrderInit, Init
  <2>2. t.origin = NoQueue /\ t.end = "return" /\ t.event = Fresh(e)
    BY <2>1 DEF SenderOf, NewTask
  <2>3. QED
    BY <2>2 DEF Fresh
<1>4. Recorded
  <2>1. <<>> \in Seq(Copy) /\ Ends(<<>>, <<>>) /\ DOMAIN <<>> = {}
    BY DEF Ends
  <2>2. QED
    BY <1>1, <1>2, <2>1 DEF Recorded, RecordRight, AcceptedOnce
<1>5. Steady
  <2>1. \A a \in Actor : loop[a]
    BY DEF OrderInit, Init
  <2>2. QED
    BY <1>3, <2>1 DEF Steady
<1>6. PuttersBring
  BY <1>2 DEF PuttersBring
<1>7. OneByOne
  BY <1>3, NetAssumption DEF OneByOne, AtWork
<1>8. WorkInOrder
  BY <1>1 DEF WorkInOrder
<1>9. QED
  BY <1>4, <1>5, <1>6, <1>7, <1>8 DEF OrderInv

(* The same once steps are noted.                                          *)
LEMMA StepOrder ==
  Base /\ Base' /\ OrderInv /\ [OrderNext]_<<vars, accepted>> => OrderInv'
<1> SUFFICES ASSUME Base, Base', OrderInv, [OrderNext]_<<vars, accepted>>
             PROVE  OrderInv'
  OBVIOUS
<1>1. CASE UNCHANGED <<vars, accepted>>
  BY <1>1 DEF vars, OrderInv, Recorded, RecordRight, AcceptedOnce, Steady, PuttersBring,
              OneByOne, AtWork, Taken, WorkInOrder
<1>2. CASE OrderNext
  <2>1. Next /\ Noting
    BY <1>2 DEF OrderNext, Noting
  <2>2. Recorded' /\ Steady' /\ PuttersBring'
    BY <2>1, StepRecorded, StepSteady, StepBrought DEF OrderInv
  <2>3. OneByOne'
    <3>1. ASSUME NEW q \in Queue, Orderly(q) PROVE AtWork(q)'
      BY <2>1, <3>1, StepAtWork DEF OrderInv, OneByOne
    <3>2. QED
      BY <3>1 DEF OneByOne, Orderly
  <2>4. WorkInOrder'
    BY <2>1, <2>2, StepInOrder, RecordsOfTakenNext
  <2>5. QED
    BY <2>2, <2>3, <2>4 DEF OrderInv
<1>3. QED
  BY <1>1, <1>2

(* blocking_consume keeps the order of work: what a blocking actor that    *)
(* neither rescues nor is stopped makes of its events arrives on each next *)
(* queue in the order in which its inbound queue accepted them, for any    *)
(* actors, queues, sizes and full queues on the way.                       *)
THEOREM NetWorkInOrder == OrderSpec => []WorkInOrder
<1>1. OrderInit => Init
  BY DEF OrderInit
<1>2. [OrderNext]_<<vars, accepted>> => [Next]_vars
  BY DEF OrderNext, vars
<1>3. Init => Base
  BY InitIInv, InitAccounts, InitSerial DEF Base
<1>4. Base /\ [Next]_vars => Base'
  BY StepIInv, StepAccounts, StepSerial DEF Base
<1>5. OrderInv => WorkInOrder
  BY DEF OrderInv
<1>6. QED
  BY <1>1, <1>2, <1>3, <1>4, <1>5, InitOrder, StepOrder, PTL DEF OrderSpec
=============================================================================
