-------------------------- MODULE MajordomoProofs ---------------------------
(***************************************************************************)
(* Proofs about Majordomo, for all brokers, workers, clients and requests: *)
(* a request is in one place as long as it is open, and is worked on at    *)
(* most once; the state keeps its type.                                    *)
(*                                                                         *)
(* A request is at places: on the queue of a peer, held by a broker, on a  *)
(* socket, inside a worker (Place, Load).  The inductive invariant says    *)
(* that an open request is at exactly one of them and no other request at  *)
(* any, that no sequence has a request twice, and that the place tells     *)
(* whether it has been worked on (Done).  Every step of the system only    *)
(* moves requests from place to place, or takes some off and accounts for  *)
(* them in fate (Moved and the lemmas after it).  What a broker does with  *)
(* its record (Stock) is described once, by lemmas on the operators of the *)
(* record (Onward, Handled).                                               *)
(***************************************************************************)
EXTENDS Majordomo, FiniteSetTheorems, SequenceTheorems, TLAPS

(* What peers send to brokers, and brokers to peers.                       *)
Up(p) ==
  {Msg("verify")} \cup (IF p \in Clients THEN {Carry("request", r) : r \in Requests}
                        ELSE {Msg("heartbeat")} \cup {Carry("reply", r) : r \in Requests})

Down(p) ==
  {Msg("verified")} \cup (IF p \in Clients THEN {Carry("reply", r) : r \in Requests}
                          ELSE {Msg("disconnect")} \cup {Carry("request", r) : r \in Requests})

Once(s) == \A i, j \in DOMAIN s : s[i] = s[j] => i = j

OnceEach(msgs) == \A i, j \in DOMAIN msgs : msgs[i].r = msgs[j].r => i = j \/ msgs[i].r = None

(* The record of a broker.                                                 *)
KnownWorker == [liveness : 0 .. MaxLiveness, late : BOOLEAN]

Workforce(known, line) ==
  /\ DOMAIN known \subseteq Workers /\ \A w \in DOMAIN known : known[w] \in KnownWorker
  /\ line \in Seq(Workers) /\ Once(line) /\ ToSet(line) = DOMAIN known

Stock(s) ==
  /\ s = [known |-> s.known, line |-> s.line, held |-> s.held, sent |-> s.sent]
  /\ Workforce(s.known, s.line)
  /\ s.held \in Seq(Requests) /\ Once(s.held)
  /\ s.sent = [p \in Peers |-> s.sent[p]]
  /\ \A p \in Peers : s.sent[p] \in Seq(Down(p)) /\ OnceEach(s.sent[p])
  /\ \A p \in Peers : Carried(s.sent[p]) \cap ToSet(s.held) = {}
  /\ \A p, q \in Peers : p # q => Carried(s.sent[p]) \cap Carried(s.sent[q]) = {}

Outbound == out = [p \in Peers |-> out[p]] /\ \A p \in Peers : out[p] \in Seq(Requests) /\ Once(out[p])

Uplinks ==
  /\ toB = [b \in Brokers |-> [p \in Peers |-> toB[b][p]]]
  /\ \A b \in Brokers, p \in Peers : toB[b][p] \in Seq(Up(p)) /\ OnceEach(toB[b][p])

Downlinks ==
  /\ fromB = [b \in Brokers |-> [p \in Peers |-> fromB[b][p]]]
  /\ \A b \in Brokers, p \in Peers : fromB[b][p] \in Seq(Down(p)) /\ OnceEach(fromB[b][p])

Records ==
  /\ broker = [b \in Brokers |-> broker[b]]
  /\ \A b \in Brokers : Stock(broker[b]) /\ broker[b].sent = NoMail

Queues == Outbound /\ Uplinks /\ Downlinks /\ Records

(* The places of requests.                                                 *)
OnQueue(p) == <<"queue", p>>
HeldBy(b) == <<"held", b>>
To(b, p) == <<"to", b, p>>
From(b, p) == <<"from", b, p>>
Inside(w) == <<"inside", w>>

Place ==
  {OnQueue(p) : p \in Peers} \cup {HeldBy(b) : b \in Brokers} \cup {To(b, p) : b \in Brokers, p \in Peers}
    \cup {From(b, p) : b \in Brokers, p \in Peers} \cup {Inside(w) : w \in Workers}

Load(x) ==
  CASE x[1] = "queue"  -> ToSet(out[x[2]])
    [] x[1] = "held"   -> ToSet(broker[x[2]].held)
    [] x[1] = "to"     -> Carried(toB[x[2]][x[3]])
    [] x[1] = "from"   -> Carried(fromB[x[2]][x[3]])
    [] x[1] = "inside" -> {r \in Requests : <<x[2], r>> \in inside}

(* At a place on the way back a request has been worked on.                *)
WayBack ==
  {OnQueue(w) : w \in Workers} \cup {To(b, w) : b \in Brokers, w \in Workers}
    \cup {From(b, c) : b \in Brokers, c \in Clients} \cup {Inside(w) : w \in Workers}

Done(x) == IF x \in WayBack THEN 1 ELSE 0

Accounted(r) ==
  /\ \A x, y \in Place : r \in Load(x) /\ r \in Load(y) => x = y
  /\ fate[r] = "open" <=> \E x \in Place : r \in Load(x)
  /\ \A x \in Place : r \in Load(x) => runs[r] = Done(x)
  /\ fate[r] \in Fates /\ runs[r] \in {0, 1}
  /\ fate[r] = "new" => runs[r] = 0
  /\ fate[r] = "answered" => runs[r] = 1

Accounts ==
  /\ fate = [r \in Requests |-> fate[r]] /\ runs = [r \in Requests |-> runs[r]]
  /\ inside \subseteq Workers \X Requests
  /\ \A r \in Requests : Accounted(r)

(* A worker knows where its requests came from.                            *)
Origins ==
  /\ origin = [w \in Workers |-> origin[w]]
  /\ \A w \in Workers : \A r \in DOMAIN origin[w] : origin[w][r] \in Brokers \cup {None}
  /\ \A w \in Workers, r \in Requests : r \in ToSet(out[w]) \/ <<w, r>> \in inside => r \in DOMAIN origin[w]

(* Managers, field by field.                                               *)
Connector == [tries : 0 .. Attempts, reconnects : 1 .. Reconnects]

Typed(m) ==
  /\ m = [unverified |-> m.unverified, verified |-> m.verified, pointer |-> m.pointer, wait |-> m.wait]
  /\ m.unverified = [b \in DOMAIN m.unverified |-> m.unverified[b]]
  /\ DOMAIN m.unverified \subseteq Brokers
  /\ \A b \in DOMAIN m.unverified : m.unverified[b] \in Connector
  /\ m.verified \subseteq Brokers
  /\ m.pointer \in -1 .. Cardinality(Brokers) - 1 /\ m.wait \in 0 .. WaitCalls

Peered ==
  /\ alive \subseteq Brokers \cup Peers
  /\ ready \subseteq Peers \X Brokers
  /\ hurries \in 0 .. MaxHurries
  /\ mgr = [p \in Peers |-> mgr[p]] /\ \A p \in Peers : Typed(mgr[p])

MInv == Queues /\ Accounts /\ Origins /\ Peered

-----------------------------------------------------------------------------
(* How many elements of S the rank R puts below x.                         *)
Below(S, R, x) == Cardinality({y \in S : R[y] < R[x]})

(* The elements of a finite set that an injective rank orders are numbered *)
(* by how many are below each: from none to all but one, and no two alike. *)
LEMMA Ranked ==
  ASSUME NEW S, IsFiniteSet(S), NEW R,
         \A x, y \in S : R[x] \in Int /\ (R[x] = R[y] => x = y)
  PROVE  /\ \A k \in 0 .. Cardinality(S) - 1 : \E x \in S : Below(S, R, x) = k
         /\ \A x \in S : Below(S, R, x) \in 0 .. Cardinality(S) - 1
         /\ \A x, z \in S : Below(S, R, x) = Below(S, R, z) => x = z
<1> DEFINE B(x) == {y \in S : R[y] < R[x]}
           n == Cardinality(S)
           g == [x \in S |-> Cardinality(B(x))]
<1>1. n \in Nat
  BY FS_CardinalityType
<1>2. ASSUME NEW x \in S
      PROVE  IsFiniteSet(B(x)) /\ Cardinality(B(x)) \in Nat /\ Cardinality(B(x)) <= n - 1
  <2>1. B(x) \in SUBSET (S \ {x})
    OBVIOUS
  <2>2. IsFiniteSet(S \ {x}) /\ Cardinality(S \ {x}) = n - 1
    BY FS_RemoveElement
  <2> HIDE DEF B, n
  <2>3. IsFiniteSet(B(x)) /\ Cardinality(B(x)) <= Cardinality(S \ {x})
    BY <2>1, <2>2, FS_Subset
  <2>4. QED
    BY <2>2, <2>3, FS_CardinalityType
<1>3. ASSUME NEW x \in S, NEW z \in S, R[x] < R[z] PROVE Cardinality(B(x)) < Cardinality(B(z))
  <2>1. B(x) \cup {x} \in SUBSET B(z) /\ x \notin B(x)
    BY <1>3
  <2>2. /\ IsFiniteSet(B(x)) /\ IsFiniteSet(B(z))
        /\ Cardinality(B(x)) \in Nat /\ Cardinality(B(z)) \in Nat
    BY <1>2
  <2> HIDE DEF B
  <2>3. Cardinality(B(x) \cup {x}) = Cardinality(B(x)) + 1
    BY <2>1, <2>2, FS_AddElement
  <2>4. Cardinality(B(x) \cup {x}) <= Cardinality(B(z))
    BY <2>1, <2>2, FS_Subset
  <2>5. QED
    BY <2>2, <2>3, <2>4
<1>4. \A x \in S : g[x] = Cardinality(B(x)) /\ g[x] \in 0 .. n - 1
  <2>1. \A x \in S : g[x] = Cardinality(B(x))
    OBVIOUS
  <2> HIDE DEF g, B, n
  <2>2. QED
    BY <1>1, <1>2, <2>1
<1>5. ASSUME NEW x \in S, NEW z \in S, Cardinality(B(x)) = Cardinality(B(z)) PROVE x = z
  <2>1. R[x] \in Int /\ R[z] \in Int /\ (R[x] = R[z] => x = z)
    OBVIOUS
  <2>2. Cardinality(B(x)) \in Nat /\ Cardinality(B(z)) \in Nat
    BY <1>2
  <2>3. ~(R[x] < R[z]) /\ ~(R[z] < R[x])
    BY <1>3, <1>5, <2>2
  <2>4. QED
    BY <2>1, <2>3
<1>6. g \in Injection(S, 0 .. n - 1)
  BY <1>4, <1>5 DEF Injection, IsInjective
<1>7. IsFiniteSet(0 .. n - 1) /\ Cardinality(0 .. n - 1) = n
  <2> HIDE DEF n
  <2>1. 0 \in Int /\ n - 1 \in Int
    BY <1>1
  <2>2. IsFiniteSet(0 .. n - 1) /\ Cardinality(0 .. n - 1) = IF 0 > n - 1 THEN 0 ELSE n - 1 - 0 + 1
    BY <2>1, FS_Interval
  <2>3. QED
    BY <1>1, <2>2
<1>8. g \in Surjection(S, 0 .. n - 1)
  <2> HIDE DEF g
  <2>1. QED
    BY <1>6, <1>7, FS_Injection
<1>9. \A k \in 0 .. n - 1 : \E x \in S : g[x] = k
  BY <1>8 DEF Surjection
<1>10. \A x \in S : Below(S, R, x) = Cardinality(B(x))
  BY DEF Below
<1> HIDE DEF B, g
<1>11. QED
  BY <1>4, <1>5, <1>9, <1>10

(* Nth numbers a finite set of integers.                                   *)
LEMMA NthNumbers ==
  ASSUME NEW I, IsFiniteSet(I), I \subseteq Int
  PROVE  /\ Cardinality(I) \in Nat
         /\ \A k \in 1 .. Cardinality(I) : Nth(I, k) \in I
         /\ \A i \in I : \E k \in 1 .. Cardinality(I) : Nth(I, k) = i
         /\ \A k, l \in 1 .. Cardinality(I) : Nth(I, k) = Nth(I, l) => k = l
<1> DEFINE n == Cardinality(I)
           R == [i \in I |-> i]
           At(i) == Below(I, R, i)
<1>1. n \in Nat
  BY FS_CardinalityType
<1>2. \A x, y \in I : R[x] \in Int /\ (R[x] = R[y] => x = y)
  OBVIOUS
<1>3. \A k, x : x \in I => (At(x) = k - 1 <=> Cardinality({j \in I : j < x}) = k - 1)
  <2>1. \A x \in I : {j \in I : R[j] < R[x]} = {j \in I : j < x}
    OBVIOUS
  <2>2. QED
    BY <2>1, Zenon DEF Below
<1> HIDE DEF R
<1>4. /\ \A k \in 0 .. n - 1 : \E x \in I : At(x) = k
      /\ \A x \in I : At(x) \in 0 .. n - 1
      /\ \A x, z \in I : At(x) = At(z) => x = z
  BY <1>2, Ranked
<1> HIDE DEF At, n
<1>5. \A k, i : i \in I /\ At(i) = k - 1 => Nth(I, k) \in I /\ At(Nth(I, k)) = k - 1
  BY <1>3 DEF Nth
<1>6. ASSUME NEW k \in 1 .. n PROVE Nth(I, k) \in I /\ At(Nth(I, k)) = k - 1
  <2>1. k - 1 \in 0 .. n - 1
    BY <1>1
  <2>2. \E i \in I : At(i) = k - 1
    BY <1>4, <2>1
  <2>3. QED
    BY <1>5, <2>2
<1>7. ASSUME NEW i \in I PROVE \E k \in 1 .. n : Nth(I, k) = i
  <2>1. At(i) + 1 \in 1 .. n /\ (At(i) + 1) - 1 = At(i)
    BY <1>1, <1>4
  <2>2. Nth(I, At(i) + 1) = i
    BY <1>4, <1>6, <2>1
  <2>3. QED
    BY <2>1, <2>2
<1>8. \A k, l \in 1 .. n : Nth(I, k) = Nth(I, l) => k = l
  BY <1>1, <1>6
<1>9. n = Cardinality(I)
  BY DEF n
<1>10. QED
  BY <1>1, <1>6, <1>7, <1>8, <1>9

(* What is picked from a sequence are its elements at these places, once.  *)
LEMMA PickedIs ==
  ASSUME NEW S, NEW s \in Seq(S), NEW I \in SUBSET DOMAIN s
  PROVE  /\ Picked(s, I) \in Seq(S)
         /\ ToSet(Picked(s, I)) = {s[i] : i \in I}
         /\ Once(s) => Once(Picked(s, I))
<1> DEFINE n == Cardinality(I)  t == Picked(s, I)
<1>1. IsFiniteSet(I) /\ I \subseteq Int
  <2>1. DOMAIN s = 1 .. Len(s) /\ Len(s) \in Nat
    OBVIOUS
  <2>2. IsFiniteSet(1 .. Len(s))
    BY <2>1, FS_Interval
  <2>3. IsFiniteSet(I)
    BY <2>1, <2>2, FS_Subset
  <2>4. QED
    BY <2>1, <2>3
<1>2. /\ n \in Nat
      /\ \A k \in 1 .. n : Nth(I, k) \in I
      /\ \A i \in I : \E k \in 1 .. n : Nth(I, k) = i
      /\ \A k, l \in 1 .. n : Nth(I, k) = Nth(I, l) => k = l
  BY <1>1, NthNumbers
<1> HIDE DEF n
<1>3. t = [k \in 1 .. n |-> s[Nth(I, k)]]
  BY DEF Picked, n
<1>4. \A i \in I : i \in DOMAIN s /\ s[i] \in S
  OBVIOUS
<1>5. t \in Seq(S)
  BY <1>2, <1>3, <1>4
<1>6. DOMAIN t = 1 .. n /\ \A k \in 1 .. n : t[k] = s[Nth(I, k)]
  BY <1>3
<1> HIDE DEF t
<1>7. ToSet(t) = {s[i] : i \in I}
  <2>1. ToSet(t) = {t[k] : k \in 1 .. n}
    BY <1>6 DEF ToSet
  <2>2. \A k \in 1 .. n : t[k] \in {s[i] : i \in I}
    BY <1>2, <1>6
  <2>3. \A i \in I : s[i] \in {t[k] : k \in 1 .. n}
    BY <1>2, <1>6
  <2>4. QED
    BY <2>1, <2>2, <2>3
<1>8. Once(s) => Once(t)
  BY <1>2, <1>4, <1>6 DEF Once
<1>9. QED
  BY <1>5, <1>7, <1>8 DEF t

(* The elements of a sequence that are in a set.                           *)
LEMMA OnlyIs ==
  ASSUME NEW S, NEW s \in Seq(S), NEW T
  PROVE  /\ Only(s, T) \in Seq(S)
         /\ ToSet(Only(s, T)) = ToSet(s) \cap T
         /\ Once(s) => Once(Only(s, T))
<1> DEFINE I == {i \in DOMAIN s : s[i] \in T}
<1>1. I \in SUBSET DOMAIN s
  OBVIOUS
<1>2. /\ Picked(s, I) \in Seq(S) /\ ToSet(Picked(s, I)) = {s[i] : i \in I}
      /\ Once(s) => Once(Picked(s, I))
  <2> HIDE DEF I
  <2>1. QED
    BY <1>1, PickedIs
<1>3. {s[i] : i \in I} = ToSet(s) \cap T
  BY DEF ToSet
<1>4. QED
  BY <1>2, <1>3 DEF Only

-----------------------------------------------------------------------------
(* Appending an element adds it to the set, and what is new does not       *)
(* repeat.                                                                 *)
LEMMA AppendIs ==
  ASSUME NEW S, NEW s \in Seq(S), NEW e \in S
  PROVE  /\ Append(s, e) \in Seq(S) /\ ToSet(Append(s, e)) = ToSet(s) \cup {e}
         /\ Once(s) /\ e \notin ToSet(s) => Once(Append(s, e))
<1>1. /\ Append(s, e) \in Seq(S)
      /\ DOMAIN Append(s, e) = 1 .. Len(s) + 1 /\ DOMAIN s = 1 .. Len(s) /\ Len(s) \in Nat
      /\ Append(s, e)[Len(s) + 1] = e
      /\ \A i \in 1 .. Len(s) : Append(s, e)[i] = s[i]
  OBVIOUS
<1> DEFINE t == Append(s, e)  n == Len(s)
<1> HIDE DEF t, n
<1>2. /\ t \in Seq(S) /\ DOMAIN t = 1 .. n + 1 /\ DOMAIN s = 1 .. n /\ n \in Nat /\ t[n + 1] = e
      /\ \A i \in 1 .. n : t[i] = s[i]
  BY <1>1 DEF t, n
<1>3. ToSet(t) = ToSet(s) \cup {e}
  <2>1. \A i \in 1 .. n + 1 : i \in 1 .. n \/ i = n + 1
    BY <1>2
  <2>2. \A i \in 1 .. n : i \in 1 .. n + 1
    BY <1>2
  <2>3. n + 1 \in 1 .. n + 1
    BY <1>2
  <2>4. QED
    BY <1>2, <2>1, <2>2, <2>3 DEF ToSet
<1>4. ASSUME Once(s), e \notin ToSet(s) PROVE Once(t)
  <2>1. \A i \in 1 .. n : s[i] # e
    BY <1>2, <1>4 DEF ToSet
  <2>2. QED
    BY <1>2, <1>4, <2>1 DEF Once
<1>5. QED
  BY <1>2, <1>3, <1>4 DEF t

(* Taking the head takes it from the set, unless it repeats.               *)
LEMMA TailIs ==
  ASSUME NEW S, NEW s \in Seq(S), s # <<>>
  PROVE  /\ Tail(s) \in Seq(S) /\ Head(s) \in S /\ ToSet(s) = ToSet(Tail(s)) \cup {Head(s)}
         /\ Once(s) => Once(Tail(s)) /\ Head(s) \notin ToSet(Tail(s))
<1> DEFINE t == Tail(s)  n == Len(s)  h == Head(s)
<1>1. /\ t \in Seq(S) /\ DOMAIN t = 1 .. n - 1 /\ DOMAIN s = 1 .. n /\ n \in Nat \ {0} /\ s[1] = h /\ h \in S
      /\ \A i \in 1 .. n - 1 : t[i] = s[i + 1]
  OBVIOUS
<1> HIDE DEF t, n, h
<1>2. \A i \in 1 .. n : i = 1 \/ (i - 1 \in 1 .. n - 1 /\ s[i] = t[i - 1])
  BY <1>1
<1>3. \A i \in 1 .. n - 1 : i + 1 \in 1 .. n
  BY <1>1
<1>4. ToSet(s) = ToSet(t) \cup {h}
  <2>1. ASSUME NEW i \in 1 .. n PROVE s[i] \in ToSet(t) \cup {h}
    <3>1. i = 1 \/ (i - 1 \in DOMAIN t /\ s[i] = t[i - 1])
      BY <1>1, <1>2
    <3>2. QED
      BY <1>1, <3>1 DEF ToSet
  <2>2. ASSUME NEW i \in 1 .. n - 1 PROVE t[i] \in ToSet(s)
    <3>1. i + 1 \in DOMAIN s /\ t[i] = s[i + 1]
      BY <1>1, <1>3
    <3>2. QED
      BY <3>1 DEF ToSet
  <2>3. h \in ToSet(s)
    BY <1>1 DEF ToSet
  <2>4. ToSet(s) = {s[i] : i \in 1 .. n} /\ ToSet(t) = {t[i] : i \in 1 .. n - 1}
    BY <1>1 DEF ToSet
  <2>5. QED
    BY <2>1, <2>2, <2>3, <2>4
<1>5. ASSUME Once(s) PROVE Once(t) /\ h \notin ToSet(t)
  <2>1. Once(t)
    <3> SUFFICES ASSUME NEW i \in 1 .. n - 1, NEW j \in 1 .. n - 1, t[i] = t[j] PROVE i = j
      BY <1>1 DEF Once
    <3>1. s[i + 1] = s[j + 1] /\ i + 1 \in 1 .. n /\ j + 1 \in 1 .. n
      BY <1>1, <1>3
    <3>2. i + 1 = j + 1
      BY <1>1, <1>5, <3>1 DEF Once
    <3>3. QED
      BY <3>2
  <2>2. ASSUME NEW i \in 1 .. n - 1 PROVE t[i] # h
    <3>1. t[i] = s[i + 1] /\ h = s[1] /\ i + 1 \in DOMAIN s /\ 1 \in DOMAIN s /\ i + 1 # 1
      BY <1>1, <1>3
    <3>2. QED
      BY <1>5, <3>1 DEF Once
  <2>3. QED
    BY <1>1, <2>1, <2>2 DEF ToSet
<1>6. QED
  BY <1>1, <1>4, <1>5 DEF t, h

(* Putting sequences together joins their sets, and what they do not share *)
(* does not repeat.                                                        *)
LEMMA ConcatIs ==
  ASSUME NEW S, NEW s \in Seq(S), NEW u \in Seq(S)
  PROVE  /\ s \o u \in Seq(S) /\ ToSet(s \o u) = ToSet(s) \cup ToSet(u)
         /\ Once(s) /\ Once(u) /\ ToSet(s) \cap ToSet(u) = {} => Once(s \o u)
<1> DEFINE t == s \o u  n == Len(s)  k == Len(u)
<1>1. /\ t \in Seq(S) /\ DOMAIN t = 1 .. n + k /\ DOMAIN s = 1 .. n /\ DOMAIN u = 1 .. k
      /\ n \in Nat /\ k \in Nat
      /\ \A i \in 1 .. n : t[i] = s[i]
      /\ \A i \in 1 .. k : t[n + i] = u[i]
  OBVIOUS
<1> HIDE DEF t, n, k
<1>2. \A i \in 1 .. n + k : i \in 1 .. n \/ (i - n \in 1 .. k /\ t[i] = u[i - n])
  BY <1>1
<1>3. (\A i \in 1 .. n : i \in 1 .. n + k) /\ (\A i \in 1 .. k : n + i \in 1 .. n + k)
  BY <1>1
<1>4. ToSet(t) = ToSet(s) \cup ToSet(u)
  <2>1. ASSUME NEW i \in 1 .. n + k PROVE t[i] \in ToSet(s) \cup ToSet(u)
    <3>1. (i \in DOMAIN s /\ t[i] = s[i]) \/ (i - n \in DOMAIN u /\ t[i] = u[i - n])
      BY <1>1, <1>2
    <3>2. QED
      BY <3>1 DEF ToSet
  <2>2. ASSUME NEW i \in 1 .. n PROVE s[i] \in ToSet(t)
    <3>1. i \in DOMAIN t /\ t[i] = s[i]
      BY <1>1, <1>3
    <3>2. QED
      BY <3>1 DEF ToSet
  <2>3. ASSUME NEW i \in 1 .. k PROVE u[i] \in ToSet(t)
    <3>1. n + i \in DOMAIN t /\ t[n + i] = u[i]
      BY <1>1, <1>3
    <3>2. QED
      BY <3>1 DEF ToSet
  <2>4. ToSet(t) = {t[i] : i \in 1 .. n + k} /\ ToSet(s) = {s[i] : i \in 1 .. n} /\ ToSet(u) = {u[i] : i \in 1 .. k}
    BY <1>1 DEF ToSet
  <2>5. QED
    BY <2>1, <2>2, <2>3, <2>4
<1>5. ASSUME Once(s), Once(u), ToSet(s) \cap ToSet(u) = {} PROVE Once(t)
  <2>1. \A i \in 1 .. n, j \in 1 .. k : s[i] # u[j]
    BY <1>1, <1>5 DEF ToSet
  <2> SUFFICES ASSUME NEW i \in 1 .. n + k, NEW j \in 1 .. n + k, t[i] = t[j] PROVE i = j
    BY <1>1 DEF Once
  <2>2. i \in 1 .. n \/ (i - n \in 1 .. k /\ t[i] = u[i - n])
    BY <1>2
  <2>3. j \in 1 .. n \/ (j - n \in 1 .. k /\ t[j] = u[j - n])
    BY <1>2
  <2>4. CASE i \in 1 .. n /\ j \in 1 .. n
    BY <1>1, <1>5, <2>4 DEF Once
  <2>5. CASE i - n \in 1 .. k /\ t[i] = u[i - n] /\ j - n \in 1 .. k /\ t[j] = u[j - n]
    <3>1. i - n = j - n
      BY <1>1, <1>5, <2>5 DEF Once
    <3>2. QED
      BY <1>1, <3>1
  <2>6. QED
    BY <1>1, <2>1, <2>2, <2>3, <2>4, <2>5
<1>6. QED
  BY <1>1, <1>4, <1>5 DEF t

(* What messages carry are the requests of each; messages about none carry *)
(* none.                                                                   *)
LEMMA CarriedIs ==
  \A s, r : r \in Carried(s) <=> r # None /\ \E i \in DOMAIN s : s[i].r = r
BY DEF Carried, ToSet

(* The same three facts for messages and the requests they carry: appending*)
(* ...                                                                     *)
LEMMA AppendMail ==
  ASSUME NEW S, NEW s \in Seq(S), NEW e \in S
  PROVE  /\ Append(s, e) \in Seq(S) /\ Carried(Append(s, e)) = Carried(s) \cup ({e.r} \ {None})
         /\ OnceEach(s) /\ e.r \notin Carried(s) => OnceEach(Append(s, e))
<1> DEFINE t == Append(s, e)  n == Len(s)
<1>1. /\ t \in Seq(S) /\ DOMAIN t = 1 .. n + 1 /\ DOMAIN s = 1 .. n /\ n \in Nat /\ t[n + 1] = e
      /\ \A i \in 1 .. n : t[i] = s[i]
  OBVIOUS
<1>2. Carried(t) = Carried(s) \cup ({e.r} \ {None})
  <2>1. ToSet(t) = ToSet(s) \cup {e}
    BY AppendIs
  <2> HIDE DEF t
  <2>2. QED
    BY <2>1 DEF Carried
<1> HIDE DEF t, n
<1>3. ASSUME OnceEach(s), e.r \notin Carried(s) PROVE OnceEach(t)
  <2>1. \A i \in 1 .. n : s[i].r # e.r \/ e.r = None
    BY <1>1, <1>3, CarriedIs
  <2>2. QED
    BY <1>1, <1>3, <2>1 DEF OnceEach
<1>4. QED
  BY <1>1, <1>2, <1>3 DEF t

(* ... taking the head ...                                                 *)
LEMMA TailMail ==
  ASSUME NEW S, NEW s \in Seq(S), s # <<>>
  PROVE  /\ Tail(s) \in Seq(S) /\ Head(s) \in S /\ Carried(s) = Carried(Tail(s)) \cup ({Head(s).r} \ {None})
         /\ OnceEach(s) => OnceEach(Tail(s)) /\ Head(s).r \notin Carried(Tail(s))
<1> DEFINE t == Tail(s)  n == Len(s)  h == Head(s)
<1>1. /\ t \in Seq(S) /\ DOMAIN t = 1 .. n - 1 /\ DOMAIN s = 1 .. n /\ n \in Nat \ {0} /\ s[1] = h /\ h \in S
      /\ \A i \in 1 .. n - 1 : t[i] = s[i + 1]
  OBVIOUS
<1>2. Carried(s) = Carried(t) \cup ({h.r} \ {None})
  <2>1. ToSet(s) = ToSet(t) \cup {h}
    BY TailIs
  <2> HIDE DEF t, h
  <2>2. QED
    BY <2>1 DEF Carried
<1> HIDE DEF t, n, h
<1>3. \A i \in 1 .. n - 1 : i + 1 \in 1 .. n
  BY <1>1
<1>4. ASSUME OnceEach(s) PROVE OnceEach(t) /\ h.r \notin Carried(t)
  <2>1. OnceEach(t)
    <3> SUFFICES ASSUME NEW i \in 1 .. n - 1, NEW j \in 1 .. n - 1, t[i].r = t[j].r PROVE i = j \/ t[i].r = None
      BY <1>1 DEF OnceEach
    <3>1. t[i] = s[i + 1] /\ t[j] = s[j + 1] /\ i + 1 \in 1 .. n /\ j + 1 \in 1 .. n
      BY <1>1, <1>3
    <3>2. i + 1 = j + 1 \/ t[i].r = None
      BY <1>1, <1>4, <3>1 DEF OnceEach
    <3>3. QED
      BY <3>2
  <2>2. ASSUME NEW i \in 1 .. n - 1 PROVE t[i].r # h.r \/ h.r = None
    <3>1. t[i] = s[i + 1] /\ h = s[1] /\ i + 1 \in DOMAIN s /\ 1 \in DOMAIN s /\ i + 1 # 1
      BY <1>1, <1>3
    <3>2. QED
      BY <1>4, <3>1 DEF OnceEach
  <2>3. QED
    BY <1>1, <2>1, <2>2, CarriedIs
<1>5. QED
  BY <1>1, <1>2, <1>4 DEF t, h

(* ... and putting together.                                               *)
LEMMA ConcatMail ==
  ASSUME NEW S, NEW s \in Seq(S), NEW u \in Seq(S)
  PROVE  /\ s \o u \in Seq(S) /\ Carried(s \o u) = Carried(s) \cup Carried(u)
         /\ OnceEach(s) /\ OnceEach(u) /\ Carried(s) \cap Carried(u) = {} => OnceEach(s \o u)
<1> DEFINE t == s \o u  n == Len(s)  k == Len(u)
<1>1. /\ t \in Seq(S) /\ DOMAIN t = 1 .. n + k /\ DOMAIN s = 1 .. n /\ DOMAIN u = 1 .. k
      /\ n \in Nat /\ k \in Nat
      /\ \A i \in 1 .. n : t[i] = s[i]
      /\ \A i \in 1 .. k : t[n + i] = u[i]
  OBVIOUS
<1>2. Carried(t) = Carried(s) \cup Carried(u)
  <2>1. ToSet(t) = ToSet(s) \cup ToSet(u)
    BY ConcatIs
  <2> HIDE DEF t
  <2>2. QED
    BY <2>1 DEF Carried
<1> HIDE DEF t, n, k
<1>3. \A i \in 1 .. n + k : i \in 1 .. n \/ (i - n \in 1 .. k /\ t[i] = u[i - n])
  BY <1>1
<1>4. ASSUME OnceEach(s), OnceEach(u), Carried(s) \cap Carried(u) = {} PROVE OnceEach(t)
  <2>1. \A i \in 1 .. n, j \in 1 .. k : s[i].r # u[j].r \/ u[j].r = None
    BY <1>1, <1>4, CarriedIs
  <2> SUFFICES ASSUME NEW i \in 1 .. n + k, NEW j \in 1 .. n + k, t[i].r = t[j].r, t[i].r # None PROVE i = j
    BY <1>1 DEF OnceEach
  <2>2. /\ (i \in 1 .. n /\ t[i] = s[i]) \/ (i - n \in 1 .. k /\ t[i] = u[i - n])
        /\ (j \in 1 .. n /\ t[j] = s[j]) \/ (j - n \in 1 .. k /\ t[j] = u[j - n])
    BY <1>1, <1>3
  <2>3. CASE i \in 1 .. n /\ t[i] = s[i] /\ j \in 1 .. n /\ t[j] = s[j]
    BY <1>1, <1>4, <2>3 DEF OnceEach
  <2>4. CASE i - n \in 1 .. k /\ t[i] = u[i - n] /\ j - n \in 1 .. k /\ t[j] = u[j - n]
    <3>1. /\ \A a \in 1 .. k, c \in 1 .. k : u[a].r = u[c].r /\ u[a].r # None => a = c
      BY <1>1, <1>4 DEF OnceEach
    <3>2. u[i - n].r = u[j - n].r /\ u[i - n].r # None
      BY <2>4
    <3>3. i - n = j - n
      BY <2>4, <3>1, <3>2
    <3>4. QED
      BY <1>1, <3>3
  <2>5. QED
    BY <2>1, <2>2, <2>3, <2>4
<1>5. QED
  BY <1>1, <1>2, <1>4 DEF t

(* Nothing is on an empty sequence.                                        *)
LEMMA EmptyIs ==
  /\ ToSet(<<>>) = {} /\ Carried(<<>>) = {} /\ Once(<<>>) /\ OnceEach(<<>>)
  /\ \A S : <<>> \in Seq(S)
BY DEF ToSet, Carried, Once, OnceEach

(* The fields of messages.                                                 *)
LEMMA MessageIs ==
  /\ \A r : Carry("request", r).r = r /\ Carry("reply", r).r = r
  /\ \A r : Carry("request", r).type = "request" /\ Carry("reply", r).type = "reply"
  /\ \A k : Msg(k).r = None /\ Msg(k).type = k
BY DEF Msg, Carry

-----------------------------------------------------------------------------
(* The record of a broker has the fields it is made of.                    *)
LEMMA StockFields ==
  ASSUME NEW k, NEW l, NEW h, NEW x, NEW s, s = [known |-> k, line |-> l, held |-> h, sent |-> x]
  PROVE  /\ s.known = k /\ s.line = l /\ s.held = h /\ s.sent = x
         /\ s = [known |-> s.known, line |-> s.line, held |-> s.held, sent |-> s.sent]
         /\ \A y : [s EXCEPT !.held = y] = [known |-> k, line |-> l, held |-> y, sent |-> x]
         /\ \A y : [s EXCEPT !.known = y] = [known |-> y, line |-> l, held |-> h, sent |-> x]
         /\ \A y : [s EXCEPT !.sent = y] = [known |-> k, line |-> l, held |-> h, sent |-> y]
         /\ \A y, z : [s EXCEPT !.known = y, !.line = z] = [known |-> y, line |-> z, held |-> h, sent |-> x]
         /\ \A y, z, v : [s EXCEPT !.known = y, !.line = z, !.sent = v]
                           = [known |-> y, line |-> z, held |-> h, sent |-> v]
         /\ \A y, z, v : [s EXCEPT !.held = y, !.line = z, !.sent = v]
                           = [known |-> k, line |-> z, held |-> y, sent |-> v]
<1>1. s.known = k /\ s.line = l /\ s.held = h /\ s.sent = x
  OBVIOUS
<1>2. ASSUME NEW y, NEW z, NEW v
      PROVE  /\ [s EXCEPT !.held = y] = [known |-> k, line |-> l, held |-> y, sent |-> x]
             /\ [s EXCEPT !.known = y] = [known |-> y, line |-> l, held |-> h, sent |-> x]
             /\ [s EXCEPT !.sent = y] = [known |-> k, line |-> l, held |-> h, sent |-> y]
  OBVIOUS
<1>3. ASSUME NEW y, NEW z, NEW v
      PROVE  [s EXCEPT !.known = y, !.line = z] = [known |-> y, line |-> z, held |-> h, sent |-> x]
  <2>1. ASSUME NEW t, t = [[known |-> k, line |-> l, held |-> h, sent |-> x] EXCEPT !.known = y, !.line = z]
        PROVE  t = [known |-> y, line |-> z, held |-> h, sent |-> x]
    BY <2>1
  <2>2. QED
    BY <2>1
<1>4. ASSUME NEW y, NEW z, NEW v
      PROVE  [s EXCEPT !.known = y, !.line = z, !.sent = v] = [known |-> y, line |-> z, held |-> h, sent |-> v]
  <2>1. ASSUME NEW t, t = [[known |-> k, line |-> l, held |-> h, sent |-> x] EXCEPT !.known = y, !.line = z, !.sent = v]
        PROVE  t = [known |-> y, line |-> z, held |-> h, sent |-> v]
    BY <2>1
  <2>2. QED
    BY <2>1
<1>5. ASSUME NEW y, NEW z, NEW v
      PROVE  [s EXCEPT !.held = y, !.line = z, !.sent = v] = [known |-> k, line |-> z, held |-> y, sent |-> v]
  <2>1. ASSUME NEW t, t = [[known |-> k, line |-> l, held |-> h, sent |-> x] EXCEPT !.held = y, !.line = z, !.sent = v]
        PROVE  t = [known |-> k, line |-> z, held |-> y, sent |-> v]
    BY <2>1
  <2>2. QED
    BY <2>1
<1>6. s = [known |-> s.known, line |-> s.line, held |-> s.held, sent |-> s.sent]
  BY <1>1
<1>7. \A y : [s EXCEPT !.held = y] = [known |-> k, line |-> l, held |-> y, sent |-> x]
  BY <1>2
<1>8. \A y : [s EXCEPT !.known = y] = [known |-> y, line |-> l, held |-> h, sent |-> x]
  BY <1>2
<1>9. \A y : [s EXCEPT !.sent = y] = [known |-> k, line |-> l, held |-> h, sent |-> y]
  BY <1>2
<1>10. \A y, z : [s EXCEPT !.known = y, !.line = z] = [known |-> y, line |-> z, held |-> h, sent |-> x]
  BY <1>3
<1>11. \A y, z, v : [s EXCEPT !.known = y, !.line = z, !.sent = v]
                      = [known |-> y, line |-> z, held |-> h, sent |-> v]
  BY <1>4
<1>12. \A y, z, v : [s EXCEPT !.held = y, !.line = z, !.sent = v]
                      = [known |-> k, line |-> z, held |-> y, sent |-> v]
  BY <1>5
<1>13. QED
  BY <1>1, <1>6, <1>7, <1>8, <1>9, <1>10, <1>11, <1>12

(* The record a dispatch leaves, by its fields.                            *)
LEMMA StockDispatched ==
  ASSUME NEW k, NEW l, NEW h, NEW x, NEW s, s = [known |-> k, line |-> l, held |-> h, sent |-> x],
         NEW y, NEW z, NEW v, NEW t, t = [s EXCEPT !.held = y, !.line = z, !.sent = v]
  PROVE  t = [known |-> k, line |-> z, held |-> y, sent |-> v]
<1>1. t = [[known |-> k, line |-> l, held |-> h, sent |-> x] EXCEPT !.held = y, !.line = z, !.sent = v]
  OBVIOUS
<1>2. QED
  BY ONLY <1>1

(* The record a message sent leaves, by its fields.                        *)
LEMMA StockSent ==
  ASSUME NEW k, NEW l, NEW h, NEW x, NEW s, s = [known |-> k, line |-> l, held |-> h, sent |-> x],
         NEW v, NEW t, t = [s EXCEPT !.sent = v]
  PROVE  t = [known |-> k, line |-> l, held |-> h, sent |-> v]
<1>1. t = [[known |-> k, line |-> l, held |-> h, sent |-> x] EXCEPT !.sent = v]
  OBVIOUS
<1>2. QED
  BY ONLY <1>1

(* Who a broker sends a disconnect is a worker, not a client.              *)
LEMMA DownKinds ==
  /\ \A w \in Workers : /\ w \in Peers /\ w \notin Clients
                        /\ Msg("disconnect") \in Down(w) /\ Msg("verified") \in Down(w)
                        /\ \A r \in Requests : Carry("request", r) \in Down(w)
  /\ \A c \in Clients : /\ c \in Peers /\ c \notin Workers /\ Msg("verified") \in Down(c)
                        /\ \A r \in Requests : Carry("reply", r) \in Down(c)
  /\ \A p \in Peers : p \in Workers \/ p \in Clients
BY MajordomoAssumption DEF Down, Peers

(* Purging removes workers from record and line, and tells them.           *)
LEMMA PurgeIs ==
  ASSUME NEW s, Stock(s)
  PROVE  /\ Stock(Purge(s)) /\ Purge(s).held = s.held
         /\ \A p \in Peers : Carried(Purge(s).sent[p]) = Carried(s.sent[p])
<1> DEFINE k == s.known  l == s.line  h == s.held  x == s.sent
           gone == Expired(s)  kept == DOMAIN k \ gone
           K == [w \in kept |-> Reduced(k[w])]
           L == Only(l, kept)
           M == [p \in Peers |-> IF p \in gone THEN Append(x[p], Msg("disconnect")) ELSE x[p]]
           t == Purge(s)
<1>1. s = [known |-> k, line |-> l, held |-> h, sent |-> x]
  BY DEF Stock
<1>2. t = [s EXCEPT !.known = K, !.line = L, !.sent = M]
  BY <1>1 DEF Purge
<1>3. /\ \A p \in Peers : x[p] \in Seq(Down(p)) /\ OnceEach(x[p])
      /\ \A p \in Peers : Carried(x[p]) \cap ToSet(h) = {}
      /\ \A p, q \in Peers : p # q => Carried(x[p]) \cap Carried(x[q]) = {}
      /\ h \in Seq(Requests) /\ Once(h) /\ Workforce(k, l)
  BY DEF Stock
<1>4. gone \subseteq Workers /\ kept \subseteq Workers
  BY <1>3 DEF Expired, Workforce
<1>5. \A w \in kept : Reduced(k[w]) \in KnownWorker
  <2> SUFFICES ASSUME NEW w \in kept PROVE Reduced(k[w]) \in KnownWorker
    OBVIOUS
  <2>1. k[w] \in KnownWorker /\ ~(k[w].late /\ k[w].liveness = 0)
    BY <1>3 DEF Workforce, Expired
  <2> HIDE DEF k
  <2>2. QED
    BY <2>1, MajordomoAssumption DEF Reduced, KnownWorker
<1>6. Workforce(K, L)
  <2>1. L \in Seq(Workers) /\ ToSet(L) = ToSet(l) \cap kept /\ Once(L)
    <3> HIDE DEF kept, l
    <3>1. QED
      BY <1>3, OnlyIs DEF Workforce
  <2>2. ToSet(L) = kept /\ DOMAIN K = kept
    BY <1>3, <2>1 DEF Workforce
  <2>3. \A w \in DOMAIN K : K[w] \in KnownWorker
    BY <1>5
  <2> HIDE DEF K, L, kept
  <2>4. QED
    BY <1>4, <2>1, <2>2, <2>3 DEF Workforce
<1> HIDE DEF k, l, h, x, gone, kept, K, L, t
<1>7. /\ M = [p \in Peers |-> M[p]]
      /\ \A p \in Peers : M[p] \in Seq(Down(p)) /\ OnceEach(M[p]) /\ Carried(M[p]) = Carried(x[p])
  <2> SUFFICES ASSUME NEW p \in Peers
               PROVE M[p] \in Seq(Down(p)) /\ OnceEach(M[p]) /\ Carried(M[p]) = Carried(x[p])
    OBVIOUS
  <2>1. CASE p \notin gone
    BY <1>3, <2>1
  <2>2. CASE p \in gone
    <3>1. M[p] = Append(x[p], Msg("disconnect")) /\ Msg("disconnect") \in Down(p)
      BY <1>4, <2>2, DownKinds
    <3>2. Msg("disconnect").r = None /\ None \notin Carried(x[p])
      BY MessageIs, CarriedIs
    <3> HIDE DEF M
    <3>3. /\ Append(x[p], Msg("disconnect")) \in Seq(Down(p))
          /\ Carried(Append(x[p], Msg("disconnect"))) = Carried(x[p]) \cup ({Msg("disconnect").r} \ {None})
          /\ OnceEach(Append(x[p], Msg("disconnect")))
      BY <1>3, <3>1, <3>2, AppendMail
    <3>4. QED
      BY <3>1, <3>2, <3>3
  <2>3. QED
    BY <2>1, <2>2
<1> HIDE DEF M
<1>8. t = [known |-> K, line |-> L, held |-> h, sent |-> M]
  BY <1>1, <1>2, StockFields
<1>9. t.known = K /\ t.line = L /\ t.held = h /\ t.sent = M
      /\ t = [known |-> t.known, line |-> t.line, held |-> t.held, sent |-> t.sent]
  BY <1>8, StockFields
<1>10. Stock(t)
  BY <1>3, <1>6, <1>7, <1>9 DEF Stock
<1>11. QED
  BY <1>7, <1>9, <1>10 DEF t, h, x

(* The part of the requests held that goes to p.                           *)
LEMMA ShareIs ==
  ASSUME NEW line \in Seq(Workers), line # <<>>, NEW held \in Seq(Requests), Once(held)
  PROVE  /\ \A p \in Peers : Share(line, held, p) \in Seq(Down(p)) /\ OnceEach(Share(line, held, p))
         /\ \A p \in Peers : Carried(Share(line, held, p)) \subseteq ToSet(held)
         /\ \A p \in Peers : Carried(Share(line, held, p)) # {} => p \in Workers
         /\ \A p, q \in Peers : p # q => Carried(Share(line, held, p)) \cap Carried(Share(line, held, q)) = {}
         /\ \A r \in ToSet(held) : \E w \in Workers : r \in Carried(Share(line, held, w))
<1> DEFINE n == Len(line)
           Turn(i) == line[1 + ((i - 1) % n)]
           I(p) == {i \in DOMAIN held : Turn(i) = p}
           mine(p) == Picked(held, I(p))
<1>1. \A i \in DOMAIN held : Turn(i) \in Workers
  <2>1. n \in Nat \ {0} /\ DOMAIN line = 1 .. n
    OBVIOUS
  <2>2. ASSUME NEW i \in DOMAIN held PROVE 1 + ((i - 1) % n) \in 1 .. n
    <3>1. i - 1 \in Int
      OBVIOUS
    <3> HIDE DEF n
    <3>2. (i - 1) % n \in 0 .. n - 1
      BY <2>1, <3>1
    <3>3. QED
      BY <2>1, <3>2
  <2>3. \A j \in 1 .. n : line[j] \in Workers
    OBVIOUS
  <2> HIDE DEF n
  <2>4. QED
    BY <2>2, <2>3
<1>2. \A p : I(p) \in SUBSET DOMAIN held
  OBVIOUS
<1>3. \A p : Share(line, held, p) = [k \in DOMAIN mine(p) |-> Carry("request", mine(p)[k])]
  BY DEF Share
<1> HIDE DEF Turn
<1>4. ASSUME NEW p
      PROVE  mine(p) \in Seq(Requests) /\ ToSet(mine(p)) = {held[i] : i \in I(p)} /\ Once(mine(p))
  <2> HIDE DEF I
  <2>1. QED
    BY <1>2, PickedIs
<1> HIDE DEF mine
<1>5. ASSUME NEW p
      PROVE  /\ Carried(Share(line, held, p)) = {held[i] : i \in I(p)} /\ OnceEach(Share(line, held, p))
             /\ p \in Workers => Share(line, held, p) \in Seq(Down(p))
  <2> DEFINE m == mine(p)  u == Share(line, held, p)
  <2>1. /\ m \in Seq(Requests) /\ Once(m) /\ ToSet(m) = {held[i] : i \in I(p)}
        /\ u = [k \in DOMAIN m |-> Carry("request", m[k])]
    BY <1>3, <1>4
  <2> HIDE DEF m, u, I
  <2>2. /\ DOMAIN m = 1 .. Len(m) /\ Len(m) \in Nat /\ DOMAIN u = 1 .. Len(m)
        /\ \A k \in 1 .. Len(m) : m[k] \in Requests /\ u[k] = Carry("request", m[k]) /\ u[k].r = m[k]
    BY <2>1, MessageIs
  <2>3. Carried(u) = ToSet(m)
    <3>1. ASSUME NEW r PROVE r \in Carried(u) <=> r \in ToSet(m)
      <4>1. r \in Carried(u) <=> r # None /\ \E k \in 1 .. Len(m) : m[k] = r
        BY <2>2, CarriedIs
      <4>2. r \in ToSet(m) <=> \E k \in 1 .. Len(m) : m[k] = r
        BY <2>2 DEF ToSet
      <4>3. QED
        BY <2>2, <4>1, <4>2, MajordomoAssumption
    <3>2. QED
      BY <3>1
  <2>4. OnceEach(u)
    BY <2>1, <2>2 DEF Once, OnceEach
  <2>5. ASSUME p \in Workers PROVE u \in Seq(Down(p))
    <3>1. \A k \in 1 .. Len(m) : u[k] \in Down(p)
      BY <2>2, <2>5, DownKinds
    <3>2. u = [k \in 1 .. Len(m) |-> u[k]]
      BY <2>1, <2>2
    <3>3. QED
      BY <2>2, <3>1, <3>2
  <2>6. QED
    BY <2>1, <2>3, <2>4, <2>5 DEF u
<1>6. ASSUME NEW p, p \notin Workers PROVE I(p) = {} /\ Share(line, held, p) = <<>>
  <2>1. I(p) = {}
    BY <1>1, <1>6
  <2>2. ToSet(mine(p)) = {} /\ mine(p) \in Seq(Requests)
    BY <1>4, <2>1
  <2>3. DOMAIN mine(p) = {}
    BY <2>2 DEF ToSet
  <2>4. QED
    BY <1>3, <2>1, <2>3
<1>7. \A p \in Peers : Share(line, held, p) \in Seq(Down(p)) /\ OnceEach(Share(line, held, p))
  BY <1>5, <1>6, EmptyIs
<1>8. \A p : Carried(Share(line, held, p)) \subseteq ToSet(held)
  BY <1>5 DEF ToSet
<1>9. \A p : Carried(Share(line, held, p)) # {} => p \in Workers
  BY <1>5, <1>6
<1>10. ASSUME NEW p, NEW q, p # q
       PROVE  Carried(Share(line, held, p)) \cap Carried(Share(line, held, q)) = {}
  <2>1. \A i \in I(p), j \in I(q) : held[i] # held[j]
    BY <1>10 DEF Once
  <2> HIDE DEF I
  <2>2. QED
    BY <1>5, <2>1
<1>11. ASSUME NEW i \in DOMAIN held PROVE \E w \in Workers : held[i] \in Carried(Share(line, held, w))
  <2>1. Turn(i) \in Workers /\ i \in I(Turn(i))
    BY <1>1
  <2> HIDE DEF I
  <2>2. QED
    BY <1>5, <2>1
<1>12. \A r \in ToSet(held) : \E w \in Workers : r \in Carried(Share(line, held, w))
  BY <1>11 DEF ToSet
<1>13. QED
  BY <1>7, <1>8, <1>9, <1>10, <1>12

(* A stretch of a sequence without repetitions.                            *)
LEMMA StretchIs ==
  ASSUME NEW S, NEW s \in Seq(S), Once(s), NEW a \in 1 .. Len(s) + 1, NEW b \in 0 .. Len(s)
  PROVE  /\ SubSeq(s, a, b) \in Seq(S) /\ Once(SubSeq(s, a, b))
         /\ ToSet(SubSeq(s, a, b)) = {s[i] : i \in a .. b}
<1> DEFINE t == SubSeq(s, a, b)  n == Len(s)  k == IF a <= b THEN b - a + 1 ELSE 0
<1>1. n \in Nat /\ DOMAIN s = 1 .. n /\ (\A i \in 1 .. n : s[i] \in S) /\ a \in 1 .. n + 1 /\ b \in 0 .. n
  OBVIOUS
<1>2. \A i \in a .. b : s[i] \in S
  BY <1>1
<1>3. t \in Seq(S) /\ Len(t) = k /\ \A i \in 1 .. b - a + 1 : t[i] = s[a + i - 1]
  BY <1>1, <1>2, SubSeqProperties
<1>4. DOMAIN t = 1 .. k
  BY <1>3
<1> HIDE DEF t, n
<1>5. k \in Nat /\ \A i \in 1 .. k : t[i] = s[a + i - 1] /\ a + i - 1 \in a .. b /\ a + i - 1 \in 1 .. n
  BY <1>1, <1>3
<1>6. ASSUME NEW i \in a .. b PROVE i - a + 1 \in 1 .. k /\ t[i - a + 1] = s[i]
  <2>1. i - a + 1 \in 1 .. k /\ i - a + 1 \in 1 .. b - a + 1 /\ a + (i - a + 1) - 1 = i
    BY <1>1
  <2> HIDE DEF k
  <2>2. QED
    BY <1>3, <2>1
<1>7. Once(t)
  <2> SUFFICES ASSUME NEW i \in 1 .. k, NEW j \in 1 .. k, t[i] = t[j] PROVE i = j
    BY <1>4 DEF Once
  <2>1. a + i - 1 = a + j - 1
    BY <1>1, <1>5 DEF Once
  <2>2. QED
    BY <1>1, <2>1
<1>8. ToSet(t) = {t[i] : i \in 1 .. k}
  BY <1>4 DEF ToSet
<1>9. {t[i] : i \in 1 .. k} = {s[i] : i \in a .. b}
  <2>1. ASSUME NEW i \in 1 .. k PROVE t[i] \in {s[j] : j \in a .. b}
    BY <1>5
  <2>2. ASSUME NEW i \in a .. b PROVE s[i] \in {t[j] : j \in 1 .. k}
    BY <1>6
  <2> HIDE DEF k
  <2>3. QED
    BY <2>1, <2>2
<1>10. QED
  BY <1>3, <1>7, <1>8, <1>9 DEF t

(* The workers that a number of requests reach are some of those in line.  *)
LEMMA UsedIs ==
  ASSUME NEW line \in Seq(Workers), line # <<>>, Once(line), NEW k \in Nat
  PROVE  Used(line, k) \in Seq(Workers) /\ Once(Used(line, k)) /\ ToSet(Used(line, k)) \subseteq ToSet(line)
<1> DEFINE n == Len(line)  c == k % n
<1>1. n \in Nat \ {0} /\ ToSet(line) = {line[i] : i \in 1 .. n}
  BY DEF ToSet
<1>2. c \in 0 .. n - 1
  <2> HIDE DEF n
  <2>1. QED
    BY <1>1
<1> HIDE DEF c
<1>3. \A a \in 1 .. n + 1, b \in 0 .. n :
        /\ SubSeq(line, a, b) \in Seq(Workers) /\ Once(SubSeq(line, a, b))
        /\ ToSet(SubSeq(line, a, b)) = {line[i] : i \in a .. b}
  BY StretchIs
<1> HIDE DEF n
<1>4. CASE k <= n
  <2>1. Used(line, k) = SubSeq(line, 1, k) /\ 1 \in 1 .. n + 1 /\ k \in 0 .. n
    BY <1>1, <1>4 DEF Used, n
  <2>2. {line[i] : i \in 1 .. k} \subseteq {line[i] : i \in 1 .. n}
    BY <1>1, <2>1
  <2>3. QED
    BY <1>1, <1>3, <2>1, <2>2
<1>5. CASE ~(k <= n)
  <2> DEFINE u == SubSeq(line, c + 1, n)  v == SubSeq(line, 1, c)
  <2>1. c + 1 \in 1 .. n + 1 /\ 1 \in 1 .. n + 1 /\ n \in 0 .. n /\ c \in 0 .. n
    BY <1>1, <1>2
  <2>2. Used(line, k) = u \o v
    BY <1>5 DEF Used, n, c
  <2>3. /\ u \in Seq(Workers) /\ Once(u) /\ ToSet(u) = {line[i] : i \in c + 1 .. n}
        /\ v \in Seq(Workers) /\ Once(v) /\ ToSet(v) = {line[i] : i \in 1 .. c}
    BY <1>3, <2>1
  <2> HIDE DEF u, v
  <2>4. ToSet(u) \subseteq ToSet(line) /\ ToSet(v) \subseteq ToSet(line)
    <3>1. (\A i \in c + 1 .. n : i \in 1 .. n) /\ (\A i \in 1 .. c : i \in 1 .. n)
      BY <1>1, <1>2
    <3>2. QED
      BY <1>1, <2>3, <3>1
  <2>5. ToSet(u) \cap ToSet(v) = {}
    <3>1. \A i \in c + 1 .. n, j \in 1 .. c : i \in DOMAIN line /\ j \in DOMAIN line /\ i # j
      BY <1>1, <1>2 DEF n
    <3>2. \A i \in c + 1 .. n, j \in 1 .. c : line[i] # line[j]
      BY <3>1 DEF Once
    <3>3. QED
      BY <2>3, <3>2
  <2>6. u \o v \in Seq(Workers) /\ Once(u \o v) /\ ToSet(u \o v) = ToSet(u) \cup ToSet(v)
    <3>1. u \in Seq(Workers) /\ Once(u) /\ v \in Seq(Workers) /\ Once(v)
      BY <2>3
    <3>2. QED
      BY <2>5, <3>1, ConcatIs
  <2>7. QED
    BY <2>2, <2>4, <2>6
<1>6. QED
  BY <1>4, <1>5

(* What a broker does with what it holds: it stays held, or goes to a      *)
(* worker.                                                                 *)
Onward(s, t) ==
  /\ Stock(t)
  /\ ToSet(t.held) \subseteq ToSet(s.held)
  /\ \A p \in Peers : Carried(s.sent[p]) \subseteq Carried(t.sent[p])
  /\ \A p \in Peers : Carried(t.sent[p]) \subseteq Carried(s.sent[p]) \cup ToSet(s.held)
  /\ \A p \in Peers \ Workers : Carried(t.sent[p]) = Carried(s.sent[p])
  /\ \A r \in ToSet(s.held) : r \in ToSet(t.held) \/ \E w \in Workers : r \in Carried(t.sent[w])

(* What is held goes onward in several steps as in one.                    *)
LEMMA OnwardAgain ==
  ASSUME NEW s, NEW t, NEW u, Onward(s, t), Onward(t, u)
  PROVE  Onward(s, u)
<1>1. Workers \subseteq Peers
  BY DEF Peers
<1>2. \A p \in Peers : Carried(s.sent[p]) \subseteq Carried(u.sent[p])
  BY DEF Onward
<1>3. \A p \in Peers : Carried(u.sent[p]) \subseteq Carried(s.sent[p]) \cup ToSet(s.held)
  BY DEF Onward
<1>4. \A p \in Peers \ Workers : Carried(u.sent[p]) = Carried(s.sent[p])
  BY DEF Onward
<1>5. \A r \in ToSet(s.held) : r \in ToSet(u.held) \/ \E w \in Workers : r \in Carried(u.sent[w])
  BY <1>1 DEF Onward
<1>6. QED
  BY <1>2, <1>3, <1>4, <1>5 DEF Onward

(* Purging sends nothing that is held.                                     *)
LEMMA PurgeOnward ==
  ASSUME NEW s, Stock(s) PROVE Onward(s, Purge(s))
BY PurgeIs DEF Onward

(* Dispatching sends all that is held, if a worker can take it.            *)
LEMMA DispatchIs ==
  ASSUME NEW s, Stock(s) PROVE Onward(s, Dispatch(s))
<1> DEFINE k == s.known  l == s.line  h == s.held  x == s.sent
           healthy == Healthy(s)
           used == Used(healthy, Len(h))
           L == Only(l, DOMAIN k \ ToSet(used)) \o used
           M == [p \in Peers |-> x[p] \o Share(healthy, h, p)]
           t == Dispatch(s)
<1>1. s = [known |-> k, line |-> l, held |-> h, sent |-> x]
  BY DEF Stock
<1>2. IF healthy = <<>> THEN t = s ELSE t = [s EXCEPT !.held = <<>>, !.line = L, !.sent = M]
  BY <1>1 DEF Dispatch
<1>3. /\ \A p \in Peers : x[p] \in Seq(Down(p)) /\ OnceEach(x[p])
      /\ \A p \in Peers : Carried(x[p]) \cap ToSet(h) = {}
      /\ \A p, q \in Peers : p # q => Carried(x[p]) \cap Carried(x[q]) = {}
      /\ h \in Seq(Requests) /\ Once(h) /\ Workforce(k, l)
  BY DEF Stock
<1>4. CASE healthy = <<>>
  BY <1>2, <1>4 DEF Onward
<1>5. CASE healthy # <<>>
  <2>1. healthy \in Seq(Workers) /\ Once(healthy) /\ ToSet(healthy) \subseteq DOMAIN k
    BY <1>3, OnlyIs DEF Healthy, Workforce
  <2> HIDE DEF k, l, h, x, healthy
  <2>2. Len(h) \in Nat
    BY <1>3
  <2>3. used \in Seq(Workers) /\ Once(used) /\ ToSet(used) \subseteq DOMAIN k
    BY <1>5, <2>1, <2>2, UsedIs
  <2> HIDE DEF used
  <2>4. Workforce(k, L)
    <3> DEFINE rest == Only(l, DOMAIN k \ ToSet(used))
    <3>1. rest \in Seq(Workers) /\ Once(rest) /\ ToSet(rest) = ToSet(l) \cap (DOMAIN k \ ToSet(used))
      BY <1>3, OnlyIs DEF Workforce
    <3>2. L = rest \o used
      OBVIOUS
    <3> HIDE DEF rest, L
    <3>3. ToSet(rest) \cap ToSet(used) = {}
      BY <3>1
    <3>4. L \in Seq(Workers) /\ Once(L) /\ ToSet(L) = ToSet(rest) \cup ToSet(used)
      BY <2>3, <3>1, <3>2, <3>3, ConcatIs
    <3>5. ToSet(L) = DOMAIN k
      BY <1>3, <2>3, <3>1, <3>4 DEF Workforce
    <3>6. QED
      BY <1>3, <3>4, <3>5 DEF Workforce
  <2> HIDE DEF L
  <2> DEFINE sh(p) == Share(healthy, h, p)
  <2>5. /\ \A p \in Peers : sh(p) \in Seq(Down(p)) /\ OnceEach(sh(p))
        /\ \A p \in Peers : Carried(sh(p)) \subseteq ToSet(h)
        /\ \A p \in Peers : Carried(sh(p)) # {} => p \in Workers
        /\ \A p, q \in Peers : p # q => Carried(sh(p)) \cap Carried(sh(q)) = {}
        /\ \A r \in ToSet(h) : \E w \in Workers : r \in Carried(sh(w))
    BY <1>3, <1>5, <2>1, ShareIs
  <2>6. M = [p \in Peers |-> x[p] \o sh(p)]
    OBVIOUS
  <2> HIDE DEF sh, M
  <2>7. ASSUME NEW p \in Peers
        PROVE  /\ M[p] \in Seq(Down(p)) /\ OnceEach(M[p])
               /\ Carried(M[p]) = Carried(x[p]) \cup Carried(sh(p))
    <3>1. /\ x[p] \in Seq(Down(p)) /\ OnceEach(x[p]) /\ sh(p) \in Seq(Down(p)) /\ OnceEach(sh(p))
          /\ Carried(x[p]) \cap Carried(sh(p)) = {}
      BY <1>3, <2>5
    <3>2. M[p] = x[p] \o sh(p)
      BY <2>6
    <3>3. QED
      BY <3>1, <3>2, ConcatMail
  <2>8. t = [known |-> k, line |-> L, held |-> <<>>, sent |-> M]
    <3>1. t = [s EXCEPT !.held = <<>>, !.line = L, !.sent = M]
      BY <1>2, <1>5
    <3> HIDE DEF t, L
    <3>2. QED
      BY <1>1, <3>1, StockDispatched
  <2> HIDE DEF t
  <2>9. /\ t.known = k /\ t.line = L /\ t.held = <<>> /\ t.sent = M
        /\ t = [known |-> t.known, line |-> t.line, held |-> t.held, sent |-> t.sent]
    BY <2>8, StockFields
  <2>10. M = [p \in Peers |-> M[p]]
    BY <2>6
  <2>11. <<>> \in Seq(Requests) /\ Once(<<>>) /\ ToSet(<<>>) = {}
    BY EmptyIs
  <2>12. \A p, q \in Peers : p # q => Carried(M[p]) \cap Carried(M[q]) = {}
    BY <1>3, <2>5, <2>7
  <2>13. Stock(t)
    BY <2>4, <2>7, <2>9, <2>10, <2>11, <2>12 DEF Stock
  <2>14. Workers \subseteq Peers
    BY DEF Peers
  <2>15. /\ s.held = h /\ s.sent = x
    BY DEF h, x
  <2>16. /\ ToSet(t.held) \subseteq ToSet(h)
         /\ \A p \in Peers : Carried(x[p]) \subseteq Carried(t.sent[p])
         /\ \A p \in Peers : Carried(t.sent[p]) \subseteq Carried(x[p]) \cup ToSet(h)
         /\ \A p \in Peers \ Workers : Carried(t.sent[p]) = Carried(x[p])
         /\ \A r \in ToSet(h) : r \in ToSet(t.held) \/ \E w \in Workers : r \in Carried(t.sent[w])
    <3>1. ToSet(t.held) \subseteq ToSet(h)
      BY <2>9, <2>11
    <3>2. \A p \in Peers : Carried(t.sent[p]) = Carried(x[p]) \cup Carried(sh(p))
      BY <2>7, <2>9
    <3>3. \A p \in Peers \ Workers : Carried(sh(p)) = {}
      BY <2>5
    <3>4. \A r \in ToSet(h) : \E w \in Workers : r \in Carried(t.sent[w])
      BY <2>5, <2>14, <3>2
    <3>5. ASSUME NEW p \in Peers
          PROVE  /\ Carried(x[p]) \subseteq Carried(t.sent[p])
                 /\ Carried(t.sent[p]) \subseteq Carried(x[p]) \cup ToSet(h)
      <4>1. Carried(sh(p)) \subseteq ToSet(h) /\ Carried(t.sent[p]) = Carried(x[p]) \cup Carried(sh(p))
        BY <2>5, <3>2
      <4>2. QED
        BY <4>1
    <3>6. ASSUME NEW p \in Peers \ Workers PROVE Carried(t.sent[p]) = Carried(x[p])
      BY <3>2, <3>3
    <3>7. QED
      BY <3>1, <3>4, <3>5, <3>6
  <2>17. QED
    BY <2>13, <2>15, <2>16 DEF Onward, t
<1>6. QED
  BY <1>4, <1>5

(* Sending a message that carries nothing the record has.                  *)
LEMMA SendsIs ==
  ASSUME NEW s, Stock(s), NEW p \in Peers, NEW m \in Down(p),
         m.r = None \/ (m.r \notin ToSet(s.held) /\ \A q \in Peers : m.r \notin Carried(s.sent[q]))
  PROVE  /\ Stock(Sends(s, p, m)) /\ Sends(s, p, m).held = s.held
         /\ \A q \in Peers : Carried(Sends(s, p, m).sent[q])
                               = IF q = p THEN Carried(s.sent[q]) \cup ({m.r} \ {None}) ELSE Carried(s.sent[q])
<1> DEFINE k == s.known  l == s.line  h == s.held  x == s.sent
           M == [x EXCEPT ![p] = Append(@, m)]
           t == Sends(s, p, m)
<1>1. s = [known |-> k, line |-> l, held |-> h, sent |-> x]
  BY DEF Stock
<1>2. t = [s EXCEPT !.sent = M]
  BY <1>1 DEF Sends
<1>3. /\ \A q \in Peers : x[q] \in Seq(Down(q)) /\ OnceEach(x[q])
      /\ \A q \in Peers : Carried(x[q]) \cap ToSet(h) = {}
      /\ \A q, u \in Peers : q # u => Carried(x[q]) \cap Carried(x[u]) = {}
      /\ h \in Seq(Requests) /\ Once(h) /\ Workforce(k, l) /\ x = [q \in Peers |-> x[q]]
  BY DEF Stock
<1> HIDE DEF k, l, h, x
<1>4. m.r = None \/ (m.r \notin ToSet(h) /\ \A q \in Peers : m.r \notin Carried(x[q]))
  BY DEF h, x
<1>5. /\ M = [q \in Peers |-> M[q]] /\ M[p] = Append(x[p], m)
      /\ \A q \in Peers \ {p} : M[q] = x[q]
  BY <1>3
<1> HIDE DEF M
<1>6. /\ Append(x[p], m) \in Seq(Down(p)) /\ OnceEach(Append(x[p], m))
      /\ Carried(Append(x[p], m)) = Carried(x[p]) \cup ({m.r} \ {None})
  <2>1. x[p] \in Seq(Down(p)) /\ OnceEach(x[p]) /\ m.r \notin Carried(x[p])
    BY <1>3, <1>4, CarriedIs
  <2>2. QED
    BY <2>1, AppendMail
<1>7. \A q \in Peers : Carried(M[q]) = IF q = p THEN Carried(x[q]) \cup ({m.r} \ {None}) ELSE Carried(x[q])
  BY <1>5, <1>6
<1>8. \A q \in Peers : M[q] \in Seq(Down(q)) /\ OnceEach(M[q])
  BY <1>3, <1>5, <1>6
<1>9. /\ \A q \in Peers : Carried(M[q]) \cap ToSet(h) = {}
      /\ \A q, u \in Peers : q # u => Carried(M[q]) \cap Carried(M[u]) = {}
  <2>1. \A q \in Peers : Carried(M[q]) \subseteq Carried(x[q]) \cup ({m.r} \ {None})
    BY <1>7
  <2>2. \A q \in Peers \ {p} : Carried(M[q]) = Carried(x[q])
    BY <1>7
  <2>3. ({m.r} \ {None}) \cap ToSet(h) = {} /\ \A q \in Peers : ({m.r} \ {None}) \cap Carried(x[q]) = {}
    BY <1>4
  <2>4. \A q \in Peers : Carried(M[q]) \cap ToSet(h) = {}
    BY <1>3, <2>1, <2>3
  <2>5. ASSUME NEW q \in Peers, NEW u \in Peers, q # u PROVE Carried(M[q]) \cap Carried(M[u]) = {}
    BY <1>3, <2>1, <2>2, <2>3, <2>5
  <2>6. QED
    BY <2>4, <2>5
<1>10. t = [known |-> k, line |-> l, held |-> h, sent |-> M]
  <2> HIDE DEF t
  <2>1. QED
    BY <1>1, <1>2, StockSent
<1> HIDE DEF t
<1>11. /\ t.known = k /\ t.line = l /\ t.held = h /\ t.sent = M
       /\ t = [known |-> t.known, line |-> t.line, held |-> t.held, sent |-> t.sent]
  BY <1>10, StockFields
<1>12. Stock(t)
  BY <1>3, <1>5, <1>8, <1>9, <1>11 DEF Stock
<1>13. QED
  BY <1>7, <1>11, <1>12 DEF t, h, x

(* What becomes of a message m of p and of what is held: what m carries    *)
(* stays with the broker or is sent, a request to a worker and a reply to  *)
(* a client.                                                               *)
Cargo(m) == {m.r} \ {None}

Handled(s, p, m, t) ==
  /\ Stock(t)
  /\ ToSet(t.held) \subseteq ToSet(s.held) \cup (IF p \in Clients THEN Cargo(m) ELSE {})
  /\ \A w \in Workers : Carried(t.sent[w]) \subseteq ToSet(s.held) \cup (IF p \in Clients THEN Cargo(m) ELSE {})
  /\ \A c \in Clients : Carried(t.sent[c]) \subseteq IF p \in Clients THEN {} ELSE Cargo(m)
  /\ \A r \in ToSet(s.held) \cup Cargo(m) : r \in ToSet(t.held) \/ \E q \in Peers : r \in Carried(t.sent[q])

(* A record that holds and sends the same requests has handled the message *)
(* the same way.                                                           *)
LEMMA HandledStill ==
  ASSUME NEW s, NEW p, NEW m, NEW t, Handled(s, p, m, t), NEW u, Stock(u), u.held = t.held,
         \A q \in Peers : Carried(u.sent[q]) = Carried(t.sent[q])
  PROVE  Handled(s, p, m, u)
<1>1. Workers \subseteq Peers /\ Clients \subseteq Peers
  BY DEF Peers
<1>2. /\ \A w \in Workers : Carried(u.sent[w]) = Carried(t.sent[w])
      /\ \A c \in Clients : Carried(u.sent[c]) = Carried(t.sent[c])
  BY <1>1
<1>3. QED
  BY <1>2, Zenon DEF Handled

(* So purge_workers, which ends every step of mediate, changes nothing in  *)
(* how a message was handled,                                              *)
LEMMA HandledPurged ==
  ASSUME NEW s, NEW p, NEW m, NEW t, Handled(s, p, m, t)
  PROVE  Handled(s, p, m, Purge(t))
<1>1. Stock(t)
  BY DEF Handled
<1>2. QED
  BY <1>1, PurgeIs, HandledStill

(* and neither does a message that carries nothing.                        *)
LEMMA HandledTold ==
  ASSUME NEW s, NEW p, NEW m, NEW t, Handled(s, p, m, t), NEW q \in Peers, NEW k, Msg(k) \in Down(q)
  PROVE  Handled(s, p, m, Sends(t, q, Msg(k)))
<1> DEFINE u == Sends(t, q, Msg(k))
<1>1. Stock(t) /\ Msg(k).r = None
  BY MessageIs DEF Handled
<1>2. /\ Stock(u) /\ u.held = t.held
      /\ \A y \in Peers : Carried(u.sent[y])
           = IF y = q THEN Carried(t.sent[y]) \cup ({Msg(k).r} \ {None}) ELSE Carried(t.sent[y])
  <2> DEFINE told == Msg(k)
  <2>1. Stock(t) /\ told \in Down(q) /\ told.r = None
    BY <1>1
  <2> HIDE DEF told
  <2>2. /\ Stock(Sends(t, q, told)) /\ Sends(t, q, told).held = t.held
        /\ \A y \in Peers : Carried(Sends(t, q, told).sent[y])
             = IF y = q THEN Carried(t.sent[y]) \cup ({told.r} \ {None}) ELSE Carried(t.sent[y])
    <3>1. \A n \in Down(q) : n.r = None => /\ Stock(Sends(t, q, n)) /\ Sends(t, q, n).held = t.held
                                            /\ \A y \in Peers : Carried(Sends(t, q, n).sent[y])
                                                 = IF y = q THEN Carried(t.sent[y]) \cup ({n.r} \ {None})
                                                   ELSE Carried(t.sent[y])
      BY <2>1, SendsIs
    <3>2. QED
      BY <2>1, <3>1
  <2>3. QED
    BY <2>2 DEF told
<1> HIDE DEF u
<1>3. \A y \in Peers : Carried(u.sent[y]) = Carried(t.sent[y])
  BY <1>1, <1>2
<1>4. QED
  BY <1>2, <1>3, HandledStill DEF u

(* A record with no mail yet, and what it comes to.                        *)
LEMMA NoMailIs ==
  ASSUME NEW s, s.sent = NoMail
  PROVE  \A p \in Peers : s.sent[p] = <<>> /\ Carried(s.sent[p]) = {}
BY EmptyIs DEF NoMail

(* To hold what a message of a client carries, and then to send what is    *)
(* held, handles the message.                                              *)
LEMMA OnwardHandled ==
  ASSUME NEW s, Stock(s), s.sent = NoMail, NEW p \in Peers, NEW m, NEW t, NEW u, Onward(t, u),
         \A q \in Peers : Carried(t.sent[q]) = {},
         ToSet(t.held) = ToSet(s.held) \cup Cargo(m),
         p \in Clients \/ Cargo(m) = {}
  PROVE  Handled(s, p, m, u)
<1> DEFINE C == IF p \in Clients THEN Cargo(m) ELSE {}
<1>1. Workers \subseteq Peers /\ Clients \subseteq Peers \ Workers
  BY DownKinds
<1>2. C = Cargo(m)
  OBVIOUS
<1>3. ToSet(t.held) = ToSet(s.held) \cup C
  BY <1>2
<1>4. ToSet(u.held) \subseteq ToSet(s.held) \cup C
  BY <1>3 DEF Onward
<1>5. \A w \in Workers : Carried(u.sent[w]) \subseteq ToSet(s.held) \cup C
  <2>1. \A w \in Peers : Carried(u.sent[w]) \subseteq Carried(t.sent[w]) \cup ToSet(t.held)
    BY DEF Onward
  <2> HIDE DEF C
  <2>2. QED
    BY <1>1, <1>3, <2>1
<1>6. \A c \in Clients : Carried(u.sent[c]) = {}
  <2>1. \A c \in Peers \ Workers : Carried(u.sent[c]) = Carried(t.sent[c])
    BY DEF Onward
  <2>2. QED
    BY <1>1, <2>1
<1>7. \A r \in ToSet(s.held) \cup Cargo(m) : r \in ToSet(u.held) \/ \E q \in Peers : r \in Carried(u.sent[q])
  BY <1>1 DEF Onward
<1>8. Stock(u)
  BY DEF Onward
<1> HIDE DEF C
<1>9. QED
  BY <1>4, <1>5, <1>6, <1>7, <1>8 DEF Handled, C

(* A worker that is not known is registered at the end of the line.        *)
LEMMA EnlistIs ==
  ASSUME NEW s, Stock(s), NEW w \in Workers \ DOMAIN s.known
  PROVE  LET t == [s EXCEPT !.known = With(@, w, NewWorker), !.line = Append(@, w)]
         IN  Stock(t) /\ t.held = s.held /\ t.sent = s.sent
<1> DEFINE k == s.known  l == s.line  h == s.held  x == s.sent
           K == With(k, w, NewWorker)  L == Append(l, w)
           t == [s EXCEPT !.known = With(@, w, NewWorker), !.line = Append(@, w)]
<1>1. s = [known |-> k, line |-> l, held |-> h, sent |-> x]
  BY DEF Stock
<1>2. t = [s EXCEPT !.known = K, !.line = L]
  BY <1>1
<1>3. Workforce(k, l) /\ w \notin DOMAIN k
  BY DEF Stock
<1>4. DOMAIN K = DOMAIN k \cup {w} /\ K[w] = NewWorker /\ \A y \in DOMAIN k : K[y] = k[y]
  <2> HIDE DEF k
  <2>1. /\ DOMAIN K = DOMAIN k \cup {w} /\ K[w] = NewWorker
        /\ \A y \in DOMAIN k \ {w} : K[y] = k[y]
    BY DEF With
  <2> HIDE DEF K
  <2>2. QED
    BY <1>3, <2>1
<1>5. NewWorker \in KnownWorker
  BY MajordomoAssumption DEF NewWorker, KnownWorker
<1>6. L \in Seq(Workers) /\ Once(L) /\ ToSet(L) = ToSet(l) \cup {w}
  BY <1>3, AppendIs DEF Workforce
<1> HIDE DEF k, l, h, x, K, L, t
<1>7. Workforce(K, L)
  BY <1>3, <1>4, <1>5, <1>6 DEF Workforce
<1>8. t = [known |-> K, line |-> L, held |-> h, sent |-> x]
  BY <1>1, <1>2, StockFields
<1>9. /\ t.known = K /\ t.line = L /\ t.held = h /\ t.sent = x
      /\ t = [known |-> t.known, line |-> t.line, held |-> t.held, sent |-> t.sent]
  BY <1>8, StockFields
<1>10. Stock(t)
  BY <1>7, <1>9 DEF Stock, h, x
<1>11. QED
  BY <1>9, <1>10 DEF t, h, x

(* A record that changes in what is known of a worker ...                  *)
LEMMA KnownIs ==
  ASSUME NEW s, Stock(s), NEW w \in DOMAIN s.known, NEW v \in KnownWorker
  PROVE  LET t == [s EXCEPT !.known = [@ EXCEPT ![w] = v]]
         IN  Stock(t) /\ t.held = s.held /\ t.sent = s.sent
<1> DEFINE k == s.known  l == s.line  h == s.held  x == s.sent
           K == [k EXCEPT ![w] = v]
           t == [s EXCEPT !.known = [@ EXCEPT ![w] = v]]
<1>1. s = [known |-> k, line |-> l, held |-> h, sent |-> x]
  BY DEF Stock
<1>2. t = [s EXCEPT !.known = K]
  BY <1>1
<1>3. Workforce(k, l)
  BY DEF Stock
<1>4. Workforce(K, l)
  BY <1>3 DEF Workforce
<1> HIDE DEF k, l, h, x, K, t
<1>5. t = [known |-> K, line |-> l, held |-> h, sent |-> x]
  BY <1>1, <1>2, StockFields
<1>6. /\ t.known = K /\ t.line = l /\ t.held = h /\ t.sent = x
      /\ t = [known |-> t.known, line |-> t.line, held |-> t.held, sent |-> t.sent]
  BY <1>5, StockFields
<1>7. Stock(t)
  BY <1>4, <1>6 DEF Stock, h, x
<1>8. QED
  BY <1>6, <1>7 DEF t, h, x

(* ... and in what it holds.                                               *)
LEMMA HoldIs ==
  ASSUME NEW s, Stock(s), s.sent = NoMail, NEW r \in Requests, r \notin ToSet(s.held)
  PROVE  LET t == [s EXCEPT !.held = Append(@, r)]
         IN  Stock(t) /\ ToSet(t.held) = ToSet(s.held) \cup {r} /\ t.sent = NoMail
<1> DEFINE k == s.known  l == s.line  h == s.held  x == s.sent
           H == Append(h, r)
           t == [s EXCEPT !.held = Append(@, r)]
<1>1. s = [known |-> k, line |-> l, held |-> h, sent |-> x]
  BY DEF Stock
<1>2. t = [s EXCEPT !.held = H]
  BY <1>1
<1>3. h \in Seq(Requests) /\ Once(h)
  BY DEF Stock
<1>4. H \in Seq(Requests) /\ Once(H) /\ ToSet(H) = ToSet(h) \cup {r}
  BY <1>3, AppendIs
<1>5. \A q \in Peers : Carried(x[q]) = {}
  BY NoMailIs
<1> HIDE DEF k, l, h, x, H, t
<1>6. t = [known |-> k, line |-> l, held |-> H, sent |-> x]
  BY <1>1, <1>2, StockFields
<1>7. /\ t.known = k /\ t.line = l /\ t.held = H /\ t.sent = x
      /\ t = [known |-> t.known, line |-> t.line, held |-> t.held, sent |-> t.sent]
  BY <1>6, StockFields
<1>8. /\ Workforce(k, l) /\ x = [q \in Peers |-> x[q]]
      /\ \A q \in Peers : x[q] \in Seq(Down(q)) /\ OnceEach(x[q])
  BY DEF Stock, k, l, x
<1>9. /\ \A q \in Peers : Carried(t.sent[q]) \cap ToSet(t.held) = {}
      /\ \A q, u \in Peers : q # u => Carried(t.sent[q]) \cap Carried(t.sent[u]) = {}
  BY <1>5, <1>7
<1>10. Stock(t)
  BY <1>4, <1>7, <1>8, <1>9 DEF Stock
<1>11. QED
  BY <1>4, <1>7, <1>10 DEF t, h, x

(* Handling a message of a client, ...                                     *)
LEMMA ClientHandled ==
  ASSUME NEW s, Stock(s), s.sent = NoMail, NEW c \in Clients, NEW m \in Up(c), m.r \notin ToSet(s.held)
  PROVE  Handled(s, c, m, FromClient(s, c, m))
<1>1. c \in Peers /\ c \notin Workers /\ Msg("verified") \in Down(c)
  BY DownKinds
<1>2. CASE m = Msg("verify")
  <2>1. Cargo(m) = {} /\ m.type # "request"
    BY <1>2, MessageIs DEF Cargo
  <2>2. Onward(s, s) /\ (\A q \in Peers : Carried(s.sent[q]) = {}) /\ ToSet(s.held) = ToSet(s.held) \cup Cargo(m)
    BY <2>1, NoMailIs DEF Onward
  <2>3. Handled(s, c, m, s)
    BY <1>1, <2>1, <2>2, OnwardHandled
  <2>4. Handled(s, c, m, Sends(s, c, Msg("verified")))
    BY <1>1, <2>3, HandledTold
  <2>5. QED
    BY <2>1, <2>4 DEF FromClient
<1>3. ASSUME NEW r \in Requests, m = Carry("request", r) PROVE Handled(s, c, m, FromClient(s, c, m))
  <2> DEFINE t == [s EXCEPT !.held = Append(@, m.r)]
  <2>1. m.r = r /\ m.type = "request" /\ Cargo(m) = {r}
    BY <1>3, MessageIs, MajordomoAssumption DEF Cargo
  <2>2. Stock(t) /\ ToSet(t.held) = ToSet(s.held) \cup {r} /\ t.sent = NoMail
    BY <2>1, HoldIs
  <2>3. FromClient(s, c, m) = Dispatch(Purge(t))
    BY <2>1 DEF FromClient
  <2> HIDE DEF t
  <2>4. \A q \in Peers : Carried(t.sent[q]) = {}
    BY <2>2, NoMailIs
  <2>5. Onward(t, Purge(t)) /\ Onward(Purge(t), Dispatch(Purge(t)))
    BY <2>2, PurgeOnward, PurgeIs, DispatchIs
  <2>6. Onward(t, Dispatch(Purge(t)))
    BY <2>5, OnwardAgain
  <2>7. Handled(s, c, m, Dispatch(Purge(t)))
    BY <1>1, <2>1, <2>2, <2>4, <2>6, OnwardHandled
  <2>8. QED
    BY <2>3, <2>7
<1>4. m = Msg("verify") \/ \E r \in Requests : m = Carry("request", r)
  BY DEF Up
<1>5. QED
  BY <1>2, <1>3, <1>4

(* ... of a worker that registers, ...                                     *)
LEMMA RegisterHandled ==
  ASSUME NEW s, Stock(s), s.sent = NoMail, NEW w \in Workers, NEW m, Cargo(m) = {}
  PROVE  Handled(s, w, m, Register(s, w))
<1>1. w \in Peers /\ Msg("verified") \in Down(w)
  BY DownKinds
<1>2. CASE w \in DOMAIN s.known
  <2>1. Onward(s, s) /\ (\A q \in Peers : Carried(s.sent[q]) = {}) /\ ToSet(s.held) = ToSet(s.held) \cup Cargo(m)
    BY NoMailIs DEF Onward
  <2>2. Handled(s, w, m, s)
    BY <1>1, <2>1, OnwardHandled
  <2>3. QED
    BY <1>2, <2>2 DEF Register
<1>3. CASE w \notin DOMAIN s.known
  <2> DEFINE t == [s EXCEPT !.known = With(@, w, NewWorker), !.line = Append(@, w)]
  <2>1. Stock(t) /\ t.held = s.held /\ t.sent = s.sent
    BY <1>3, EnlistIs
  <2>2. Register(s, w) = Sends(Dispatch(Purge(t)), w, Msg("verified"))
    BY <1>3 DEF Register
  <2> HIDE DEF t
  <2>3. (\A q \in Peers : Carried(t.sent[q]) = {}) /\ ToSet(t.held) = ToSet(s.held) \cup Cargo(m)
    BY <2>1, NoMailIs
  <2>4. Onward(t, Purge(t)) /\ Onward(Purge(t), Dispatch(Purge(t)))
    BY <2>1, PurgeOnward, PurgeIs, DispatchIs
  <2>5. Onward(t, Dispatch(Purge(t)))
    BY <2>4, OnwardAgain
  <2>6. Handled(s, w, m, Dispatch(Purge(t)))
    BY <1>1, <2>3, <2>5, OnwardHandled
  <2>7. QED
    BY <1>1, <2>2, <2>6, HandledTold
<1>4. QED
  BY <1>2, <1>3

(* ... of one that sends a heartbeat, ...                                  *)
LEMMA HeartbeatHandled ==
  ASSUME NEW s, Stock(s), s.sent = NoMail, NEW w \in Workers, NEW m, Cargo(m) = {}
  PROVE  Handled(s, w, m, Heartbeat(s, w))
<1>1. w \in Peers /\ Msg("disconnect") \in Down(w)
  BY DownKinds
<1>2. \A q \in Peers : Carried(s.sent[q]) = {}
  BY NoMailIs
<1>3. Handled(s, w, m, s)
  BY <1>1, <1>2, OnwardHandled DEF Onward
<1>4. CASE w \in DOMAIN s.known
  <2> DEFINE v == Heard(s.known[w])  t == [s EXCEPT !.known = [@ EXCEPT ![w] = v]]
  <2>1. v \in KnownWorker
    <3>1. s.known[w] \in KnownWorker
      BY <1>4 DEF Stock, Workforce
    <3>2. QED
      BY <3>1, MajordomoAssumption DEF Heard, KnownWorker
  <2>2. Heartbeat(s, w) = t
    BY <1>4 DEF Heartbeat
  <2> HIDE DEF v
  <2>3. Stock(t) /\ t.held = s.held /\ t.sent = s.sent
    BY <1>4, <2>1, KnownIs
  <2> HIDE DEF t
  <2>4. QED
    BY <1>3, <2>2, <2>3, HandledStill
<1>5. CASE w \notin DOMAIN s.known
  <2>1. Heartbeat(s, w) = Sends(s, w, Msg("disconnect"))
    BY <1>5 DEF Heartbeat
  <2>2. QED
    BY <1>1, <1>3, <2>1, HandledTold
<1>6. QED
  BY <1>4, <1>5

(* ... and of one that answers.                                            *)
LEMMA ReplyHandled ==
  ASSUME NEW s, Stock(s), s.sent = NoMail, NEW w \in Workers, NEW r \in Requests, r \notin ToSet(s.held)
  PROVE  Handled(s, w, Carry("reply", r), Sends(s, ClientOf[r], Carry("reply", r)))
<1> DEFINE m == Carry("reply", r)  c == ClientOf[r]  t == Sends(s, c, m)
<1>1. m.r = r /\ Cargo(m) = {r}
  BY MessageIs, MajordomoAssumption DEF Cargo
<1>2. c \in Clients
  BY MajordomoAssumption
<1>3. c \in Peers /\ m \in Down(c) /\ w \notin Clients /\ Clients \subseteq Peers /\ \A y \in Workers : y \in Peers /\ y # c
  BY <1>2, DownKinds
<1>4. \A q \in Peers : Carried(s.sent[q]) = {}
  BY NoMailIs
<1> HIDE DEF m, c
<1>5. /\ Stock(t) /\ t.held = s.held
      /\ \A q \in Peers : Carried(t.sent[q])
           = IF q = c THEN Carried(s.sent[q]) \cup ({m.r} \ {None}) ELSE Carried(s.sent[q])
  <2>1. m.r \notin ToSet(s.held) /\ \A q \in Peers : m.r \notin Carried(s.sent[q])
    BY <1>1, <1>4
  <2>2. c \in Peers /\ m \in Down(c)
    BY <1>3
  <2>3. QED
    BY <2>1, <2>2, SendsIs
<1> HIDE DEF t
<1>6. \A q \in Peers : Carried(t.sent[q]) = IF q = c THEN Cargo(m) ELSE {}
  BY <1>4, <1>5 DEF Cargo
<1>7. Handled(s, w, m, t)
  BY <1>1, <1>3, <1>5, <1>6 DEF Handled
<1>8. QED
  BY <1>7 DEF t, m, c

(* A broker handles every message that peers send: process_client_message  *)
(* and process_worker_message, with what they dispatch, neither double nor *)
(* drop a request.                                                         *)
LEMMA ProcessHandled ==
  ASSUME NEW s, Stock(s), s.sent = NoMail, NEW p \in Peers, NEW m \in Up(p), m.r \notin ToSet(s.held)
  PROVE  Handled(s, p, m, Purge(Process(s, p, m)))
<1>1. CASE p \in Clients
  BY <1>1, ClientHandled, HandledPurged DEF Process
<1>2. CASE p \notin Clients
  <2>1. p \in Workers
    BY <1>2, DownKinds
  <2>2. Handled(s, p, m, FromWorker(s, p, m))
    <3>1. CASE m = Msg("verify")
      <4>1. m.type = "verify" /\ Cargo(m) = {}
        BY <3>1, MessageIs DEF Cargo
      <4>2. QED
        BY <2>1, <4>1, RegisterHandled DEF FromWorker
    <3>2. CASE m = Msg("heartbeat")
      <4>1. m.type = "heartbeat" /\ Cargo(m) = {}
        BY <3>2, MessageIs DEF Cargo
      <4>2. QED
        BY <2>1, <4>1, HeartbeatHandled DEF FromWorker
    <3>3. ASSUME NEW r \in Requests, m = Carry("reply", r) PROVE Handled(s, p, m, FromWorker(s, p, m))
      <4>1. m.r = r /\ m.type = "reply"
        BY <3>3, MessageIs
      <4>2. FromWorker(s, p, m) = Sends(s, ClientOf[r], m)
        BY <4>1 DEF FromWorker
      <4>3. QED
        BY <2>1, <3>3, <4>1, <4>2, ReplyHandled
    <3>4. QED
      BY <1>2, <3>1, <3>2, <3>3 DEF Up
  <2>3. QED
    BY <1>2, <2>2, HandledPurged DEF Process
<1>3. QED
  BY <1>1, <1>2

-----------------------------------------------------------------------------
(* Every place is on a queue, with a broker, on a socket or inside a       *)
(* worker.                                                                 *)
LEMMA PlaceIs ==
  /\ \A p \in Peers : OnQueue(p) \in Place
  /\ \A b \in Brokers : HeldBy(b) \in Place
  /\ \A b \in Brokers, p \in Peers : To(b, p) \in Place /\ From(b, p) \in Place
  /\ \A w \in Workers : Inside(w) \in Place
  /\ \A x \in Place : \/ \E p \in Peers : x = OnQueue(p)
                      \/ \E b \in Brokers : x = HeldBy(b)
                      \/ \E b \in Brokers, p \in Peers : x = To(b, p)
                      \/ \E b \in Brokers, p \in Peers : x = From(b, p)
                      \/ \E w \in Workers : x = Inside(w)
BY DEF Place

(* Places of different kinds, or of different processes, differ.           *)
LEMMA Apart ==
  /\ \A p, q : (OnQueue(p) = OnQueue(q) => p = q) /\ (HeldBy(p) = HeldBy(q) => p = q)
               /\ (Inside(p) = Inside(q) => p = q)
  /\ \A b, c, p, q : /\ To(b, p) = To(c, q) => b = c /\ p = q
                     /\ From(b, p) = From(c, q) => b = c /\ p = q
                     /\ To(b, p) # From(c, q)
  /\ \A b, c, p : /\ OnQueue(p) # HeldBy(b) /\ OnQueue(p) # To(b, c) /\ OnQueue(p) # From(b, c) /\ OnQueue(p) # Inside(b)
                  /\ HeldBy(p) # To(b, c) /\ HeldBy(p) # From(b, c) /\ HeldBy(p) # Inside(b)
                  /\ Inside(p) # To(b, c) /\ Inside(p) # From(b, c)
BY DEF OnQueue, HeldBy, To, From, Inside

(* What is at each place ...                                               *)
LEMMA LoadIs ==
  /\ \A p : Load(OnQueue(p)) = ToSet(out[p])
  /\ \A b : Load(HeldBy(b)) = ToSet(broker[b].held)
  /\ \A b, p : Load(To(b, p)) = Carried(toB[b][p]) /\ Load(From(b, p)) = Carried(fromB[b][p])
  /\ \A w : Load(Inside(w)) = {r \in Requests : <<w, r>> \in inside}
BY DEF Load, OnQueue, HeldBy, To, From, Inside

(* ... and after a step.                                                   *)
LEMMA LoadNext ==
  /\ \A p : Load(OnQueue(p))' = ToSet(out'[p])
  /\ \A b : Load(HeldBy(b))' = ToSet(broker'[b].held)
  /\ \A b, p : Load(To(b, p))' = Carried(toB'[b][p]) /\ Load(From(b, p))' = Carried(fromB'[b][p])
  /\ \A w : Load(Inside(w))' = {r \in Requests : <<w, r>> \in inside'}
BY DEF Load, OnQueue, HeldBy, To, From, Inside

(* Outbound queues that stay as they are hold the same requests ...        *)
LEMMA QueuesStay == out' = out => \A p : Load(OnQueue(p))' = Load(OnQueue(p))
  BY LoadIs, LoadNext

(* ... and so do brokers ...                                               *)
LEMMA RecordsStay == broker' = broker => \A b : Load(HeldBy(b))' = Load(HeldBy(b))
  BY LoadIs, LoadNext

(* ... the sockets to brokers ...                                          *)
LEMMA UplinksStay == toB' = toB => \A b, p : Load(To(b, p))' = Load(To(b, p))
  BY LoadIs, LoadNext

(* ... the sockets from them ...                                           *)
LEMMA DownlinksStay == fromB' = fromB => \A b, p : Load(From(b, p))' = Load(From(b, p))
  BY LoadIs, LoadNext

(* ... and workers.                                                        *)
LEMMA InsideStay == inside' = inside => \A w : Load(Inside(w))' = Load(Inside(w))
  BY LoadIs, LoadNext

(* Queues of workers, what is inside them, and sockets from them and to    *)
(* clients are on the way back.                                            *)
LEMMA DoneIs ==
  /\ \A w \in Workers : Done(OnQueue(w)) = 1 /\ Done(Inside(w)) = 1
  /\ \A c \in Clients : Done(OnQueue(c)) = 0
  /\ \A b \in Brokers : /\ Done(HeldBy(b)) = 0
                        /\ \A w \in Workers : Done(To(b, w)) = 1 /\ Done(From(b, w)) = 0
                        /\ \A c \in Clients : Done(To(b, c)) = 0 /\ Done(From(b, c)) = 1
<1>1. \A x : Done(x) = IF x \in WayBack THEN 1 ELSE 0
  BY DEF Done
<1>2. /\ \A w \in Workers : OnQueue(w) \in WayBack /\ Inside(w) \in WayBack
      /\ \A b \in Brokers, w \in Workers : To(b, w) \in WayBack
      /\ \A b \in Brokers, c \in Clients : From(b, c) \in WayBack
  BY DEF WayBack
<1>3. Workers \cap Clients = {}
  BY MajordomoAssumption
<1>4. /\ \A c \in Clients : OnQueue(c) \notin WayBack
      /\ \A b \in Brokers : HeldBy(b) \notin WayBack
      /\ \A b \in Brokers, w \in Workers : From(b, w) \notin WayBack
      /\ \A b \in Brokers, c \in Clients : To(b, c) \notin WayBack
  BY <1>3, Apart DEF WayBack
<1>5. QED
  BY <1>1, <1>2, <1>4

-----------------------------------------------------------------------------
(* How accounts are kept: what is at a place after a step was before, at a *)
(* place as far on its way, and is at no other; what is at none is lost.   *)
LEMMA Moved ==
  ASSUME NEW r \in Requests, Accounted(r), NEW D,
         runs'[r] = runs[r], fate'[r] = IF r \in D THEN "lost" ELSE fate[r],
         \A y \in Place : r \in Load(y)' => r \notin D /\ \E x \in Place : r \in Load(x) /\ Done(x) = Done(y),
         \A x, y \in Place : r \in Load(x)' /\ r \in Load(y)' => x = y,
         \A x \in Place : r \in Load(x) /\ r \notin D => \E y \in Place : r \in Load(y)'
  PROVE  Accounted(r)'
<1>1. /\ fate[r] = "open" <=> \E x \in Place : r \in Load(x)
      /\ \A x \in Place : r \in Load(x) => runs[r] = Done(x)
      /\ fate[r] \in Fates /\ runs[r] \in {0, 1}
      /\ fate[r] = "new" => runs[r] = 0
      /\ fate[r] = "answered" => runs[r] = 1
  BY DEF Accounted
<1>2. fate'[r] = "open" <=> \E x \in Place : r \in Load(x)'
  BY <1>1
<1>3. \A y \in Place : r \in Load(y)' => runs'[r] = Done(y)
  BY <1>1
<1>4. /\ fate'[r] \in Fates /\ runs'[r] \in {0, 1}
      /\ fate'[r] = "new" => runs'[r] = 0
      /\ fate'[r] = "answered" => runs'[r] = 1
  BY <1>1 DEF Fates
<1>5. QED
  BY <1>2, <1>3, <1>4, Zenon DEF Accounted

(* One request moves on, ...                                               *)
LEMMA OneMoves ==
  ASSUME \A q \in Requests : Accounted(q), UNCHANGED <<fate, runs>>,
         NEW x0 \in Place, NEW y0 \in Place, NEW r \in Load(x0), Done(x0) = Done(y0), x0 # y0,
         \A x \in Place : Load(x)' = IF x = x0 THEN Load(x) \ {r} ELSE IF x = y0 THEN Load(x) \cup {r} ELSE Load(x)
  PROVE  \A q \in Requests : Accounted(q)'
<1> SUFFICES ASSUME NEW q \in Requests PROVE Accounted(q)'
  OBVIOUS
<1>1. Accounted(q) /\ runs'[q] = runs[q] /\ fate'[q] = IF q \in {} THEN "lost" ELSE fate[q]
  OBVIOUS
<1>2. \A x, y \in Place : q \in Load(x) /\ q \in Load(y) => x = y
  BY <1>1 DEF Accounted
<1>3. CASE q = r
  <2>1. \A y \in Place : q \in Load(y)' <=> y = y0
    BY <1>2, <1>3
  <2>2. QED
    BY <1>1, <1>3, <2>1, Moved
<1>4. CASE q # r
  <2>1. \A y \in Place : q \in Load(y)' <=> q \in Load(y)
    BY <1>4
  <2>2. QED
    BY <1>1, <1>2, <2>1, Moved
<1>5. QED
  BY <1>3, <1>4

(* ... none does, ...                                                      *)
LEMMA NoneMoves ==
  ASSUME \A q \in Requests : Accounted(q), UNCHANGED <<fate, runs>>, \A x \in Place : Load(x)' = Load(x)
  PROVE  \A q \in Requests : Accounted(q)'
<1> SUFFICES ASSUME NEW q \in Requests PROVE Accounted(q)'
  OBVIOUS
<1> DEFINE D == {}
<1>1. Accounted(q) /\ runs'[q] = runs[q] /\ fate'[q] = IF q \in D THEN "lost" ELSE fate[q]
  OBVIOUS
<1>2. \A x, y \in Place : q \in Load(x) /\ q \in Load(y) => x = y
  BY <1>1 DEF Accounted
<1>3. \A y \in Place : q \in Load(y)' <=> q \in Load(y)
  OBVIOUS
<1> HIDE DEF D
<1>4. \A y \in Place : q \in Load(y)' => q \notin D /\ \E x \in Place : q \in Load(x) /\ Done(x) = Done(y)
  BY <1>3 DEF D
<1>5. \A x, y \in Place : q \in Load(x)' /\ q \in Load(y)' => x = y
  BY <1>2, <1>3
<1>6. \A x \in Place : q \in Load(x) /\ q \notin D => \E y \in Place : q \in Load(y)'
  BY <1>3
<1>7. QED
  BY <1>1, <1>4, <1>5, <1>6, Moved

(* ... or all that is at some places is lost.                              *)
LEMMA SomeLost ==
  ASSUME \A q \in Requests : Accounted(q), NEW D, fate' = LostAlso(D), UNCHANGED runs, NEW Gone,
         \A x \in Place : Load(x)' = IF x \in Gone THEN {} ELSE Load(x),
         \A q \in Requests : q \in D <=> \E x \in Place \cap Gone : q \in Load(x)
  PROVE  \A q \in Requests : Accounted(q)'
<1> SUFFICES ASSUME NEW q \in Requests PROVE Accounted(q)'
  OBVIOUS
<1>1. Accounted(q) /\ runs'[q] = runs[q] /\ fate'[q] = IF q \in D THEN "lost" ELSE fate[q]
  BY DEF LostAlso
<1>2. \A x, y \in Place : q \in Load(x) /\ q \in Load(y) => x = y
  BY <1>1 DEF Accounted
<1>3. \A y \in Place : q \in Load(y)' <=> q \in Load(y) /\ q \notin D
  BY <1>2
<1>4. \A y \in Place : q \in Load(y)' => q \notin D /\ \E x \in Place : q \in Load(x) /\ Done(x) = Done(y)
  BY <1>3
<1>5. \A x, y \in Place : q \in Load(x)' /\ q \in Load(y)' => x = y
  BY <1>2, <1>3
<1>6. \A x \in Place : q \in Load(x) /\ q \notin D => \E y \in Place : q \in Load(y)'
  BY <1>3
<1>7. QED
  BY <1>1, <1>4, <1>5, <1>6, Moved

-----------------------------------------------------------------------------
(* Managers keep their type: a manager put together from fields that are   *)
(* of their types, ...                                                     *)
LEMMA TypedIs ==
  ASSUME NEW m, NEW u, NEW v, NEW k, NEW w,
         m = [unverified |-> u, verified |-> v, pointer |-> k, wait |-> w],
         u = [b \in DOMAIN u |-> u[b]], DOMAIN u \subseteq Brokers, \A b \in DOMAIN u : u[b] \in Connector,
         v \subseteq Brokers, k \in -1 .. Cardinality(Brokers) - 1, w \in 0 .. WaitCalls
  PROVE  Typed(m)
<1>1. m.unverified = u /\ m.verified = v /\ m.pointer = k /\ m.wait = w
  OBVIOUS
<1>2. m = [unverified |-> m.unverified, verified |-> m.verified, pointer |-> m.pointer, wait |-> m.wait]
  BY <1>1
<1>3. QED
  BY <1>1, <1>2, Zenon DEF Typed

(* ... and one that changes in some of them.                               *)
LEMMA ManagerFields ==
  ASSUME NEW u, NEW v, NEW k, NEW w, NEW m,
         m = [unverified |-> u, verified |-> v, pointer |-> k, wait |-> w]
  PROVE  /\ \A y : [m EXCEPT !.unverified = y] = [unverified |-> y, verified |-> v, pointer |-> k, wait |-> w]
         /\ \A y : [m EXCEPT !.pointer = y] = [unverified |-> u, verified |-> v, pointer |-> y, wait |-> w]
         /\ \A y, z : [m EXCEPT !.unverified = y, !.verified = z]
                        = [unverified |-> y, verified |-> z, pointer |-> k, wait |-> w]
         /\ \A y, z : [m EXCEPT !.unverified = y, !.wait = z]
                        = [unverified |-> y, verified |-> v, pointer |-> k, wait |-> z]
<1>1. ASSUME NEW y
      PROVE  /\ [m EXCEPT !.unverified = y] = [unverified |-> y, verified |-> v, pointer |-> k, wait |-> w]
             /\ [m EXCEPT !.pointer = y] = [unverified |-> u, verified |-> v, pointer |-> y, wait |-> w]
  OBVIOUS
<1>2. ASSUME NEW y, NEW z
      PROVE  [m EXCEPT !.unverified = y, !.verified = z] = [unverified |-> y, verified |-> z, pointer |-> k, wait |-> w]
  <2>1. ASSUME NEW t, t = [[unverified |-> u, verified |-> v, pointer |-> k, wait |-> w]
                             EXCEPT !.unverified = y, !.verified = z]
        PROVE  t = [unverified |-> y, verified |-> z, pointer |-> k, wait |-> w]
    BY <2>1
  <2>2. QED
    BY <2>1
<1>3. ASSUME NEW y, NEW z
      PROVE  [m EXCEPT !.unverified = y, !.wait = z] = [unverified |-> y, verified |-> v, pointer |-> k, wait |-> z]
  <2>1. ASSUME NEW t, t = [[unverified |-> u, verified |-> v, pointer |-> k, wait |-> w]
                             EXCEPT !.unverified = y, !.wait = z]
        PROVE  t = [unverified |-> y, verified |-> v, pointer |-> k, wait |-> z]
    BY <2>1
  <2>2. QED
    BY <2>1
<1>4. \A y : [m EXCEPT !.unverified = y] = [unverified |-> y, verified |-> v, pointer |-> k, wait |-> w]
  BY <1>1
<1>5. \A y : [m EXCEPT !.pointer = y] = [unverified |-> u, verified |-> v, pointer |-> y, wait |-> w]
  BY <1>1
<1>6. \A y, z : [m EXCEPT !.unverified = y, !.verified = z]
                  = [unverified |-> y, verified |-> z, pointer |-> k, wait |-> w]
  BY <1>2
<1>7. \A y, z : [m EXCEPT !.unverified = y, !.wait = z]
                  = [unverified |-> y, verified |-> v, pointer |-> k, wait |-> z]
  BY <1>3
<1>8. QED
  BY <1>4, <1>5, <1>6, <1>7

(* A new manager has its type.                                             *)
LEMMA NewManagerTyped == Typed(NewManager)
<1> DEFINE u == [b \in {} |-> 0]
<1>1. NewManager = [unverified |-> u, verified |-> {}, pointer |-> -1, wait |-> WaitCalls]
  BY DEF NewManager
<1>2. u = [b \in DOMAIN u |-> u[b]] /\ DOMAIN u = {}
  OBVIOUS
<1>3. Cardinality(Brokers) \in Nat
  BY MajordomoAssumption, FS_CardinalityType
<1>4. -1 \in -1 .. Cardinality(Brokers) - 1 /\ WaitCalls \in 0 .. WaitCalls
  BY <1>3, ManagerAssumption
<1> HIDE DEF u
<1>5. QED
  BY <1>1, <1>2, <1>4, TypedIs

(* A manager that is told of a broker keeps its type, ...                  *)
LEMMA ConnectTyped ==
  ASSUME NEW m, Typed(m), NEW b \in Brokers PROVE Typed(Connect(m, b))
<1> DEFINE u == m.unverified  v == m.verified  k == m.pointer  w == m.wait
           n == [x \in DOMAIN u \cup {b} |-> IF x = b THEN NewConnector ELSE u[x]]
<1>1. m = [unverified |-> u, verified |-> v, pointer |-> k, wait |-> w]
  BY DEF Typed
<1>2. Connect(m, b) = m \/ Connect(m, b) = [m EXCEPT !.unverified = n]
  BY <1>1 DEF Connect
<1>3. NewConnector \in Connector
  BY ManagerAssumption DEF NewConnector, Connector
<1>4. n = [x \in DOMAIN n |-> n[x]] /\ DOMAIN n \subseteq Brokers /\ \A x \in DOMAIN n : n[x] \in Connector
  BY <1>3 DEF Typed
<1>5. v \subseteq Brokers /\ k \in -1 .. Cardinality(Brokers) - 1 /\ w \in 0 .. WaitCalls
  BY DEF Typed
<1> HIDE DEF u, v, k, w, n
<1>6. Connect(m, b) = m \/ Connect(m, b) = [unverified |-> n, verified |-> v, pointer |-> k, wait |-> w]
  BY <1>1, <1>2, ManagerFields
<1>7. QED
  BY <1>4, <1>5, <1>6, TypedIs

(* ... one that a broker answers or sends away too, ...                    *)
LEMMA WithoutTyped ==
  ASSUME NEW m, Typed(m), NEW b \in Brokers PROVE Typed(Verify(m, b)) /\ Typed(Disconnect(m, b))
<1> DEFINE u == m.unverified  v == m.verified  k == m.pointer  w == m.wait
           n == Restrict(u, DOMAIN u \ {b})
<1>1. m = [unverified |-> u, verified |-> v, pointer |-> k, wait |-> w]
  BY DEF Typed
<1>2. Verify(m, b) = m \/ Verify(m, b) = [m EXCEPT !.unverified = n, !.verified = v \cup {b}]
  BY <1>1 DEF Verify
<1>3. Disconnect(m, b) = [m EXCEPT !.unverified = n, !.verified = v \ {b}]
  BY <1>1 DEF Disconnect
<1>4. n = [x \in DOMAIN n |-> n[x]] /\ DOMAIN n \subseteq Brokers /\ \A x \in DOMAIN n : n[x] \in Connector
  BY DEF Typed, Restrict
<1>5. v \subseteq Brokers /\ k \in -1 .. Cardinality(Brokers) - 1 /\ w \in 0 .. WaitCalls
  BY DEF Typed
<1> HIDE DEF u, v, k, w, n
<1>6. Verify(m, b) = m \/ Verify(m, b) = [unverified |-> n, verified |-> v \cup {b}, pointer |-> k, wait |-> w]
  BY <1>1, <1>2, ManagerFields
<1>7. Disconnect(m, b) = [unverified |-> n, verified |-> v \ {b}, pointer |-> k, wait |-> w]
  BY <1>1, <1>3, ManagerFields
<1>8. v \cup {b} \subseteq Brokers /\ v \ {b} \subseteq Brokers
  BY <1>5
<1>9. Typed(Verify(m, b))
  BY <1>4, <1>5, <1>6, <1>8, TypedIs
<1>10. Typed(Disconnect(m, b))
  BY <1>4, <1>5, <1>7, <1>8, TypedIs
<1>11. QED
  BY <1>9, <1>10

(* ... and one that takes a turn of verify_brokers.                        *)
LEMMA RequestsTyped ==
  ASSUME NEW m, Typed(m) PROVE Typed(AfterRequests(m))
<1> DEFINE u == m.unverified  v == m.verified  k == m.pointer  w == m.wait
           n == [b \in Connected(m) \ (Hopeless(m) \cup m.verified) |-> Attempt(m.unverified[b])]
           x == IF w > 0 THEN w - 1 ELSE IF Asked(m) # {} THEN WaitCalls ELSE 0
<1>1. m = [unverified |-> u, verified |-> v, pointer |-> k, wait |-> w]
  BY DEF Typed
<1>2. AfterRequests(m) = [m EXCEPT !.unverified = n, !.wait = x]
  BY <1>1, Zenon DEF AfterRequests
<1>3. DOMAIN n \subseteq DOMAIN u \ Hopeless(m)
  BY DEF Connected
<1>4. ASSUME NEW b \in DOMAIN u \ Hopeless(m) PROVE Attempt(u[b]) \in Connector
  <2>1. u[b] \in Connector
    BY <1>4 DEF Typed
  <2>2. u[b].tries >= Attempts => u[b].reconnects < Reconnects
    BY <1>4, <2>1, ManagerAssumption DEF Hopeless, Spent, Connector
  <2> HIDE DEF u
  <2>3. QED
    BY <2>1, <2>2, ManagerAssumption DEF Attempt, Connector
<1>5. n = [b \in DOMAIN n |-> n[b]] /\ \A b \in DOMAIN n : n[b] \in Connector
  BY <1>3, <1>4
<1>6. /\ v \subseteq Brokers /\ k \in -1 .. Cardinality(Brokers) - 1 /\ x \in 0 .. WaitCalls
      /\ DOMAIN u \subseteq Brokers
  BY ManagerAssumption DEF Typed
<1> HIDE DEF u, v, k, w, n, x
<1>7. AfterRequests(m) = [unverified |-> n, verified |-> v, pointer |-> k, wait |-> x]
  BY <1>1, <1>2, ManagerFields
<1>8. QED
  BY <1>3, <1>5, <1>6, <1>7, TypedIs

(* The next broker of those that have answered is one of them: the pointer *)
(* may stand anywhere, the ranks below the number of brokers are all taken.*)
LEMMA NextBrokerIs ==
  ASSUME NEW m, Typed(m), m.verified # {}
  PROVE  NextBroker(m) \in m.verified /\ Typed(Advance(m))
<1> DEFINE u == m.unverified  v == m.verified  k == m.pointer  w == m.wait
           n == Cardinality(v)  i == NextIndex(m)
<1>1. v \subseteq Brokers /\ IsFiniteSet(v) /\ n \in Nat /\ n <= Cardinality(Brokers) /\ Cardinality(Brokers) \in Nat
  BY MajordomoAssumption, FS_Subset, FS_CardinalityType DEF Typed
<1>2. n # 0
  BY <1>1, FS_EmptySet
<1>3. k \in -1 .. Cardinality(Brokers) - 1
  BY DEF Typed
<1>4. i \in 0 .. n - 1
  <2>1. i = IF k + 1 >= n THEN 0 ELSE k + 1
    BY DEF NextIndex
  <2> HIDE DEF n, k, i
  <2>2. QED
    BY <1>1, <1>2, <1>3, <2>1
<1>5. \A x, y \in v : Rank[x] \in Int /\ (Rank[x] = Rank[y] => x = y)
  BY <1>1, MajordomoAssumption
<1>6. NextBroker(m) \in v
  <2> HIDE DEF i, v
  <2>1. \E x \in v : Below(v, Rank, x) = i
    BY <1>1, <1>4, <1>5, Ranked
  <2>2. \E x \in v : Cardinality({c \in v : Rank[c] < Rank[x]}) = i
    BY <2>1 DEF Below
  <2>3. NextBroker(m) = CHOOSE b \in v : Cardinality({c \in v : Rank[c] < Rank[b]}) = i
    BY DEF NextBroker, i, v
  <2>4. QED
    BY <2>2, <2>3
<1>7. m = [unverified |-> u, verified |-> v, pointer |-> k, wait |-> w]
  BY DEF Typed
<1>8. Advance(m) = [m EXCEPT !.pointer = i]
  BY DEF Advance
<1>9. /\ u = [b \in DOMAIN u |-> u[b]] /\ DOMAIN u \subseteq Brokers /\ \A b \in DOMAIN u : u[b] \in Connector
      /\ w \in 0 .. WaitCalls
  BY DEF Typed
<1> HIDE DEF u, v, k, w, i
<1>10. Advance(m) = [unverified |-> u, verified |-> v, pointer |-> i, wait |-> w]
  BY <1>7, <1>8, ManagerFields
<1>11. i \in -1 .. Cardinality(Brokers) - 1
  BY <1>1, <1>4
<1>12. Typed(Advance(m))
  BY <1>1, <1>9, <1>10, <1>11, TypedIs
<1>13. QED
  BY <1>6, <1>12 DEF v

-----------------------------------------------------------------------------
(* When one outbound queue changes, the others stay.                       *)
LEMMA OutSet ==
  ASSUME Outbound, NEW p \in Peers, NEW v \in Seq(Requests), Once(v), out' = [out EXCEPT ![p] = v]
  PROVE  Outbound' /\ out'[p] = v /\ \A q \in Peers \ {p} : out'[q] = out[q]
<1>1. out = [q \in Peers |-> out[q]]
  BY DEF Outbound
<1>2. out' = [q \in Peers |-> out'[q]] /\ out'[p] = v /\ \A q \in Peers \ {p} : out'[q] = out[q]
  <2> DEFINE f == out  g == out'
  <2>1. f = [q \in Peers |-> f[q]] /\ g = [f EXCEPT ![p] = v]
    BY <1>1
  <2> HIDE DEF f, g
  <2>2. g = [q \in Peers |-> g[q]]
    <3>1. g = [q \in Peers |-> IF q = p THEN v ELSE f[q]]
      BY <2>1
    <3>2. \A q \in Peers : g[q] = IF q = p THEN v ELSE f[q]
      BY <3>1
    <3>3. QED
      BY <3>1, <3>2
  <2>3. g[p] = v /\ \A q \in Peers \ {p} : g[q] = f[q]
    BY <2>1
  <2>4. QED
    BY <2>2, <2>3 DEF f, g
<1>3. QED
  BY <1>2 DEF Outbound

(* What is on the sockets between b and p is now v.                        *)
Swapped(links, b, p, v) == [links EXCEPT ![b][p] = v]

(* When what one peer has sent to one broker changes, the rest stays.      *)
LEMMA UplinkSet ==
  ASSUME Uplinks, NEW b \in Brokers, NEW p \in Peers, NEW v \in Seq(Up(p)), OnceEach(v),
         toB' = Swapped(toB, b, p, v)
  PROVE  /\ Uplinks' /\ toB'[b][p] = v
         /\ \A c \in Brokers, q \in Peers : c # b \/ q # p => toB'[c][q] = toB[c][q]
<1>1. toB = [c \in Brokers |-> [q \in Peers |-> toB[c][q]]]
  BY DEF Uplinks
<1>2. /\ toB' = [c \in Brokers |-> [q \in Peers |-> toB'[c][q]]] /\ toB'[b][p] = v
      /\ \A c \in Brokers, q \in Peers : c # b \/ q # p => toB'[c][q] = toB[c][q]
  BY <1>1 DEF Swapped
<1>3. \A c \in Brokers, q \in Peers : toB'[c][q] \in Seq(Up(q)) /\ OnceEach(toB'[c][q])
  BY <1>2 DEF Uplinks
<1>4. QED
  BY <1>2, <1>3 DEF Uplinks, Up, Msg, Carry, OnceEach

(* When what one broker has sent to one peer changes, the rest stays.      *)
LEMMA DownlinkSet ==
  ASSUME Downlinks, NEW b \in Brokers, NEW p \in Peers, NEW v \in Seq(Down(p)), OnceEach(v),
         fromB' = Swapped(fromB, b, p, v)
  PROVE  /\ Downlinks' /\ fromB'[b][p] = v
         /\ \A c \in Brokers, q \in Peers : c # b \/ q # p => fromB'[c][q] = fromB[c][q]
<1>1. fromB = [c \in Brokers |-> [q \in Peers |-> fromB[c][q]]]
  BY DEF Downlinks
<1>2. /\ fromB' = [c \in Brokers |-> [q \in Peers |-> fromB'[c][q]]] /\ fromB'[b][p] = v
      /\ \A c \in Brokers, q \in Peers : c # b \/ q # p => fromB'[c][q] = fromB[c][q]
  BY <1>1 DEF Swapped
<1>3. \A c \in Brokers, q \in Peers : fromB'[c][q] \in Seq(Down(q)) /\ OnceEach(fromB'[c][q])
  BY <1>2 DEF Downlinks
<1>4. QED
  BY <1>2, <1>3 DEF Downlinks, Down, Msg, Carry, OnceEach

(* When the record of one broker changes, the others stay.                 *)
LEMMA RecordSet ==
  ASSUME Records, NEW b \in Brokers, NEW s, Stock(s), s.sent = NoMail, broker' = [broker EXCEPT ![b] = s]
  PROVE  Records' /\ broker'[b] = s /\ \A c \in Brokers \ {b} : broker'[c] = broker[c]
<1>1. broker = [c \in Brokers |-> broker[c]]
  BY DEF Records
<1>2. broker' = [c \in Brokers |-> broker'[c]] /\ broker'[b] = s /\ \A c \in Brokers \ {b} : broker'[c] = broker[c]
  BY <1>1
<1>3. \A c \in Brokers : Stock(broker'[c]) /\ broker'[c].sent = NoMail
  BY <1>2 DEF Records
<1>4. QED
  BY <1>2, <1>3 DEF Records

(* What changes nothing that a request could be at.                        *)
LEMMA NothingUnderWay ==
  ASSUME MInv, UNCHANGED <<broker, toB, fromB, out, origin, inside, fate, runs>>
  PROVE  Queues' /\ Accounts' /\ Origins'
<1>1. Outbound' /\ Uplinks' /\ Downlinks' /\ Records'
  BY DEF MInv, Queues, Outbound, Uplinks, Downlinks, Records
<1>2. \A x \in Place : Load(x)' = Load(x)
  BY DEF Load
<1>3. \A r \in Requests : Accounted(r)'
  BY <1>2, NoneMoves DEF MInv, Accounts
<1>4. Accounts'
  BY <1>3 DEF MInv, Accounts
<1>5. Origins'
  BY DEF MInv, Origins
<1>6. QED
  BY <1>1, <1>4, <1>5 DEF Queues

(* When the manager of one peer changes to another of its type, managers   *)
(* keep theirs.                                                            *)
LEMMA ManagerSet ==
  ASSUME Peered, NEW p \in Peers, NEW m, Typed(m), mgr' = [mgr EXCEPT ![p] = m],
         alive' = alive, ready' \subseteq Peers \X Brokers, hurries' \in 0 .. MaxHurries
  PROVE  Peered'
<1>1. mgr' = [q \in Peers |-> mgr'[q]] /\ \A q \in Peers : Typed(mgr'[q])
  BY DEF Peered
<1>2. QED
  BY <1>1 DEF Peered

(* When no manager changes and no process starts, managers keep their type.*)
LEMMA ManagersSame ==
  ASSUME Peered, mgr' = mgr, alive' \subseteq alive, ready' \subseteq Peers \X Brokers, hurries' \in 0 .. MaxHurries
  PROVE  Peered'
BY DEF Peered

-----------------------------------------------------------------------------
(* The registration service tells a peer of a broker: no request moves.    *)
LEMMA AnnounceKeeps ==
  ASSUME MInv, NEW p \in Peers, NEW b \in Brokers, Announce(p, b) PROVE MInv'
<1>1. Queues' /\ Accounts' /\ Origins'
  BY NothingUnderWay DEF Announce
<1>2. Peered /\ Typed(mgr[p])
  BY DEF MInv, Peered
<1>3. Typed(Connect(mgr[p], b))
  BY <1>2, ConnectTyped
<1>4. Peered'
  BY <1>2, <1>3, ManagerSet DEF Announce, Peered
<1>5. QED
  BY <1>1, <1>4 DEF MInv

(* A broker learns of an inbound socket: no request moves.                 *)
LEMMA SocketReadyKeeps ==
  ASSUME MInv, NEW p \in Peers, NEW b \in Brokers, SocketReady(p, b) PROVE MInv'
<1>1. Queues' /\ Accounts' /\ Origins'
  BY NothingUnderWay DEF SocketReady
<1>2. Peered'
  BY ManagersSame DEF SocketReady, MInv, Peered
<1>3. QED
  BY <1>1, <1>2 DEF MInv

(* The expiry of a worker passes: its record changes, and no request moves.*)
LEMMA LapseKeeps ==
  ASSUME MInv, NEW b \in Brokers, NEW w \in Workers, Lapse(b, w) PROVE MInv'
<1> DEFINE s == broker[b]  v == [s.known[w] EXCEPT !.late = TRUE]
           t == [s EXCEPT !.known = [@ EXCEPT ![w] = v]]
<1>1. Stock(s) /\ s.sent = NoMail /\ w \in DOMAIN s.known /\ Records /\ broker = [c \in Brokers |-> broker[c]]
  BY DEF MInv, Queues, Records, Lapse
<1>2. broker' = [broker EXCEPT ![b] = t]
  BY <1>1 DEF Lapse
<1>3. v \in KnownWorker
  <2>1. s.known[w] \in KnownWorker
    BY <1>1 DEF Stock, Workforce
  <2> HIDE DEF s
  <2>2. QED
    BY <2>1 DEF KnownWorker
<1> HIDE DEF v, s
<1>4. Stock(t) /\ t.held = s.held /\ t.sent = s.sent
  BY <1>1, <1>3, KnownIs
<1> HIDE DEF t
<1>5. Records' /\ broker'[b] = t /\ \A c \in Brokers \ {b} : broker'[c] = broker[c]
  BY <1>1, <1>2, <1>4, RecordSet
<1>6. UNCHANGED <<alive, mgr, ready, toB, fromB, out, origin, inside, fate, runs>>
  BY DEF Lapse
<1>7. Outbound' /\ Uplinks' /\ Downlinks'
  BY <1>6 DEF MInv, Queues, Outbound, Uplinks, Downlinks
<1>8. \A x \in Place : Load(x)' = Load(x)
  <2>1. \A c \in Brokers : broker'[c].held = broker[c].held
    BY <1>4, <1>5 DEF s
  <2>2. /\ out' = out /\ toB' = toB /\ fromB' = fromB /\ inside' = inside
    BY <1>6
  <2>3. /\ \A q \in Peers : Load(OnQueue(q))' = Load(OnQueue(q))
        /\ \A c \in Brokers : Load(HeldBy(c))' = Load(HeldBy(c))
        /\ \A c \in Brokers, q \in Peers : Load(To(c, q))' = Load(To(c, q)) /\ Load(From(c, q))' = Load(From(c, q))
        /\ \A y \in Workers : Load(Inside(y))' = Load(Inside(y))
    <3>1. \A c \in Brokers : Load(HeldBy(c))' = Load(HeldBy(c))
      BY <2>1, LoadIs, LoadNext
    <3>2. QED
      BY <2>2, <3>1, QueuesStay, UplinksStay, DownlinksStay, InsideStay
  <2>4. QED
    BY <2>3, PlaceIs
<1>9. Accounts'
  BY <1>6, <1>8, NoneMoves DEF MInv, Accounts
<1>10. Origins'
  BY <1>6 DEF MInv, Origins
<1>11. Peered'
  <2>1. hurries' \in 0 .. MaxHurries
    BY MajordomoAssumption DEF Lapse, InTime, MInv, Peered
  <2>2. QED
    BY <1>6, <2>1, ManagersSame DEF MInv, Peered
<1>12. QED
  BY <1>5, <1>7, <1>9, <1>10, <1>11 DEF MInv, Queues

(* A request that stays where it is remains accounted for.                 *)
LEMMA Unmoved ==
  ASSUME NEW r \in Requests, Accounted(r), runs'[r] = runs[r], fate'[r] = fate[r],
         \A x \in Place : r \in Load(x)' <=> r \in Load(x)
  PROVE  Accounted(r)'
BY DEF Accounted

(* A request is taken from where it is and counted as lost.                *)
LEMMA OneLost ==
  ASSUME \A q \in Requests : Accounted(q), NEW x0 \in Place, NEW r \in Load(x0), fate' = LostAlso({r}), UNCHANGED runs,
         \A x \in Place : Load(x)' = IF x = x0 THEN Load(x) \ {r} ELSE Load(x)
  PROVE  \A q \in Requests : Accounted(q)'
<1> SUFFICES ASSUME NEW q \in Requests PROVE Accounted(q)'
  OBVIOUS
<1> DEFINE D == {r}
<1>1. Accounted(q) /\ runs'[q] = runs[q] /\ fate'[q] = IF q \in D THEN "lost" ELSE fate[q]
  BY DEF LostAlso
<1>2. \A x, y \in Place : q \in Load(x) /\ q \in Load(y) => x = y
  BY <1>1 DEF Accounted
<1>3. \A y \in Place : q \in Load(y)' <=> q \in Load(y) /\ q \notin D
  BY <1>2
<1> HIDE DEF D
<1>4. \A y \in Place : q \in Load(y)' => q \notin D /\ \E x \in Place : q \in Load(x) /\ Done(x) = Done(y)
  BY <1>3
<1>5. \A x, y \in Place : q \in Load(x)' /\ q \in Load(y)' => x = y
  BY <1>2, <1>3
<1>6. \A x \in Place : q \in Load(x) /\ q \notin D => \E y \in Place : q \in Load(y)'
  BY <1>3
<1>7. QED
  BY <1>1, <1>4, <1>5, <1>6, Moved

(* What is at one place is at no other.                                    *)
LEMMA OnePlaceOnly ==
  ASSUME MInv, NEW r \in Requests, NEW x \in Place, NEW y \in Place, r \in Load(x), r \in Load(y)
  PROVE  x = y
BY DEF MInv, Accounts, Accounted

-----------------------------------------------------------------------------
(* Heartbeats carry nothing.                                               *)
LEMMA SendHeartbeatsKeeps ==
  ASSUME MInv, NEW w \in Workers, SendHeartbeats(w) PROVE MInv'
<1> DEFINE S == mgr[w].verified \cap alive
<1>1. UNCHANGED <<alive, mgr, ready, broker, fromB, out, origin, inside, fate, runs>>
  BY DEF SendHeartbeats
<1>2. toB' = [b \in Brokers |-> IF b \in S THEN [toB[b] EXCEPT ![w] = Append(@, Msg("heartbeat"))] ELSE toB[b]]
  BY DEF SendHeartbeats
<1> HIDE DEF S
<1>3. Uplinks /\ toB = [b \in Brokers |-> [p \in Peers |-> toB[b][p]]] /\ w \in Peers
  BY DEF MInv, Queues, Uplinks, Peers
<1>4. /\ toB' = [b \in Brokers |-> [p \in Peers |-> toB'[b][p]]]
      /\ \A b \in Brokers, p \in Peers :
           toB'[b][p] = IF b \in S /\ p = w THEN Append(toB[b][w], Msg("heartbeat")) ELSE toB[b][p]
  <2>1. \A b \in Brokers : toB[b] = [p \in Peers |-> toB[b][p]]
    BY <1>3
  <2>2. \A b \in Brokers : toB'[b] = [p \in Peers |-> IF b \in S /\ p = w THEN Append(toB[b][w], Msg("heartbeat"))
                                                        ELSE toB[b][p]]
    BY <1>2, <1>3, <2>1
  <2>3. toB' = [b \in Brokers |-> toB'[b]]
    BY <1>2
  <2>4. \A b \in Brokers : toB'[b] = [p \in Peers |-> toB'[b][p]]
    BY <2>2
  <2>5. toB' = [b \in Brokers |-> [p \in Peers |-> toB'[b][p]]]
    BY <2>3, <2>4
  <2>6. ASSUME NEW b \in Brokers, NEW p \in Peers
        PROVE  toB'[b][p] = IF b \in S /\ p = w THEN Append(toB[b][w], Msg("heartbeat")) ELSE toB[b][p]
    <3>1. toB'[b] = [y \in Peers |-> IF b \in S /\ y = w THEN Append(toB[b][w], Msg("heartbeat")) ELSE toB[b][y]]
      BY <2>2
    <3>2. QED
      BY <3>1
  <2>7. QED
    BY <2>5, <2>6
<1>5. ASSUME NEW b \in Brokers, NEW p \in Peers
      PROVE  toB'[b][p] \in Seq(Up(p)) /\ OnceEach(toB'[b][p]) /\ Carried(toB'[b][p]) = Carried(toB[b][p])
  <2>1. toB[b][p] \in Seq(Up(p)) /\ OnceEach(toB[b][p])
    BY <1>3 DEF Uplinks
  <2>2. CASE ~(b \in S /\ p = w)
    BY <1>4, <2>1, <2>2
  <2>3. CASE b \in S /\ p = w
    <3> DEFINE m == Msg("heartbeat")
    <3>1. m \in Up(p)
      BY <2>3, MajordomoAssumption DEF Up
    <3>2. m.r = None /\ None \notin Carried(toB[b][p])
      BY MessageIs, CarriedIs
    <3> HIDE DEF m
    <3>3. /\ Append(toB[b][p], m) \in Seq(Up(p)) /\ OnceEach(Append(toB[b][p], m))
          /\ Carried(Append(toB[b][p], m)) = Carried(toB[b][p]) \cup ({m.r} \ {None})
      BY <2>1, <3>1, <3>2, AppendMail
    <3>4. toB'[b][p] = Append(toB[b][p], m)
      BY <1>4, <2>3 DEF m
    <3>5. QED
      BY <3>2, <3>3, <3>4
  <2>4. QED
    BY <2>2, <2>3
<1>6. Uplinks'
  BY <1>4, <1>5 DEF Uplinks, Up, Msg, Carry, OnceEach
<1>7. Outbound' /\ Downlinks' /\ Records'
  BY <1>1 DEF MInv, Queues, Outbound, Downlinks, Records
<1>8. \A x \in Place : Load(x)' = Load(x)
  <2>1. out' = out /\ broker' = broker /\ fromB' = fromB /\ inside' = inside
    BY <1>1
  <2>2. /\ \A q \in Peers : Load(OnQueue(q))' = Load(OnQueue(q))
        /\ \A c \in Brokers : Load(HeldBy(c))' = Load(HeldBy(c))
        /\ \A c \in Brokers, q \in Peers : Load(To(c, q))' = Load(To(c, q)) /\ Load(From(c, q))' = Load(From(c, q))
        /\ \A y \in Workers : Load(Inside(y))' = Load(Inside(y))
    <3>1. \A c \in Brokers, q \in Peers : Load(To(c, q))' = Load(To(c, q))
      BY <1>5, LoadIs, LoadNext
    <3>2. QED
      BY <2>1, <3>1, QueuesStay, RecordsStay, DownlinksStay, InsideStay
  <2>3. QED
    BY <2>2, PlaceIs
<1>9. Accounts'
  BY <1>1, <1>8, NoneMoves DEF MInv, Accounts
<1>10. Origins'
  BY <1>1 DEF MInv, Origins
<1>11. Peered'
  <2>1. hurries' \in 0 .. MaxHurries
    BY MajordomoAssumption DEF SendHeartbeats, InTime, MInv, Peered
  <2>2. QED
    BY <1>1, <2>1, ManagersSame DEF MInv, Peered
<1>12. QED
  BY <1>6, <1>7, <1>9, <1>10, <1>11 DEF MInv, Queues

(* A new request is on the queue of its client, and nowhere else.          *)
LEMMA SubmitKeeps ==
  ASSUME MInv, NEW r \in Requests, Submit(r) PROVE MInv'
<1> DEFINE c == ClientOf[r]  v == Append(out[c], r)
<1>1. c \in Clients /\ c \in Peers /\ c \notin Workers
  BY MajordomoAssumption DEF Peers
<1>2. /\ UNCHANGED <<alive, mgr, ready, broker, toB, fromB, origin, inside, runs, hurries>>
      /\ fate[r] = "new" /\ fate' = [fate EXCEPT ![r] = "open"] /\ out' = [out EXCEPT ![c] = v]
  BY DEF Submit
<1>3. /\ Outbound /\ out[c] \in Seq(Requests) /\ Once(out[c])
      /\ fate = [q \in Requests |-> fate[q]] /\ \A q \in Requests : Accounted(q)
  BY <1>1 DEF MInv, Queues, Outbound, Accounts
<1>4. \A x \in Place : r \notin Load(x)
  BY <1>2, <1>3 DEF Accounted
<1>5. v \in Seq(Requests) /\ Once(v) /\ ToSet(v) = ToSet(out[c]) \cup {r}
  <2>1. r \notin ToSet(out[c])
    BY <1>1, <1>4, PlaceIs, LoadIs
  <2> HIDE DEF c
  <2>2. QED
    BY <1>3, <2>1, AppendIs
<1> HIDE DEF c, v
<1>6. Outbound' /\ out'[c] = v /\ \A q \in Peers \ {c} : out'[q] = out[q]
  BY <1>1, <1>2, <1>3, <1>5, OutSet
<1>7. Uplinks' /\ Downlinks' /\ Records'
  BY <1>2 DEF MInv, Queues, Uplinks, Downlinks, Records
<1>8. \A x \in Place : Load(x)' = IF x = OnQueue(c) THEN Load(x) \cup {r} ELSE Load(x)
  <2>1. toB' = toB /\ broker' = broker /\ fromB' = fromB /\ inside' = inside
    BY <1>2
  <2>2. Load(OnQueue(c))' = Load(OnQueue(c)) \cup {r}
    BY <1>5, <1>6, LoadIs, LoadNext
  <2>3. \A q \in Peers \ {c} : Load(OnQueue(q))' = Load(OnQueue(q))
    BY <1>6, LoadIs, LoadNext
  <2>4. /\ \A b \in Brokers : Load(HeldBy(b))' = Load(HeldBy(b))
        /\ \A b \in Brokers, q \in Peers : Load(To(b, q))' = Load(To(b, q)) /\ Load(From(b, q))' = Load(From(b, q))
        /\ \A y \in Workers : Load(Inside(y))' = Load(Inside(y))
    BY <2>1, RecordsStay, UplinksStay, DownlinksStay, InsideStay
  <2>5. QED
    BY <2>2, <2>3, <2>4, PlaceIs, Apart
<1>9. Accounted(r)'
  <2>1. \A x \in Place : r \in Load(x)' <=> x = OnQueue(c)
    BY <1>4, <1>8
  <2>2. OnQueue(c) \in Place /\ Done(OnQueue(c)) = 0
    BY <1>1, PlaceIs, DoneIs
  <2>3. fate'[r] = "open" /\ runs'[r] = 0
    BY <1>2, <1>3 DEF Accounted
  <2>4. QED
    BY <2>1, <2>2, <2>3 DEF Accounted, Fates
<1>10. ASSUME NEW q \in Requests, q # r PROVE Accounted(q)'
  <2>1. runs'[q] = runs[q] /\ fate'[q] = fate[q]
    BY <1>2, <1>3, <1>10
  <2>2. \A x \in Place : q \in Load(x)' <=> q \in Load(x)
    BY <1>8, <1>10
  <2>3. QED
    BY <1>3, <2>1, <2>2, Unmoved
<1>11. Accounts'
  <2>1. fate' = [q \in Requests |-> fate'[q]]
    BY <1>2, <1>3
  <2>2. QED
    BY <1>2, <1>9, <1>10, <2>1 DEF MInv, Accounts
<1>12. Origins'
  <2>1. \A w \in Workers : out'[w] = out[w]
    BY <1>1, <1>6 DEF Peers
  <2>2. QED
    BY <1>2, <2>1 DEF MInv, Origins
<1>13. Peered'
  BY <1>2, ManagersSame DEF MInv, Peered
<1>14. QED
  BY <1>6, <1>7, <1>11, <1>12, <1>13 DEF MInv, Queues

(* A request leaves the actors of a worker for the queue of the worker.    *)
LEMMA FinishKeeps ==
  ASSUME MInv, NEW w \in Workers, NEW r \in Requests, Finish(w, r) PROVE MInv'
<1> DEFINE v == Append(out[w], r)
<1>1. /\ UNCHANGED <<alive, mgr, ready, broker, toB, fromB, origin, fate, runs, hurries>>
      /\ <<w, r>> \in inside /\ inside' = inside \ {<<w, r>>} /\ out' = [out EXCEPT ![w] = v]
  BY DEF Finish
<1>2. w \in Peers /\ OnQueue(w) \in Place /\ Inside(w) \in Place /\ OnQueue(w) # Inside(w)
  BY PlaceIs, Apart DEF Peers
<1>3. r \in Load(Inside(w)) /\ r \notin Load(OnQueue(w))
  BY <1>1, <1>2, LoadIs, OnePlaceOnly
<1>4. Outbound /\ out[w] \in Seq(Requests) /\ Once(out[w]) /\ r \notin ToSet(out[w])
  BY <1>2, <1>3, LoadIs DEF MInv, Queues, Outbound
<1>5. v \in Seq(Requests) /\ Once(v) /\ ToSet(v) = ToSet(out[w]) \cup {r}
  BY <1>4, AppendIs
<1> HIDE DEF v
<1>6. Outbound' /\ out'[w] = v /\ \A q \in Peers \ {w} : out'[q] = out[q]
  BY <1>1, <1>2, <1>4, <1>5, OutSet
<1>7. Uplinks' /\ Downlinks' /\ Records'
  BY <1>1 DEF MInv, Queues, Uplinks, Downlinks, Records
<1>8. \A x \in Place : Load(x)' = IF x = Inside(w) THEN Load(x) \ {r}
                                  ELSE IF x = OnQueue(w) THEN Load(x) \cup {r} ELSE Load(x)
  <2>1. toB' = toB /\ broker' = broker /\ fromB' = fromB
    BY <1>1
  <2>2. \A y \in Workers : {q \in Requests : <<y, q>> \in inside'}
                             = IF y = w THEN {q \in Requests : <<y, q>> \in inside} \ {r}
                               ELSE {q \in Requests : <<y, q>> \in inside}
    BY <1>1
  <2>3. Load(OnQueue(w))' = Load(OnQueue(w)) \cup {r}
    BY <1>5, <1>6, LoadIs, LoadNext
  <2>4. \A q \in Peers \ {w} : Load(OnQueue(q))' = Load(OnQueue(q))
    BY <1>6, LoadIs, LoadNext
  <2>5. /\ \A b \in Brokers : Load(HeldBy(b))' = Load(HeldBy(b))
        /\ \A b \in Brokers, q \in Peers : Load(To(b, q))' = Load(To(b, q)) /\ Load(From(b, q))' = Load(From(b, q))
    BY <2>1, RecordsStay, UplinksStay, DownlinksStay
  <2>6. Load(Inside(w))' = Load(Inside(w)) \ {r} /\ \A y \in Workers \ {w} : Load(Inside(y))' = Load(Inside(y))
    <3>1. \A y : Load(Inside(y)) = {q \in Requests : <<y, q>> \in inside}
      BY LoadIs
    <3>2. \A y : Load(Inside(y))' = {q \in Requests : <<y, q>> \in inside'}
      BY LoadNext
    <3>3. QED
      BY <2>2, <3>1, <3>2
  <2>7. QED
    BY <2>3, <2>4, <2>5, <2>6, PlaceIs, Apart
<1>9. Done(Inside(w)) = Done(OnQueue(w))
  BY DoneIs
<1>10. \A q \in Requests : Accounted(q)'
  BY <1>1, <1>2, <1>3, <1>8, <1>9, OneMoves DEF MInv, Accounts
<1>11. Accounts'
  BY <1>1, <1>10 DEF MInv, Accounts
<1>12. Origins'
  <2>1. \A y \in Workers, q \in Requests : q \in ToSet(out'[y]) \/ <<y, q>> \in inside'
                                             => q \in ToSet(out[y]) \/ <<y, q>> \in inside
    BY <1>1, <1>5, <1>6 DEF Peers
  <2>2. QED
    BY <1>1, <2>1 DEF MInv, Origins
<1>13. Peered'
  BY <1>1, ManagersSame DEF MInv, Peered
<1>14. QED
  BY <1>6, <1>7, <1>11, <1>12, <1>13 DEF MInv, Queues

(* A reply goes by the broker its request came from, or by any that is     *)
(* verified.                                                               *)
LEMMA WayIs ==
  ASSUME MInv, NEW p \in Peers, NEW r \in Requests, r \in ToSet(out[p]), mgr[p].verified # {}
  PROVE  Way(p, r) \in Brokers
<1>1. NextBroker(mgr[p]) \in Brokers
  <2>1. Typed(mgr[p])
    BY DEF MInv, Peered
  <2>2. mgr[p].verified \subseteq Brokers
    BY <2>1 DEF Typed
  <2>3. QED
    BY <2>1, <2>2, NextBrokerIs
<1>2. ASSUME p \in Workers, origin[p][r] # None PROVE origin[p][r] \in Brokers
  BY <1>2 DEF MInv, Origins
<1>3. QED
  BY <1>1, <1>2 DEF Way

(* A turn of the outbound queue puts its head behind the others, sends it  *)
(* by a broker that is known, or loses it on a socket nobody reads.        *)
LEMMA ConsumeOutboundKeeps ==
  ASSUME MInv, NEW p \in Peers, ConsumeOutbound(p) PROVE MInv'
<1> DEFINE r == Head(out[p])  way == Way(p, r)  x0 == OnQueue(p)
<1>1. /\ UNCHANGED <<alive, ready, broker, fromB, origin, inside, runs, hurries>> /\ out[p] # <<>>
      /\ \/ /\ mgr[p].verified = {}
            /\ out' = [out EXCEPT ![p] = Append(Tail(@), r)] /\ UNCHANGED <<mgr, toB, fate>>
         \/ /\ mgr[p].verified # {} /\ out' = [out EXCEPT ![p] = Tail(@)] /\ mgr' = [mgr EXCEPT ![p] = Advance(@)]
            /\ way \in alive /\ UNCHANGED fate
            /\ toB' = [toB EXCEPT ![way][p] = Append(@, Carry(IF p \in Clients THEN "request" ELSE "reply", r))]
         \/ /\ mgr[p].verified # {} /\ out' = [out EXCEPT ![p] = Tail(@)] /\ mgr' = [mgr EXCEPT ![p] = Advance(@)]
            /\ way \notin alive /\ fate' = LostAlso({r}) /\ UNCHANGED toB
  BY DEF ConsumeOutbound
<1>2. /\ Outbound /\ out = [q \in Peers |-> out[q]] /\ Uplinks /\ toB = [c \in Brokers |-> [q \in Peers |-> toB[c][q]]]
      /\ out[p] \in Seq(Requests) /\ Once(out[p])
      /\ \A q \in Requests : Accounted(q)
  BY DEF MInv, Queues, Outbound, Uplinks, Accounts
<1>3. /\ Tail(out[p]) \in Seq(Requests) /\ r \in Requests /\ ToSet(out[p]) = ToSet(Tail(out[p])) \cup {r}
      /\ Once(Tail(out[p])) /\ r \notin ToSet(Tail(out[p]))
  BY <1>1, <1>2, TailIs
<1>4. x0 \in Place /\ r \in Load(x0)
  BY <1>3, PlaceIs, LoadIs
<1> HIDE DEF r, way
<1>5. Downlinks' /\ Records'
  BY <1>1 DEF MInv, Queues, Downlinks, Records
<1>6. ASSUME \A y \in Peers : ToSet(out'[y]) \subseteq ToSet(out[y]) PROVE Origins'
  <2>1. \A y \in Workers : ToSet(out'[y]) \subseteq ToSet(out[y])
    BY <1>6 DEF Peers
  <2>2. QED
    BY <1>1, <2>1 DEF MInv, Origins
<1>7. CASE /\ mgr[p].verified = {}
           /\ out' = [out EXCEPT ![p] = Append(Tail(@), r)] /\ UNCHANGED <<mgr, toB, fate>>
  <2> DEFINE t == Tail(out[p])  v == Append(t, r)
  <2>1. out' = [out EXCEPT ![p] = v]
    BY <1>2, <1>7
  <2>2. v \in Seq(Requests) /\ Once(v) /\ ToSet(v) = ToSet(out[p])
    <3> HIDE DEF t
    <3>1. t \in Seq(Requests) /\ Once(t) /\ r \notin ToSet(t) /\ ToSet(out[p]) = ToSet(t) \cup {r}
      BY <1>3 DEF t
    <3>2. QED
      BY <1>3, <3>1, AppendIs
  <2> HIDE DEF v
  <2>3. Outbound' /\ out'[p] = v /\ \A q \in Peers \ {p} : out'[q] = out[q]
    BY <1>2, <2>2, <2>1, OutSet
  <2>4. \A q \in Peers : ToSet(out'[q]) = ToSet(out[q])
    BY <2>2, <2>3
  <2>5. Uplinks'
    BY <1>7 DEF MInv, Queues, Uplinks
  <2>6. \A x \in Place : Load(x)' = Load(x)
    <3>1. toB' = toB /\ broker' = broker /\ fromB' = fromB /\ inside' = inside
      BY <1>1, <1>7
    <3>2. /\ \A q \in Peers : Load(OnQueue(q))' = Load(OnQueue(q))
          /\ \A c \in Brokers : Load(HeldBy(c))' = Load(HeldBy(c))
          /\ \A c \in Brokers, q \in Peers : Load(To(c, q))' = Load(To(c, q)) /\ Load(From(c, q))' = Load(From(c, q))
          /\ \A y \in Workers : Load(Inside(y))' = Load(Inside(y))
      <4>1. \A q \in Peers : Load(OnQueue(q))' = Load(OnQueue(q))
        BY <2>4, LoadIs, LoadNext
      <4>2. QED
        BY <3>1, <4>1, RecordsStay, UplinksStay, DownlinksStay, InsideStay
    <3>3. QED
      BY <3>2, PlaceIs
  <2>7. Accounts'
    BY <1>1, <1>7, <2>6, NoneMoves DEF MInv, Accounts
  <2>8. Peered'
    BY <1>1, <1>7, ManagersSame DEF MInv, Peered
  <2>9. QED
    BY <1>5, <1>6, <2>3, <2>4, <2>5, <2>7, <2>8 DEF MInv, Queues
<1>8. ASSUME mgr[p].verified # {}, out' = [out EXCEPT ![p] = Tail(@)], mgr' = [mgr EXCEPT ![p] = Advance(@)]
      PROVE  /\ Outbound' /\ Origins' /\ Peered'
             /\ Load(x0)' = Load(x0) \ {r} /\ \A q \in Peers \ {p} : Load(OnQueue(q))' = Load(OnQueue(q))
  <2>1. out' = [out EXCEPT ![p] = Tail(out[p])]
    BY <1>2, <1>8
  <2>2. Outbound' /\ out'[p] = Tail(out[p]) /\ \A q \in Peers \ {p} : out'[q] = out[q]
    BY <1>2, <1>3, <2>1, OutSet
  <2>3. ToSet(out'[p]) = ToSet(out[p]) \ {r}
    BY <1>3, <2>2
  <2>4. Origins'
    BY <1>6, <2>2, <2>3
  <2>5. Peered'
    <3>1. Typed(mgr[p]) /\ mgr = [q \in Peers |-> mgr[q]]
      BY DEF MInv, Peered
    <3>2. Typed(Advance(mgr[p])) /\ mgr' = [mgr EXCEPT ![p] = Advance(mgr[p])]
      BY <1>8, <3>1, NextBrokerIs
    <3>3. QED
      BY <1>1, <3>2, ManagerSet DEF MInv, Peered
  <2>6. Load(x0)' = Load(x0) \ {r}
    BY <2>3, LoadIs, LoadNext
  <2>7. \A q \in Peers \ {p} : Load(OnQueue(q))' = Load(OnQueue(q))
    BY <2>2, LoadIs, LoadNext
  <2>8. QED
    BY <2>2, <2>4, <2>5, <2>6, <2>7
<1>9. CASE /\ mgr[p].verified # {} /\ out' = [out EXCEPT ![p] = Tail(@)] /\ mgr' = [mgr EXCEPT ![p] = Advance(@)]
           /\ way \in alive /\ UNCHANGED fate
           /\ toB' = [toB EXCEPT ![way][p] = Append(@, Carry(IF p \in Clients THEN "request" ELSE "reply", r))]
  <2>1. PICK b \in Brokers : b = way
    BY <1>3, <1>9, WayIs DEF way
  <2> DEFINE m == Carry(IF p \in Clients THEN "request" ELSE "reply", r)  v == Append(toB[b][p], m)  y0 == To(b, p)
  <2>2. m \in Up(p) /\ m.r = r /\ r # None
    BY <1>3, MajordomoAssumption DEF Up, Carry
  <2>3. y0 \in Place /\ x0 # y0 /\ Load(y0) = Carried(toB[b][p])
    BY <2>1, PlaceIs, Apart, LoadIs
  <2>4. r \notin Carried(toB[b][p])
    BY <1>3, <1>4, <2>3, OnePlaceOnly
  <2>5. toB' = [toB EXCEPT ![b][p] = v]
    BY <1>9, <2>1
  <2>6. toB[b][p] \in Seq(Up(p)) /\ OnceEach(toB[b][p])
    BY <1>2, <2>1 DEF Uplinks
  <2> HIDE DEF m
  <2>7. v \in Seq(Up(p)) /\ OnceEach(v) /\ Carried(v) = Carried(toB[b][p]) \cup {r}
    <3>1. Carried(v) = Carried(toB[b][p]) \cup ({m.r} \ {None}) /\ v \in Seq(Up(p)) /\ OnceEach(v)
      BY <2>2, <2>4, <2>6, AppendMail
    <3>2. QED
      BY <2>2, <3>1
  <2> HIDE DEF v
  <2>8. /\ Uplinks' /\ toB'[b][p] = v
        /\ \A c \in Brokers, q \in Peers : c # b \/ q # p => toB'[c][q] = toB[c][q]
    <3>1. Uplinks /\ b \in Brokers /\ p \in Peers /\ v \in Seq(Up(p)) /\ OnceEach(v)
      BY <1>2, <2>1, <2>7
    <3>2. toB' = Swapped(toB, b, p, v)
      BY <2>5 DEF Swapped
    <3>3. QED
      BY <3>1, <3>2, UplinkSet
  <2>9. \A x \in Place : Load(x)' = IF x = x0 THEN Load(x) \ {r} ELSE IF x = y0 THEN Load(x) \cup {r} ELSE Load(x)
    <3>1. broker' = broker /\ fromB' = fromB /\ inside' = inside
      BY <1>1
    <3>2. Load(y0)' = Load(y0) \cup {r}
      <4>1. Load(To(b, p))' = Carried(toB'[b][p])
        BY LoadNext
      <4>2. QED
        BY <2>3, <2>7, <2>8, <4>1
    <3>3. \A c \in Brokers, q \in Peers : c # b \/ q # p => Load(To(c, q))' = Load(To(c, q))
      BY <2>8, LoadIs, LoadNext
    <3>4. /\ \A c \in Brokers : Load(HeldBy(c))' = Load(HeldBy(c))
          /\ \A c \in Brokers, q \in Peers : Load(From(c, q))' = Load(From(c, q))
          /\ \A y \in Workers : Load(Inside(y))' = Load(Inside(y))
      BY <3>1, RecordsStay, DownlinksStay, InsideStay
    <3>5. /\ Load(x0)' = Load(x0) \ {r}
          /\ \A q \in Peers : q # p => Load(OnQueue(q))' = Load(OnQueue(q))
      BY <1>8, <1>9
    <3>6. \A q \in Peers : Load(OnQueue(q))' = IF OnQueue(q) = x0 THEN Load(OnQueue(q)) \ {r} ELSE Load(OnQueue(q))
      BY <3>5, Apart
    <3>7. \A c \in Brokers, q \in Peers : Load(To(c, q))' = IF To(c, q) = y0 THEN Load(To(c, q)) \cup {r}
                                                             ELSE Load(To(c, q))
      BY <3>2, <3>3, Apart
    <3>8. QED
      BY <3>4, <3>6, <3>7, PlaceIs, Apart
  <2>10. Done(x0) = Done(y0)
    BY <2>1, DoneIs DEF Peers
  <2>11. \A q \in Requests : Accounted(q)'
    <3>1. UNCHANGED <<fate, runs>> /\ \A q \in Requests : Accounted(q)
      BY <1>1, <1>2, <1>9
    <3>2. x0 \in Place /\ y0 \in Place /\ r \in Load(x0) /\ x0 # y0
      BY <1>4, <2>3
    <3> HIDE DEF x0, y0
    <3>3. QED
      BY <2>9, <2>10, <3>1, <3>2, OneMoves
  <2>12. Accounts'
    BY <1>1, <1>9, <2>11 DEF MInv, Accounts
  <2>13. QED
    BY <1>5, <1>8, <1>9, <2>8, <2>12 DEF MInv, Queues
<1>10. CASE /\ mgr[p].verified # {} /\ out' = [out EXCEPT ![p] = Tail(@)] /\ mgr' = [mgr EXCEPT ![p] = Advance(@)]
            /\ way \notin alive /\ fate' = LostAlso({r}) /\ UNCHANGED toB
  <2>1. Uplinks'
    BY <1>10 DEF MInv, Queues, Uplinks
  <2>2. \A x \in Place : Load(x)' = IF x = x0 THEN Load(x) \ {r} ELSE Load(x)
    <3>1. toB' = toB /\ broker' = broker /\ fromB' = fromB /\ inside' = inside
      BY <1>1, <1>10
    <3>2. /\ \A c \in Brokers : Load(HeldBy(c))' = Load(HeldBy(c))
          /\ \A c \in Brokers, q \in Peers : Load(To(c, q))' = Load(To(c, q)) /\ Load(From(c, q))' = Load(From(c, q))
          /\ \A y \in Workers : Load(Inside(y))' = Load(Inside(y))
      BY <3>1, RecordsStay, UplinksStay, DownlinksStay, InsideStay
    <3>3. QED
      BY <1>8, <1>10, <3>2, PlaceIs, Apart
  <2> HIDE DEF x0
  <2>3. \A q \in Requests : Accounted(q)'
    BY <1>1, <1>2, <1>4, <1>10, <2>2, OneLost
  <2>4. Accounts'
    BY <1>1, <1>10, <2>3 DEF MInv, Accounts, LostAlso
  <2>5. QED
    BY <1>5, <1>8, <1>10, <2>1, <2>4 DEF MInv, Queues
<1>11. QED
  BY <1>1, <1>7, <1>9, <1>10

(* Closing sockets: what is on them is lost, all else stays.               *)
LEMMA CloseSocketsKeeps ==
  ASSUME MInv, NEW p \in Peers, NEW S \in SUBSET Brokers, NEW asked \in SUBSET Brokers,
         CloseSockets(p, S, asked), UNCHANGED <<broker, out, inside, runs>>
  PROVE  Queues' /\ Accounts' /\ ready' \subseteq Peers \X Brokers
<1>1. PICK keep \in SUBSET {b \in S : toB[b][p] # <<>>} :
        LET lost == (UNION {Carried(fromB[b][p]) : b \in S}) \cup (UNION {Carried(toB[b][p]) : b \in S \ keep})
            Kept(b) == IF b \in S \ keep THEN <<>> ELSE toB[b][p]
            New(b)  == IF b \in asked THEN <<Msg("verify")>> ELSE <<>>
        IN  /\ ready' = ready \ {<<p, b>> : b \in S}
            /\ fromB' = [b \in Brokers |-> IF b \in S THEN [fromB[b] EXCEPT ![p] = <<>>] ELSE fromB[b]]
            /\ toB' = [b \in Brokers |-> [toB[b] EXCEPT ![p] = Kept(b) \o New(b)]]
            /\ fate' = LostAlso(lost)
  BY DEF CloseSockets
<1> DEFINE T == S \ keep
           lost == (UNION {Carried(fromB[b][p]) : b \in S}) \cup (UNION {Carried(toB[b][p]) : b \in T})
           Kept(b) == IF b \in T THEN <<>> ELSE toB[b][p]
           New(b) == IF b \in asked THEN <<Msg("verify")>> ELSE <<>>
<1>2. /\ ready' = ready \ {<<p, b>> : b \in S}
      /\ fromB' = [b \in Brokers |-> IF b \in S THEN [fromB[b] EXCEPT ![p] = <<>>] ELSE fromB[b]]
      /\ toB' = [b \in Brokers |-> [toB[b] EXCEPT ![p] = Kept(b) \o New(b)]]
      /\ fate' = LostAlso(lost)
  BY <1>1
<1>3. /\ fromB = [b \in Brokers |-> [q \in Peers |-> fromB[b][q]]]
      /\ \A b \in Brokers, q \in Peers : fromB[b][q] \in Seq(Down(q)) /\ OnceEach(fromB[b][q])
      /\ toB = [b \in Brokers |-> [q \in Peers |-> toB[b][q]]]
      /\ \A b \in Brokers, q \in Peers : toB[b][q] \in Seq(Up(q)) /\ OnceEach(toB[b][q])
  BY DEF MInv, Queues, Uplinks, Downlinks
<1>4. T \subseteq Brokers
  OBVIOUS
<1>5. /\ fromB' = [b \in Brokers |-> [q \in Peers |-> fromB'[b][q]]]
      /\ \A b \in Brokers, q \in Peers : fromB'[b][q] = IF b \in S /\ q = p THEN <<>> ELSE fromB[b][q]
  <2> DEFINE f == fromB'
  <2>1. \A b \in Brokers : fromB[b] = [q \in Peers |-> fromB[b][q]]
    BY <1>3
  <2>2. \A b \in Brokers : f[b] = [q \in Peers |-> IF b \in S /\ q = p THEN <<>> ELSE fromB[b][q]]
    BY <1>2, <2>1
  <2>3. f = [b \in Brokers |-> f[b]]
    BY <1>2
  <2> HIDE DEF f
  <2>4. \A b \in Brokers : f[b] = [q \in Peers |-> f[b][q]]
    BY <2>2
  <2>5. f = [b \in Brokers |-> [q \in Peers |-> f[b][q]]]
    BY <2>3, <2>4
  <2>6. ASSUME NEW b \in Brokers, NEW q \in Peers
        PROVE  f[b][q] = IF b \in S /\ q = p THEN <<>> ELSE fromB[b][q]
    <3>1. f[b] = [y \in Peers |-> IF b \in S /\ y = p THEN <<>> ELSE fromB[b][y]]
      BY <2>2
    <3>2. QED
      BY <3>1
  <2>7. QED
    BY <2>5, <2>6 DEF f
<1> HIDE DEF Kept, New, T
<1>6. /\ toB' = [b \in Brokers |-> [q \in Peers |-> toB'[b][q]]]
      /\ \A b \in Brokers, q \in Peers : toB'[b][q] = IF q = p THEN Kept(b) \o New(b) ELSE toB[b][q]
  <2> DEFINE f == toB'
  <2>1. \A b \in Brokers : toB[b] = [q \in Peers |-> toB[b][q]]
    BY <1>3
  <2>2. \A b \in Brokers : f[b] = [q \in Peers |-> IF q = p THEN Kept(b) \o New(b) ELSE toB[b][q]]
    BY <1>2, <2>1
  <2>3. f = [b \in Brokers |-> f[b]]
    BY <1>2
  <2> HIDE DEF f
  <2>4. \A b \in Brokers : f[b] = [q \in Peers |-> f[b][q]]
    BY <2>2
  <2>5. f = [b \in Brokers |-> [q \in Peers |-> f[b][q]]]
    BY <2>3, <2>4
  <2>6. ASSUME NEW b \in Brokers, NEW q \in Peers
        PROVE  f[b][q] = IF q = p THEN Kept(b) \o New(b) ELSE toB[b][q]
    <3>1. f[b] = [y \in Peers |-> IF y = p THEN Kept(b) \o New(b) ELSE toB[b][y]]
      BY <2>2
    <3>2. QED
      BY <3>1
  <2>7. QED
    BY <2>5, <2>6 DEF f
<1>7. Downlinks'
  <2>1. ASSUME NEW b \in Brokers, NEW q \in Peers
        PROVE  fromB'[b][q] \in Seq(Down(q)) /\ OnceEach(fromB'[b][q])
    <3>1. fromB'[b][q] = <<>> \/ fromB'[b][q] = fromB[b][q]
      BY <1>5
    <3>2. QED
      BY <1>3, <3>1, EmptyIs
  <2>2. QED
    BY <1>5, <2>1 DEF Downlinks, Down, Msg, Carry, OnceEach
<1>8. ASSUME NEW b \in Brokers
      PROVE  /\ Kept(b) \o New(b) \in Seq(Up(p)) /\ OnceEach(Kept(b) \o New(b))
             /\ Carried(Kept(b) \o New(b)) = IF b \in T THEN {} ELSE Carried(toB[b][p])
  <2>1. /\ Kept(b) \in Seq(Up(p)) /\ OnceEach(Kept(b))
        /\ Carried(Kept(b)) = IF b \in T THEN {} ELSE Carried(toB[b][p])
    BY <1>3, EmptyIs DEF Kept
  <2>2. New(b) \in Seq(Up(p)) /\ OnceEach(New(b)) /\ Carried(New(b)) = {}
    <3>1. CASE b \notin asked
      BY <3>1, EmptyIs DEF New
    <3>2. CASE b \in asked
      <4> DEFINE m == Msg("verify")
      <4>1. m \in Up(p) /\ m.r = None
        BY MessageIs DEF Up
      <4>2. New(b) = <<m>>
        BY <3>2 DEF New
      <4> HIDE DEF m
      <4>3. <<m>> \in Seq(Up(p)) /\ DOMAIN <<m>> = {1} /\ <<m>>[1] = m
        BY <4>1
      <4>4. OnceEach(<<m>>)
        BY <4>3 DEF OnceEach
      <4>5. Carried(<<m>>) = {}
        BY <4>1, <4>3, CarriedIs
      <4>6. QED
        BY <4>2, <4>3, <4>4, <4>5
    <3>3. QED
      BY <3>1, <3>2
  <2>3. Carried(Kept(b)) \cap Carried(New(b)) = {} /\ Carried(Kept(b)) \cup Carried(New(b)) = Carried(Kept(b))
    BY <2>2
  <2>4. /\ Kept(b) \o New(b) \in Seq(Up(p)) /\ OnceEach(Kept(b) \o New(b))
        /\ Carried(Kept(b) \o New(b)) = Carried(Kept(b)) \cup Carried(New(b))
    <3> DEFINE k == Kept(b)  n == New(b)
    <3>1. k \in Seq(Up(p)) /\ n \in Seq(Up(p)) /\ OnceEach(k) /\ OnceEach(n) /\ Carried(k) \cap Carried(n) = {}
      BY <2>1, <2>2, <2>3
    <3> HIDE DEF k, n
    <3>2. k \o n \in Seq(Up(p)) /\ Carried(k \o n) = Carried(k) \cup Carried(n) /\ OnceEach(k \o n)
      BY <3>1, ConcatMail
    <3>3. QED
      BY <3>2 DEF k, n
  <2>5. QED
    BY <2>1, <2>3, <2>4
<1>9. Uplinks'
  <2>1. ASSUME NEW b \in Brokers, NEW q \in Peers
        PROVE  toB'[b][q] \in Seq(Up(q)) /\ OnceEach(toB'[b][q])
    <3>1. CASE q = p
      BY <1>6, <1>8, <3>1
    <3>2. CASE q # p
      BY <1>3, <1>6, <3>2
    <3>3. QED
      BY <3>1, <3>2
  <2>2. QED
    BY <1>6, <2>1 DEF Uplinks, Up, Msg, Carry, OnceEach
<1>10. Outbound' /\ Records'
  BY DEF MInv, Queues, Outbound, Records
<1> DEFINE Gone == {From(b, p) : b \in S} \cup {To(b, p) : b \in T}
<1>11. \A x \in Place : Load(x)' = IF x \in Gone THEN {} ELSE Load(x)
  <2>1. broker' = broker /\ out' = out /\ inside' = inside
    OBVIOUS
  <2>2. /\ \A q \in Peers : Load(OnQueue(q))' = Load(OnQueue(q))
        /\ \A b \in Brokers : Load(HeldBy(b))' = Load(HeldBy(b))
        /\ \A y \in Workers : Load(Inside(y))' = Load(Inside(y))
    BY <2>1, QueuesStay, RecordsStay, InsideStay
  <2>3. /\ \A q \in Peers : OnQueue(q) \notin Gone
        /\ \A b \in Brokers : HeldBy(b) \notin Gone
        /\ \A y \in Workers : Inside(y) \notin Gone
    BY Apart
  <2>4. ASSUME NEW b \in Brokers, NEW q \in Peers
        PROVE  Load(From(b, q))' = IF From(b, q) \in Gone THEN {} ELSE Load(From(b, q))
    <3>1. From(b, q) \in Gone <=> b \in S /\ q = p
      BY Apart
    <3>2. Load(From(b, q))' = IF b \in S /\ q = p THEN {} ELSE Load(From(b, q))
      BY <1>5, LoadIs, LoadNext, EmptyIs
    <3> HIDE DEF Gone
    <3>3. QED
      BY <3>1, <3>2
  <2>5. ASSUME NEW b \in Brokers, NEW q \in Peers
        PROVE  Load(To(b, q))' = IF To(b, q) \in Gone THEN {} ELSE Load(To(b, q))
    <3>1. To(b, q) \in Gone <=> b \in T /\ q = p
      BY Apart
    <3>2. Load(To(b, q))' = IF b \in T /\ q = p THEN {} ELSE Load(To(b, q))
      BY <1>6, <1>8, LoadIs, LoadNext
    <3> HIDE DEF Gone
    <3>3. QED
      BY <3>1, <3>2
  <2> HIDE DEF Gone
  <2>6. QED
    BY <2>2, <2>4, <2>5, <2>3, PlaceIs
<1>12. \A q \in Requests : q \in lost <=> \E x \in Place \cap Gone : q \in Load(x)
  <2>1. /\ \A b \in S : From(b, p) \in Place /\ Load(From(b, p)) = Carried(fromB[b][p])
        /\ \A b \in T : To(b, p) \in Place /\ Load(To(b, p)) = Carried(toB[b][p])
    BY <1>4, PlaceIs, LoadIs
  <2>2. \A q : q \in lost <=> (\E b \in S : q \in Carried(fromB[b][p])) \/ (\E b \in T : q \in Carried(toB[b][p]))
    OBVIOUS
  <2> HIDE DEF lost
  <2>3. ASSUME NEW q \in lost PROVE \E x \in Place \cap Gone : q \in Load(x)
    <3>1. CASE \E b \in S : q \in Carried(fromB[b][p])
      BY <2>1, <3>1
    <3>2. CASE \E b \in T : q \in Carried(toB[b][p])
      BY <2>1, <3>2
    <3>3. QED
      BY <2>2, <3>1, <3>2
  <2>4. ASSUME NEW x \in Place \cap Gone, NEW q \in Load(x) PROVE q \in lost
    BY <2>1, <2>2
  <2> HIDE DEF Gone
  <2>5. QED
    BY <2>3, <2>4
<1> HIDE DEF lost, Gone
<1>13. \A q \in Requests : Accounted(q)'
  <2>1. UNCHANGED runs /\ \A q \in Requests : Accounted(q)
    BY DEF MInv, Accounts
  <2>2. QED
    BY <1>2, <1>11, <1>12, <2>1, SomeLost
<1>14. Accounts'
  BY <1>2, <1>13 DEF MInv, Accounts, LostAlso
<1>15. ready' \subseteq Peers \X Brokers
  BY <1>2 DEF MInv, Peered
<1>16. QED
  BY <1>7, <1>9, <1>10, <1>14, <1>15 DEF Queues

(* A worker that forgets a connector remembers all its requests still.     *)
LEMMA ForgottenIs ==
  ASSUME MInv, NEW p \in Peers, NEW S, origin' = Forgotten(p, S), UNCHANGED <<out, inside>>
  PROVE  Origins'
<1>1. /\ origin' = [w \in Workers |-> origin'[w]]
      /\ \A w \in Workers : DOMAIN origin'[w] = DOMAIN origin[w]
      /\ \A w \in Workers : \A r \in DOMAIN origin[w] : origin'[w][r] \in {origin[w][r], None}
  BY DEF Forgotten
<1>2. QED
  BY <1>1 DEF MInv, Origins

(* A peer gives up a broker that has ended.                                *)
LEMMA RetractKeeps ==
  ASSUME MInv, NEW p \in Peers, NEW b \in Brokers, Retract(p, b) PROVE MInv'
<1>1. /\ mgr' = [mgr EXCEPT ![p] = Disconnect(@, b)] /\ CloseSockets(p, {b}, {}) /\ origin' = Forgotten(p, {b})
      /\ UNCHANGED <<alive, broker, out, inside, runs, hurries>>
  BY DEF Retract
<1>2. Queues' /\ Accounts' /\ ready' \subseteq Peers \X Brokers
  BY <1>1, CloseSocketsKeeps
<1>3. Origins'
  BY <1>1, ForgottenIs
<1>4. Peered /\ Typed(mgr[p]) /\ mgr = [q \in Peers |-> mgr[q]]
  BY DEF MInv, Peered
<1>5. Typed(Disconnect(mgr[p], b)) /\ mgr' = [mgr EXCEPT ![p] = Disconnect(mgr[p], b)]
  BY <1>1, <1>4, WithoutTyped
<1>6. Peered'
  BY <1>1, <1>2, <1>4, <1>5, ManagerSet DEF Peered
<1>7. QED
  BY <1>2, <1>3, <1>6 DEF MInv

(* A turn of verify_brokers replaces connectors or gives brokers up.       *)
LEMMA VerifyBrokersKeeps ==
  ASSUME MInv, NEW p \in Peers, VerifyBrokers(p) PROVE MInv'
<1>1. /\ mgr' = [mgr EXCEPT ![p] = AfterRequests(@)] /\ CloseSockets(p, Spent(mgr[p]), Asked(mgr[p]) \cap alive)
      /\ origin' = Forgotten(p, Hopeless(mgr[p])) /\ UNCHANGED <<alive, broker, out, inside, runs>>
  BY DEF VerifyBrokers
<1>2. Peered /\ Typed(mgr[p]) /\ mgr = [q \in Peers |-> mgr[q]]
  BY DEF MInv, Peered
<1>3. Spent(mgr[p]) \in SUBSET Brokers /\ Asked(mgr[p]) \cap alive \in SUBSET Brokers
  BY <1>2 DEF Typed, Spent, Asked
<1>4. Queues' /\ Accounts' /\ ready' \subseteq Peers \X Brokers
  BY <1>1, <1>3, CloseSocketsKeeps
<1>5. Origins'
  BY <1>1, ForgottenIs
<1>6. Typed(AfterRequests(mgr[p])) /\ mgr' = [mgr EXCEPT ![p] = AfterRequests(mgr[p])]
  BY <1>1, <1>2, RequestsTyped
<1>7. hurries' \in 0 .. MaxHurries
  BY MajordomoAssumption DEF VerifyBrokers, InTime, MInv, Peered
<1>8. Peered'
  BY <1>1, <1>2, <1>4, <1>6, <1>7, ManagerSet DEF Peered
<1>9. QED
  BY <1>4, <1>5, <1>8 DEF MInv

(* A peer reads a message.                                                 *)
LEMMA ReadIs ==
  ASSUME MInv, NEW p \in Peers, NEW b \in Brokers, fromB[b][p] # <<>>, fromB' = [fromB EXCEPT ![b][p] = Tail(@)],
         NEW m, m = Head(fromB[b][p])
  PROVE  /\ Downlinks' /\ m \in Down(p) /\ (m.r # None => m.r \in Load(From(b, p)))
         /\ Load(From(b, p))' = Load(From(b, p)) \ {m.r}
         /\ \A c \in Brokers, q \in Peers : From(c, q) # From(b, p) => Load(From(c, q))' = Load(From(c, q))
<1> DEFINE s == fromB[b][p]  t == Tail(s)
<1>1. Downlinks /\ fromB = [c \in Brokers |-> [q \in Peers |-> fromB[c][q]]] /\ s \in Seq(Down(p)) /\ OnceEach(s)
  BY DEF MInv, Queues, Downlinks
<1>2. fromB' = [fromB EXCEPT ![b][p] = t]
  BY <1>1
<1>3. /\ t \in Seq(Down(p)) /\ m \in Down(p) /\ Carried(s) = Carried(t) \cup ({m.r} \ {None})
      /\ OnceEach(t) /\ m.r \notin Carried(t)
  <2> HIDE DEF s
  <2>1. s # <<>> /\ m = Head(s)
    BY DEF s
  <2>2. QED
    BY <1>1, <2>1, TailMail
<1> HIDE DEF t
<1>4. /\ Downlinks' /\ fromB'[b][p] = t
      /\ \A c \in Brokers, q \in Peers : c # b \/ q # p => fromB'[c][q] = fromB[c][q]
  <2>1. Downlinks /\ t \in Seq(Down(p)) /\ OnceEach(t)
    BY <1>1, <1>3
  <2> HIDE DEF s
  <2>2. fromB' = Swapped(fromB, b, p, t)
    BY <1>2 DEF Swapped
  <2>3. QED
    BY <2>1, <2>2, DownlinkSet
<1>5. Load(From(b, p)) = Carried(s) /\ Load(From(b, p))' = Carried(t)
  <2>1. Load(From(b, p)) = Carried(fromB[b][p])
    BY LoadIs
  <2>2. Load(From(b, p))' = Carried(fromB'[b][p])
    BY LoadNext
  <2>3. QED
    BY <1>4, <2>1, <2>2
<1>6. None \notin Carried(s)
  BY CarriedIs
<1> HIDE DEF s
<1>7. Carried(t) = Carried(s) \ {m.r} /\ (m.r # None => m.r \in Carried(s))
  BY <1>3, <1>6
<1>8. \A c \in Brokers, q \in Peers : From(c, q) # From(b, p) => Load(From(c, q))' = Load(From(c, q))
  BY <1>4, LoadIs, LoadNext
<1>9. QED
  BY <1>3, <1>4, <1>5, <1>7, <1>8

(* A peer reads that a broker has verified it.                             *)
LEMMA InboundVerified ==
  ASSUME MInv, NEW p \in Peers, NEW b \in Brokers, fromB[b][p] # <<>>, Head(fromB[b][p]) = Msg("verified"),
         fromB' = [fromB EXCEPT ![b][p] = Tail(@)], mgr' = [mgr EXCEPT ![p] = Verify(@, b)],
         UNCHANGED <<alive, ready, broker, toB, out, origin, inside, fate, runs, hurries>>
  PROVE  MInv'
<1> DEFINE x0 == From(b, p)
<1>1. Msg("verified").r = None
  BY MessageIs
<1>2. /\ Downlinks' /\ Load(x0)' = Load(x0) \ {None}
      /\ \A c \in Brokers, q \in Peers : From(c, q) # x0 => Load(From(c, q))' = Load(From(c, q))
  BY <1>1, ReadIs
<1>3. None \notin Load(x0)
  BY LoadIs, CarriedIs
<1>4. \A x \in Place : Load(x)' = Load(x)
  <2>1. toB' = toB /\ broker' = broker /\ out' = out /\ inside' = inside
    OBVIOUS
  <2>2. /\ \A q \in Peers : Load(OnQueue(q))' = Load(OnQueue(q))
        /\ \A c \in Brokers : Load(HeldBy(c))' = Load(HeldBy(c))
        /\ \A c \in Brokers, q \in Peers : Load(To(c, q))' = Load(To(c, q))
        /\ \A y \in Workers : Load(Inside(y))' = Load(Inside(y))
    BY <2>1, QueuesStay, RecordsStay, UplinksStay, InsideStay
  <2>3. Load(x0)' = Load(x0)
    BY <1>2, <1>3
  <2> HIDE DEF x0
  <2>4. QED
    BY <1>2, <2>2, <2>3, PlaceIs
<1>5. Outbound' /\ Uplinks' /\ Records'
  BY DEF MInv, Queues, Outbound, Uplinks, Records
<1>6. Accounts'
  BY <1>4, NoneMoves DEF MInv, Accounts
<1>7. Origins'
  BY DEF MInv, Origins
<1>8. Peered'
  <2>1. Peered /\ Typed(mgr[p]) /\ mgr = [q \in Peers |-> mgr[q]]
    BY DEF MInv, Peered
  <2>2. Typed(Verify(mgr[p], b)) /\ mgr' = [mgr EXCEPT ![p] = Verify(mgr[p], b)]
    BY <2>1, WithoutTyped
  <2>3. QED
    BY <2>1, <2>2, ManagerSet DEF Peered
<1>9. QED
  BY <1>2, <1>5, <1>6, <1>7, <1>8 DEF MInv, Queues

(* A peer reads that a broker does not know it, and closes its sockets.    *)
LEMMA InboundDisconnect ==
  ASSUME MInv, NEW p \in Peers, NEW b \in Brokers, mgr' = [mgr EXCEPT ![p] = Disconnect(@, b)],
         CloseSockets(p, {b}, {}), origin' = Forgotten(p, {b}),
         UNCHANGED <<alive, broker, out, inside, runs, hurries>>
  PROVE  MInv'
<1>1. Queues' /\ Accounts' /\ ready' \subseteq Peers \X Brokers
  BY CloseSocketsKeeps
<1>2. Origins'
  BY ForgottenIs
<1>3. Peered /\ Typed(mgr[p]) /\ mgr = [q \in Peers |-> mgr[q]]
  BY DEF MInv, Peered
<1>4. Typed(Disconnect(mgr[p], b)) /\ mgr' = [mgr EXCEPT ![p] = Disconnect(mgr[p], b)]
  BY <1>3, WithoutTyped
<1>5. Peered'
  BY <1>1, <1>3, <1>4, ManagerSet DEF Peered
<1>6. QED
  BY <1>1, <1>2, <1>5 DEF MInv

(* A worker reads a request: it goes inside, and is worked on once.        *)
LEMMA InboundRequest ==
  ASSUME MInv, NEW w \in Workers, NEW b \in Brokers, NEW r \in Requests,
         fromB[b][w] # <<>>, Head(fromB[b][w]) = Carry("request", r),
         fromB' = [fromB EXCEPT ![b][w] = Tail(@)], origin' = [origin EXCEPT ![w] = With(@, r, b)],
         inside' = inside \cup {<<w, r>>}, runs' = [runs EXCEPT ![r] = @ + 1],
         UNCHANGED <<alive, mgr, ready, broker, toB, out, fate, hurries>>
  PROVE  MInv'
<1> DEFINE x0 == From(b, w)  y0 == Inside(w)  m == Carry("request", r)
<1>1. m.r = r /\ r # None /\ w \in Peers /\ m = Head(fromB[b][w])
  BY MessageIs, MajordomoAssumption DEF Peers
<1> HIDE DEF m
<1>2. /\ Downlinks' /\ r \in Load(x0) /\ Load(x0)' = Load(x0) \ {r}
      /\ \A c \in Brokers, q \in Peers : From(c, q) # x0 => Load(From(c, q))' = Load(From(c, q))
  BY <1>1, ReadIs
<1>3. x0 \in Place /\ y0 \in Place /\ x0 # y0 /\ Done(x0) = 0 /\ Done(y0) = 1
  BY <1>1, PlaceIs, Apart, DoneIs
<1>4. \A x \in Place : Load(x)' = IF x = x0 THEN Load(x) \ {r} ELSE IF x = y0 THEN Load(x) \cup {r} ELSE Load(x)
  <2>1. toB' = toB /\ broker' = broker /\ out' = out
    OBVIOUS
  <2>2. /\ \A q \in Peers : Load(OnQueue(q))' = Load(OnQueue(q))
        /\ \A c \in Brokers : Load(HeldBy(c))' = Load(HeldBy(c))
        /\ \A c \in Brokers, q \in Peers : Load(To(c, q))' = Load(To(c, q))
    BY <2>1, QueuesStay, RecordsStay, UplinksStay
  <2>3. \A y \in Workers : {q \in Requests : <<y, q>> \in inside'}
                             = IF y = w THEN {q \in Requests : <<y, q>> \in inside} \cup {r}
                               ELSE {q \in Requests : <<y, q>> \in inside}
    OBVIOUS
  <2>4. \A y \in Workers : Load(Inside(y))' = IF y = w THEN Load(Inside(y)) \cup {r} ELSE Load(Inside(y))
    <3>1. \A y : Load(Inside(y)) = {q \in Requests : <<y, q>> \in inside}
      BY LoadIs
    <3>2. \A y : Load(Inside(y))' = {q \in Requests : <<y, q>> \in inside'}
      BY LoadNext
    <3>3. QED
      BY <2>3, <3>1, <3>2
  <2>5. \A y \in Workers : Load(Inside(y))' = IF Inside(y) = y0 THEN Load(Inside(y)) \cup {r} ELSE Load(Inside(y))
    BY <2>4, Apart
  <2>6. \A c \in Brokers, q \in Peers : Load(From(c, q))' = IF From(c, q) = x0 THEN Load(From(c, q)) \ {r}
                                                             ELSE Load(From(c, q))
    BY <1>2
  <2>7. QED
    BY <2>2, <2>5, <2>6, PlaceIs, Apart
<1> HIDE DEF x0, y0
<1>5. /\ runs = [q \in Requests |-> runs[q]] /\ fate = [q \in Requests |-> fate[q]]
      /\ inside \subseteq Workers \X Requests /\ \A q \in Requests : Accounted(q)
  BY DEF MInv, Accounts
<1>6. Accounted(r)'
  <2>1. \A x \in Place : r \in Load(x) => x = x0
    BY <1>2, <1>3, <1>5 DEF Accounted
  <2>2. \A x \in Place : r \in Load(x)' <=> x = y0
    BY <1>3, <1>4, <2>1
  <2>3. fate'[r] = "open" /\ runs[r] = 0 /\ runs'[r] = 1
    BY <1>2, <1>3, <1>5 DEF Accounted
  <2>4. QED
    BY <1>3, <2>2, <2>3 DEF Accounted, Fates
<1>7. ASSUME NEW q \in Requests, q # r PROVE Accounted(q)'
  <2>1. runs'[q] = runs[q] /\ fate'[q] = fate[q]
    BY <1>5, <1>7
  <2>2. \A x \in Place : q \in Load(x)' <=> q \in Load(x)
    BY <1>4, <1>7
  <2>3. QED
    BY <1>5, <2>1, <2>2, Unmoved
<1>8. Accounts'
  BY <1>5, <1>6, <1>7 DEF Accounts
<1>9. Origins'
  <2>1. origin = [y \in Workers |-> origin[y]]
    BY DEF MInv, Origins
  <2>2. /\ origin' = [y \in Workers |-> origin'[y]] /\ origin'[w] = With(origin[w], r, b)
        /\ \A y \in Workers \ {w} : origin'[y] = origin[y]
    BY <2>1
  <2>3. /\ DOMAIN origin'[w] = DOMAIN origin[w] \cup {r} /\ origin'[w][r] = b
        /\ \A q \in DOMAIN origin[w] \ {r} : origin'[w][q] = origin[w][q]
    BY <2>2 DEF With
  <2>4. \A y \in Workers : \A q \in DOMAIN origin'[y] : origin'[y][q] \in Brokers \cup {None}
    BY <2>2, <2>3 DEF MInv, Origins
  <2>5. \A y \in Workers, q \in Requests : q \in ToSet(out[y]) \/ <<y, q>> \in inside' => q \in DOMAIN origin'[y]
    BY <2>2, <2>3 DEF MInv, Origins
  <2>6. QED
    BY <2>2, <2>4, <2>5 DEF Origins
<1>10. Outbound' /\ Uplinks' /\ Records'
  BY DEF MInv, Queues, Outbound, Uplinks, Records
<1>11. Peered'
  BY ManagersSame DEF MInv, Peered
<1>12. QED
  BY <1>2, <1>8, <1>9, <1>10, <1>11 DEF MInv, Queues

(* A client reads a reply: the request is answered, and nowhere any more.  *)
LEMMA InboundReply ==
  ASSUME MInv, NEW c \in Clients, NEW b \in Brokers, NEW r \in Requests,
         fromB[b][c] # <<>>, Head(fromB[b][c]) = Carry("reply", r),
         fromB' = [fromB EXCEPT ![b][c] = Tail(@)], fate' = [fate EXCEPT ![r] = "answered"],
         UNCHANGED <<alive, mgr, ready, broker, toB, out, origin, inside, runs, hurries>>
  PROVE  MInv'
<1> DEFINE x0 == From(b, c)  m == Carry("reply", r)
<1>1. m.r = r /\ r # None /\ c \in Peers /\ m = Head(fromB[b][c])
  BY MessageIs, MajordomoAssumption DEF Peers
<1> HIDE DEF m
<1>2. /\ Downlinks' /\ r \in Load(x0) /\ Load(x0)' = Load(x0) \ {r}
      /\ \A a \in Brokers, q \in Peers : From(a, q) # x0 => Load(From(a, q))' = Load(From(a, q))
  BY <1>1, ReadIs
<1>3. x0 \in Place /\ Done(x0) = 1
  BY <1>1, PlaceIs, DoneIs
<1>4. \A x \in Place : Load(x)' = IF x = x0 THEN Load(x) \ {r} ELSE Load(x)
  <2>1. toB' = toB /\ broker' = broker /\ out' = out /\ inside' = inside
    OBVIOUS
  <2>2. /\ \A q \in Peers : Load(OnQueue(q))' = Load(OnQueue(q))
        /\ \A a \in Brokers : Load(HeldBy(a))' = Load(HeldBy(a))
        /\ \A a \in Brokers, q \in Peers : Load(To(a, q))' = Load(To(a, q))
        /\ \A y \in Workers : Load(Inside(y))' = Load(Inside(y))
    BY <2>1, QueuesStay, RecordsStay, UplinksStay, InsideStay
  <2>3. QED
    BY <1>2, <2>2, PlaceIs, Apart
<1> HIDE DEF x0
<1>5. fate = [q \in Requests |-> fate[q]] /\ \A q \in Requests : Accounted(q)
  BY DEF MInv, Accounts
<1>6. Accounted(r)'
  <2>1. \A x \in Place : r \in Load(x) => x = x0
    BY <1>2, <1>3, <1>5 DEF Accounted
  <2>2. \A x \in Place : r \notin Load(x)'
    BY <1>4, <2>1
  <2>3. fate'[r] = "answered" /\ runs'[r] = 1
    BY <1>2, <1>3, <1>5 DEF Accounted
  <2>4. QED
    BY <2>2, <2>3 DEF Accounted, Fates
<1>7. ASSUME NEW q \in Requests, q # r PROVE Accounted(q)'
  <2>1. runs'[q] = runs[q] /\ fate'[q] = fate[q]
    BY <1>5, <1>7
  <2>2. \A x \in Place : q \in Load(x)' <=> q \in Load(x)
    BY <1>4, <1>7
  <2>3. QED
    BY <1>5, <2>1, <2>2, Unmoved
<1>8. Accounts'
  <2>1. fate' = [q \in Requests |-> fate'[q]]
    BY <1>5
  <2>2. QED
    BY <1>6, <1>7, <2>1 DEF MInv, Accounts
<1>9. Outbound' /\ Uplinks' /\ Records' /\ Origins'
  BY DEF MInv, Queues, Outbound, Uplinks, Records, Origins
<1>10. Peered'
  BY ManagersSame DEF MInv, Peered
<1>11. QED
  BY <1>2, <1>8, <1>9, <1>10 DEF MInv, Queues

(* What a peer may read.                                                   *)
LEMMA MessageKinds ==
  ASSUME MInv, NEW p \in Peers, NEW b \in Brokers, fromB[b][p] # <<>>, NEW m, m = Head(fromB[b][p])
  PROVE  \/ m = Msg("verified") \/ m = Msg("disconnect")
         \/ p \in Workers /\ \E r \in Requests : m = Carry("request", r)
         \/ p \in Clients /\ \E r \in Requests : m = Carry("reply", r)
<1>1. m \in Down(p)
  <2> DEFINE s == fromB[b][p]
  <2>1. s \in Seq(Down(p)) /\ s # <<>>
    BY DEF MInv, Queues, Downlinks
  <2> HIDE DEF s
  <2>2. Head(s) \in Down(p)
    BY <2>1, TailMail
  <2>3. QED
    BY <2>2 DEF s
<1>2. QED
  BY <1>1 DEF Down, Peers

(* Whatever a peer reads keeps the invariant.                              *)
LEMMA InboundKeeps ==
  ASSUME MInv, NEW p \in Peers, NEW b \in Brokers, Inbound(p, b) PROVE MInv'
<1> DEFINE m == Head(fromB[b][p])
<1>1. UNCHANGED <<alive, broker, out, hurries>> /\ fromB[b][p] # <<>>
  BY DEF Inbound
<1>2. CASE m = Msg("verified")
  <2>1. m.type = "verified"
    BY <1>2, MessageIs
  <2>2. /\ fromB' = [fromB EXCEPT ![b][p] = Tail(@)] /\ mgr' = [mgr EXCEPT ![p] = Verify(@, b)]
        /\ UNCHANGED <<ready, toB, origin, inside, fate, runs>>
    BY <2>1 DEF Inbound
  <2>3. QED
    BY <1>1, <1>2, <2>2, InboundVerified
<1>3. CASE m = Msg("disconnect")
  <2>1. m.type = "disconnect"
    BY <1>3, MessageIs
  <2>2. /\ mgr' = [mgr EXCEPT ![p] = Disconnect(@, b)] /\ CloseSockets(p, {b}, {}) /\ origin' = Forgotten(p, {b})
        /\ UNCHANGED <<inside, runs>>
    BY <2>1 DEF Inbound
  <2>3. QED
    BY <1>1, <2>2, InboundDisconnect
<1>4. ASSUME p \in Workers, NEW r \in Requests, m = Carry("request", r) PROVE MInv'
  <2>1. m.type = "request" /\ m.r = r
    BY <1>4, MessageIs
  <2>2. /\ fromB' = [fromB EXCEPT ![b][p] = Tail(@)] /\ origin' = [origin EXCEPT ![p] = With(@, r, b)]
        /\ inside' = inside \cup {<<p, r>>} /\ runs' = [runs EXCEPT ![r] = @ + 1]
        /\ UNCHANGED <<mgr, ready, toB, fate>>
    BY <2>1 DEF Inbound
  <2>3. QED
    BY <1>1, <1>4, <2>2, InboundRequest
<1>5. ASSUME p \in Clients, NEW r \in Requests, m = Carry("reply", r) PROVE MInv'
  <2>1. m.type = "reply" /\ m.r = r
    BY <1>5, MessageIs
  <2>2. /\ fromB' = [fromB EXCEPT ![b][p] = Tail(@)] /\ fate' = [fate EXCEPT ![r] = "answered"]
        /\ UNCHANGED <<mgr, ready, toB, origin, inside, runs>>
    BY <2>1 DEF Inbound
  <2>3. QED
    BY <1>1, <1>5, <2>2, InboundReply
<1>6. QED
  BY <1>1, <1>2, <1>3, <1>4, <1>5, MessageKinds

(* A place belongs to who it is named after.                               *)
LEMMA PlaceOf ==
  /\ \A z : (OnQueue(z) \in Place => z \in Peers) /\ (HeldBy(z) \in Place => z \in Brokers)
           /\ (Inside(z) \in Place => z \in Workers)
  /\ \A z, v : (To(z, v) \in Place => z \in Brokers) /\ (From(z, v) \in Place => v \in Peers)
<1>1. ASSUME NEW z, OnQueue(z) \in Place PROVE z \in Peers
  BY <1>1, PlaceIs, Apart
<1>2. ASSUME NEW z, HeldBy(z) \in Place PROVE z \in Brokers
  BY <1>2, PlaceIs, Apart
<1>3. ASSUME NEW z, Inside(z) \in Place PROVE z \in Workers
  BY <1>3, PlaceIs, Apart
<1>4. ASSUME NEW z, NEW v, To(z, v) \in Place PROVE z \in Brokers
  BY <1>4, PlaceIs, Apart
<1>5. ASSUME NEW z, NEW v, From(z, v) \in Place PROVE v \in Peers
  BY <1>5, PlaceIs, Apart
<1>6. QED
  BY <1>1, <1>2, <1>3, <1>4, <1>5

(* What a process holds when it ends is lost with it.                      *)
LEMMA HeldIs ==
  ASSUME NEW x \in Brokers \cup Workers, Accounts,
         NEW G, G = {OnQueue(x), HeldBy(x), Inside(x)} \cup {To(x, p) : p \in Peers} \cup {From(b, x) : b \in Brokers}
  PROVE  \A q \in Requests : q \in Held(x) <=> \E y \in Place \cap G : q \in Load(y)
<1>1. Brokers \cap Peers = {} /\ Workers \subseteq Peers
  BY MajordomoAssumption DEF Peers
<1>2. /\ Load(OnQueue(x)) = ToSet(out[x]) /\ Load(HeldBy(x)) = ToSet(broker[x].held)
      /\ Load(Inside(x)) = {r \in Requests : <<x, r>> \in inside}
      /\ \A p \in Peers : Load(To(x, p)) = Carried(toB[x][p])
      /\ \A b \in Brokers : Load(From(b, x)) = Carried(fromB[b][x])
  BY LoadIs
<1>3. CASE x \in Brokers
  <2>1. \A q : q \in Held(x) <=> q \in ToSet(broker[x].held) \/ \E p \in Peers : q \in Carried(toB[x][p])
    BY <1>3 DEF Held
  <2>2. HeldBy(x) \in Place /\ \A p \in Peers : To(x, p) \in Place
    BY <1>3, PlaceIs
  <2>3. /\ OnQueue(x) \notin Place /\ Inside(x) \notin Place
        /\ \A b \in Brokers : From(b, x) \notin Place
    BY <1>1, <1>3, PlaceOf
  <2>4. \A y \in Place \cap G : y = HeldBy(x) \/ \E p \in Peers : y = To(x, p)
    BY <2>3
  <2>5. HeldBy(x) \in Place \cap G /\ \A p \in Peers : To(x, p) \in Place \cap G
    BY <2>2
  <2>6. QED
    BY <1>2, <2>1, <2>4, <2>5
<1>4. CASE x \notin Brokers
  <2>1. \A q \in Requests : q \in Held(x) <=> \/ <<x, q>> \in inside \/ q \in ToSet(out[x])
                                              \/ \E b \in Brokers : q \in Carried(fromB[b][x])
    BY <1>4 DEF Held
  <2>2. OnQueue(x) \in Place /\ Inside(x) \in Place /\ \A b \in Brokers : From(b, x) \in Place
    BY <1>1, <1>4, PlaceIs
  <2>3. HeldBy(x) \notin Place /\ \A p \in Peers : To(x, p) \notin Place
    BY <1>4, PlaceOf
  <2>4. \A y \in Place \cap G : y = OnQueue(x) \/ y = Inside(x) \/ \E b \in Brokers : y = From(b, x)
    BY <2>3
  <2>5. OnQueue(x) \in Place \cap G /\ Inside(x) \in Place \cap G /\ \A b \in Brokers : From(b, x) \in Place \cap G
    BY <2>2
  <2>6. ASSUME NEW q \in Requests, NEW y \in Place \cap G, q \in Load(y) PROVE q \in Held(x)
    BY <1>2, <2>1, <2>4, <2>6
  <2>7. ASSUME NEW q \in Requests, q \in Held(x) PROVE \E y \in Place \cap G : q \in Load(y)
    <3>1. CASE <<x, q>> \in inside
      BY <1>2, <2>5, <3>1
    <3>2. CASE q \in ToSet(out[x])
      BY <1>2, <2>5, <3>2
    <3>3. CASE \E b \in Brokers : q \in Carried(fromB[b][x])
      BY <1>2, <2>5, <3>3
    <3>4. QED
      BY <2>1, <2>7, <3>1, <3>2, <3>3
  <2>8. QED
    BY <2>6, <2>7
<1>5. QED
  BY <1>3, <1>4

(* The record of a new broker.                                             *)
LEMMA NewBrokerIs == Stock(NewBroker) /\ NewBroker.sent = NoMail /\ NewBroker.held = <<>>
<1> DEFINE k == [w \in {} |-> 0]
<1>1. NewBroker = [known |-> k, line |-> <<>>, held |-> <<>>, sent |-> NoMail]
  BY DEF NewBroker
<1>2. DOMAIN k = {}
  OBVIOUS
<1> HIDE DEF k
<1>3. /\ NewBroker.known = k /\ NewBroker.line = <<>> /\ NewBroker.held = <<>> /\ NewBroker.sent = NoMail
      /\ NewBroker = [known |-> NewBroker.known, line |-> NewBroker.line, held |-> NewBroker.held, sent |-> NewBroker.sent]
  BY <1>1
<1>4. Workforce(k, <<>>)
  BY <1>2, EmptyIs DEF Workforce
<1>5. NoMail = [p \in Peers |-> NoMail[p]] /\ \A p \in Peers : NoMail[p] = <<>>
  BY DEF NoMail
<1>6. QED
  BY <1>3, <1>4, <1>5, EmptyIs DEF Stock

(* A broker or worker ends, and what it holds is lost with it.             *)
LEMMA CrashKeeps ==
  ASSUME MInv, NEW x \in Brokers \cup Workers, Crash(x) PROVE MInv'
<1> DEFINE G == {OnQueue(x), HeldBy(x), Inside(x)} \cup {To(x, p) : p \in Peers} \cup {From(b, x) : b \in Brokers}
<1>1. /\ fate' = LostAlso(Held(x)) /\ alive' = alive \ {x}
      /\ broker' = [b \in Brokers |-> IF b = x THEN NewBroker ELSE broker[b]]
      /\ toB' = [b \in Brokers |-> IF b = x THEN [p \in Peers |-> <<>>] ELSE toB[b]]
      /\ fromB' = [b \in Brokers |-> [p \in Peers |-> IF p = x THEN <<>> ELSE fromB[b][p]]]
      /\ out' = [p \in Peers |-> IF p = x THEN <<>> ELSE out[p]]
      /\ inside' = {i \in inside : i[1] # x}
      /\ ready' = {c \in ready : x \notin {c[1], c[2]}}
      /\ UNCHANGED <<mgr, origin, runs, hurries>>
  BY DEF Crash
<1>2. Outbound /\ Uplinks /\ Downlinks /\ Records /\ Accounts /\ Origins /\ Peered
  BY DEF MInv, Queues
<1>3. Outbound' /\ \A p \in Peers : out'[p] = IF p = x THEN <<>> ELSE out[p]
  BY <1>1, <1>2, EmptyIs DEF Outbound
<1>4. Records' /\ \A b \in Brokers : broker'[b] = IF b = x THEN NewBroker ELSE broker[b]
  <2>1. /\ broker' = [b \in Brokers |-> broker'[b]]
        /\ \A b \in Brokers : broker'[b] = IF b = x THEN NewBroker ELSE broker[b]
    BY <1>1
  <2>2. \A b \in Brokers : Stock(broker'[b]) /\ broker'[b].sent = NoMail
    BY <1>2, <2>1, NewBrokerIs DEF Records
  <2>3. QED
    BY <2>1, <2>2 DEF Records
<1>5. Uplinks' /\ \A b \in Brokers, p \in Peers : toB'[b][p] = IF b = x THEN <<>> ELSE toB[b][p]
  <2> DEFINE f == toB'
  <2>1. \A b \in Brokers : toB[b] = [q \in Peers |-> toB[b][q]]
    BY <1>2 DEF Uplinks
  <2>2. \A b \in Brokers : f[b] = [q \in Peers |-> IF b = x THEN <<>> ELSE toB[b][q]]
    BY <1>1, <2>1
  <2>3. f = [b \in Brokers |-> f[b]]
    BY <1>1
  <2> HIDE DEF f
  <2>4. \A b \in Brokers : f[b] = [q \in Peers |-> f[b][q]]
    BY <2>2
  <2>5. f = [b \in Brokers |-> [q \in Peers |-> f[b][q]]]
    BY <2>3, <2>4
  <2>6. ASSUME NEW b \in Brokers, NEW q \in Peers PROVE f[b][q] = IF b = x THEN <<>> ELSE toB[b][q]
    <3>1. f[b] = [y \in Peers |-> IF b = x THEN <<>> ELSE toB[b][y]]
      BY <2>2
    <3>2. QED
      BY <3>1
  <2>7. \A b \in Brokers, q \in Peers : f[b][q] \in Seq(Up(q)) /\ OnceEach(f[b][q])
    BY <1>2, <2>6, EmptyIs DEF Uplinks
  <2>8. /\ toB' = [b \in Brokers |-> [q \in Peers |-> toB'[b][q]]]
        /\ \A b \in Brokers, q \in Peers : toB'[b][q] \in Seq(Up(q)) /\ OnceEach(toB'[b][q])
    BY <2>5, <2>7 DEF f
  <2>9. Uplinks'
    BY <2>8 DEF Uplinks, Up, Msg, Carry, OnceEach
  <2>10. QED
    BY <2>6, <2>9 DEF f
<1>6. Downlinks' /\ \A b \in Brokers, p \in Peers : fromB'[b][p] = IF p = x THEN <<>> ELSE fromB[b][p]
  <2>1. /\ fromB' = [b \in Brokers |-> [q \in Peers |-> fromB'[b][q]]]
        /\ \A b \in Brokers, q \in Peers : fromB'[b][q] = IF q = x THEN <<>> ELSE fromB[b][q]
    BY <1>1
  <2>2. \A b \in Brokers, q \in Peers : fromB'[b][q] \in Seq(Down(q)) /\ OnceEach(fromB'[b][q])
    BY <1>2, <2>1, EmptyIs DEF Downlinks
  <2>3. QED
    BY <2>1, <2>2 DEF Downlinks, Down, Msg, Carry, OnceEach
<1>7. \A y \in Place : Load(y)' = IF y \in G THEN {} ELSE Load(y)
  <2>1. \A p \in Peers : Load(OnQueue(p))' = IF p = x THEN {} ELSE Load(OnQueue(p))
    BY <1>3, LoadIs, LoadNext, EmptyIs
  <2>2. \A b \in Brokers : Load(HeldBy(b))' = IF b = x THEN {} ELSE Load(HeldBy(b))
    BY <1>4, LoadIs, LoadNext, EmptyIs, NewBrokerIs
  <2>3. \A b \in Brokers, p \in Peers : Load(To(b, p))' = IF b = x THEN {} ELSE Load(To(b, p))
    BY <1>5, LoadIs, LoadNext, EmptyIs
  <2>4. \A b \in Brokers, p \in Peers : Load(From(b, p))' = IF p = x THEN {} ELSE Load(From(b, p))
    BY <1>6, LoadIs, LoadNext, EmptyIs
  <2>5. \A w \in Workers : Load(Inside(w))' = IF w = x THEN {} ELSE Load(Inside(w))
    <3>1. \A w \in Workers : {r \in Requests : <<w, r>> \in inside'}
                               = IF w = x THEN {} ELSE {r \in Requests : <<w, r>> \in inside}
      BY <1>1
    <3>2. QED
      BY <3>1, LoadIs, LoadNext
  <2>6. /\ \A p \in Peers : OnQueue(p) \in G <=> p = x
        /\ \A b \in Brokers : HeldBy(b) \in G <=> b = x
        /\ \A w \in Workers : Inside(w) \in G <=> w = x
    BY Apart
  <2>7. \A b \in Brokers, p \in Peers : To(b, p) \in G <=> b = x
    BY Apart
  <2>8. \A b \in Brokers, p \in Peers : From(b, p) \in G <=> p = x
    BY Apart
  <2> HIDE DEF G
  <2>9. QED
    BY <2>1, <2>2, <2>3, <2>4, <2>5, <2>6, <2>7, <2>8, PlaceIs
<1>8. \A q \in Requests : q \in Held(x) <=> \E y \in Place \cap G : q \in Load(y)
  BY <1>2, HeldIs
<1> HIDE DEF G
<1>9. \A q \in Requests : Accounted(q)'
  <2> DEFINE D == Held(x)
  <2>1. \A q \in Requests : Accounted(q)
    BY <1>2 DEF Accounts
  <2>2. fate' = LostAlso(D) /\ UNCHANGED runs /\ \A q \in Requests : q \in D <=> \E y \in Place \cap G : q \in Load(y)
    BY <1>1, <1>8
  <2> HIDE DEF D
  <2>3. QED
    BY <1>7, <2>1, <2>2, SomeLost
<1>10. Accounts'
  BY <1>1, <1>2, <1>9 DEF Accounts, LostAlso
<1>11. Origins'
  <2>1. \A w \in Workers : ToSet(out'[w]) \subseteq ToSet(out[w])
    BY <1>3, EmptyIs DEF Peers
  <2>2. inside' \subseteq inside
    BY <1>1
  <2>3. QED
    BY <1>1, <1>2, <2>1, <2>2 DEF Origins
<1>12. Peered'
  <2>1. alive' \subseteq alive /\ ready' \subseteq Peers \X Brokers /\ hurries' \in 0 .. MaxHurries
    BY <1>1, <1>2 DEF Peered
  <2>2. QED
    BY <1>1, <1>2, <2>1, ManagersSame
<1>13. QED
  BY <1>3, <1>4, <1>5, <1>6, <1>10, <1>11, <1>12 DEF MInv, Queues

(* What b sends is lost to peers whose socket it does not know, and the    *)
(* rest, with what it holds, is at its places.                             *)
Drops(b, s, D) == \A r : r \in D <=> \E q \in Peers : <<q, b>> \notin ready /\ r \in Carried(s.sent[q])

Passes(b, p, m, s) ==
  \A y \in Place :
    \/ y = HeldBy(b) /\ Load(y)' = ToSet(s.held)
    \/ y = To(b, p) /\ Load(y)' = Load(y) \ Cargo(m)
    \/ \E q \in Peers : /\ y = From(b, q)
                        /\ Load(y)' = Load(y) \cup (IF <<q, b>> \in ready THEN Carried(s.sent[q]) ELSE {})
    \/ y # HeldBy(b) /\ y # To(b, p) /\ (\A q \in Peers : y # From(b, q)) /\ Load(y)' = Load(y)

(* A broker delivers: what is held, and what the message it has taken      *)
(* carries, is held after the step, on its way to a peer, or lost on its   *)
(* way to a peer whose socket is not known.                                *)
LEMMA DeliveryMoves ==
  ASSUME MInv, NEW b \in Brokers, NEW p \in Peers, NEW m, NEW s, Handled(broker[b], p, m, s),
         Cargo(m) \subseteq Load(To(b, p)), NEW D, Drops(b, s, D), Passes(b, p, m, s),
         UNCHANGED runs, fate' = LostAlso(D)
  PROVE  \A r \in Requests : Accounted(r)'
<1> DEFINE K == {q \in Peers : <<q, b>> \in ready}
           H == ToSet(broker[b].held)  C == Cargo(m)  Goes(q) == Carried(s.sent[q])  x1 == HeldBy(b)  x2 == To(b, p)
<1> SUFFICES ASSUME NEW r \in Requests PROVE Accounted(r)'
  OBVIOUS
<1>1. Accounted(r) /\ runs'[r] = runs[r] /\ fate'[r] = IF r \in D THEN "lost" ELSE fate[r]
  BY DEF MInv, Accounts, LostAlso
<1>2. \A x, y \in Place : r \in Load(x) /\ r \in Load(y) => x = y
  BY <1>1 DEF Accounted
<1>3. /\ x1 \in Place /\ x2 \in Place /\ x1 # x2 /\ Load(x1) = H
      /\ \A q \in Peers : From(b, q) \in Place /\ From(b, q) # x1 /\ From(b, q) # x2
      /\ \A q, u \in Peers : From(b, q) = From(b, u) => q = u
  BY PlaceIs, Apart, LoadIs
<1>4. /\ Done(x1) = 0
      /\ p \in Clients => Done(x2) = 0 /\ \A c \in Clients : Goes(c) = {}
      /\ p \notin Clients => Done(x2) = 1 /\ \A c \in Clients : Done(From(b, c)) = 1 /\ Goes(c) \subseteq C
      /\ \A w \in Workers : Done(From(b, w)) = 0
  BY DoneIs DEF Handled, Peers
<1>5. /\ \A q \in Peers : Goes(q) \cap ToSet(s.held) = {}
      /\ \A q, u \in Peers : q # u => Goes(q) \cap Goes(u) = {}
  BY DEF Handled, Stock
<1>6. /\ ToSet(s.held) \subseteq H \cup (IF p \in Clients THEN C ELSE {})
      /\ \A w \in Workers : Goes(w) \subseteq H \cup (IF p \in Clients THEN C ELSE {})
      /\ r \in H \cup C => r \in ToSet(s.held) \/ \E q \in Peers : r \in Goes(q)
  BY DEF Handled
<1>7. \A q \in Peers : q \in Workers \/ q \in Clients
  BY DEF Peers
<1>8. /\ \A q : r \in D <=> \E u \in Peers \ K : r \in Goes(u)
      /\ Load(x1)' = ToSet(s.held) /\ Load(x2)' = Load(x2) \ C
      /\ \A q \in Peers : Load(From(b, q))' = Load(From(b, q)) \cup (IF q \in K THEN Goes(q) ELSE {})
      /\ \A y \in Place : y # x1 /\ y # x2 /\ (\A q \in Peers : y # From(b, q)) => Load(y)' = Load(y)
      /\ C \subseteq Load(x2)
  <2>1. \A q \in Peers : Load(From(b, q))' = Load(From(b, q)) \cup (IF q \in K THEN Goes(q) ELSE {})
    BY <1>3 DEF Passes
  <2>2. Load(x1)' = ToSet(s.held) /\ Load(x2)' = Load(x2) \ C
    BY <1>3 DEF Passes
  <2>3. \A q : r \in D <=> \E u \in Peers \ K : r \in Goes(u)
    BY DEF Drops
  <2>4. \A y \in Place : y # x1 /\ y # x2 /\ (\A q \in Peers : y # From(b, q)) => Load(y)' = Load(y)
    BY DEF Passes
  <2>5. QED
    BY <2>1, <2>2, <2>3, <2>4
<1> HIDE DEF H, C, Goes, x1, x2, K
<1>9. CASE r \notin H \cup C
  <2>1. r \notin ToSet(s.held) /\ (\A q \in Peers : r \notin Goes(q)) /\ r \notin D
    BY <1>4, <1>6, <1>7, <1>8, <1>9
  <2>2. \A y \in Place : r \in Load(y)' <=> r \in Load(y)
    <3> SUFFICES ASSUME NEW y \in Place PROVE r \in Load(y)' <=> r \in Load(y)
      OBVIOUS
    <3>1. CASE y = x1
      BY <1>3, <1>8, <1>9, <2>1, <3>1
    <3>2. CASE y = x2
      BY <1>8, <1>9, <3>2
    <3>3. ASSUME NEW q \in Peers, y = From(b, q) PROVE r \in Load(y)' <=> r \in Load(y)
      BY <1>8, <2>1, <3>3
    <3>4. QED
      BY <1>8, <3>1, <3>2, <3>3
  <2>3. runs'[r] = runs[r] /\ fate'[r] = fate[r]
    BY <1>1, <2>1
  <2>4. QED
    BY <1>1, <2>2, <2>3, Unmoved
<1>10. CASE r \in H \cup C
  <2>1. \A y \in Place : r \in Load(y) => (y = x1 /\ r \in H) \/ (y = x2 /\ r \in C)
    BY <1>2, <1>3, <1>8, <1>10
  <2>2. \A y \in Place : r \in Load(y)' => \/ y = x1 /\ r \in ToSet(s.held)
                                           \/ \E q \in Peers \cap K : y = From(b, q) /\ r \in Goes(q)
    <3> SUFFICES ASSUME NEW y \in Place, r \in Load(y)'
                 PROVE  \/ y = x1 /\ r \in ToSet(s.held)
                        \/ \E q \in Peers \cap K : y = From(b, q) /\ r \in Goes(q)
      OBVIOUS
    <3>1. CASE y = x1
      BY <1>8, <3>1
    <3>2. CASE y = x2
      BY <1>3, <1>8, <2>1, <3>2
    <3>3. ASSUME NEW q \in Peers, y = From(b, q) PROVE q \in K /\ r \in Goes(q)
      BY <1>3, <1>8, <2>1, <3>3
    <3>4. QED
      BY <1>8, <2>1, <3>1, <3>2, <3>3
  <2>3. \A y \in Place : r \in Load(y)' => r \notin D /\ \E x \in Place : r \in Load(x) /\ Done(x) = Done(y)
    <3> SUFFICES ASSUME NEW y \in Place, r \in Load(y)'
                 PROVE  r \notin D /\ \E x \in Place : r \in Load(x) /\ Done(x) = Done(y)
      OBVIOUS
    <3>1. CASE y = x1 /\ r \in ToSet(s.held)
      <4>1. r \notin D
        BY <1>5, <1>8, <3>1
      <4>2. r \in H \/ (p \in Clients /\ r \in C)
        BY <1>6, <3>1
      <4>3. \E x \in Place : r \in Load(x) /\ Done(x) = 0
        BY <1>3, <1>4, <1>8, <4>2
      <4>4. QED
        BY <1>4, <3>1, <4>1, <4>3
    <3>2. ASSUME NEW q \in Peers \cap K, y = From(b, q), r \in Goes(q)
          PROVE  r \notin D /\ \E x \in Place : r \in Load(x) /\ Done(x) = Done(y)
      <4>1. r \notin D
        BY <1>5, <1>8, <3>2
      <4>2. CASE q \in Workers
        <5>1. r \in H \/ (p \in Clients /\ r \in C)
          BY <1>6, <3>2, <4>2
        <5>2. \E x \in Place : r \in Load(x) /\ Done(x) = 0
          BY <1>3, <1>4, <1>8, <5>1
        <5>3. QED
          BY <1>4, <3>2, <4>1, <4>2, <5>2
      <4>3. CASE q \in Clients
        <5>1. p \notin Clients /\ r \in C
          BY <1>4, <3>2, <4>3
        <5>2. QED
          BY <1>3, <1>4, <1>8, <3>2, <4>1, <4>3, <5>1
      <4>4. QED
        BY <1>7, <4>2, <4>3
    <3>3. QED
      BY <2>2, <3>1, <3>2
  <2>4. \A x, y \in Place : r \in Load(x)' /\ r \in Load(y)' => x = y
    BY <1>5, <2>2
  <2>5. \A x \in Place : r \in Load(x) /\ r \notin D => \E y \in Place : r \in Load(y)'
    <3>1. ASSUME r \notin D PROVE \E y \in Place : r \in Load(y)'
      <4>1. CASE r \in ToSet(s.held)
        BY <1>3, <1>8, <4>1
      <4>2. ASSUME NEW q \in Peers, r \in Goes(q) PROVE \E y \in Place : r \in Load(y)'
        BY <1>3, <1>8, <3>1, <4>2
      <4>3. QED
        BY <1>6, <1>10, <4>1, <4>2
    <3>2. QED
      BY <3>1
  <2>6. QED
    BY <1>1, <2>3, <2>4, <2>5, Moved
<1>11. QED
  BY <1>9, <1>10

(* What is left of what peers have sent to b when it has taken m of p.     *)
Leaves(b, p, m, taken) ==
  /\ taken = [q \in Peers |-> taken[q]] /\ \A q \in Peers : taken[q] \in Seq(Up(q)) /\ OnceEach(taken[q])
  /\ \A q \in Peers : Carried(taken[q]) = Carried(toB[b][q]) \ (IF q = p THEN Cargo(m) ELSE {})
  /\ Cargo(m) \subseteq Carried(toB[b][p])

(* The delivery that ends each step of mediate keeps the invariant.        *)
LEMMA DeliversKeeps ==
  ASSUME MInv, NEW b \in Brokers, NEW p \in Peers, NEW m, NEW s, Handled(broker[b], p, m, s),
         NEW taken, Leaves(b, p, m, taken),
         Delivers(b, s, taken), hurries' \in 0 .. MaxHurries
  PROVE  MInv'
<1> DEFINE K == {q \in Peers : <<q, b>> \in ready}
           D == UNION {Carried(s.sent[q]) : q \in {u \in Peers : ~(<<u, b>> \in ready)}}
           t == [s EXCEPT !.sent = NoMail]
           Goes(q) == IF q \in K THEN Carried(s.sent[q]) ELSE {}
           new == [q \in Peers |-> IF q \in K THEN fromB[b][q] \o s.sent[q] ELSE fromB[b][q]]
<1>1. /\ broker' = [broker EXCEPT ![b] = t] /\ toB' = [toB EXCEPT ![b] = taken] /\ fromB' = [fromB EXCEPT ![b] = new]
      /\ fate' = LostAlso(D) /\ UNCHANGED <<alive, mgr, ready, out, origin, inside, runs>>
  BY DEF Delivers
<1>2. Outbound /\ Uplinks /\ Downlinks /\ Records /\ Accounts /\ Origins /\ Peered
  BY DEF MInv, Queues
<1>3. Stock(s)
  BY DEF Handled
<1>4. /\ taken = [q \in Peers |-> taken[q]] /\ \A q \in Peers : taken[q] \in Seq(Up(q)) /\ OnceEach(taken[q])
      /\ \A q \in Peers : Carried(taken[q]) = Carried(toB[b][q]) \ (IF q = p THEN Cargo(m) ELSE {})
      /\ Cargo(m) \subseteq Carried(toB[b][p])
  BY DEF Leaves
<1>5. Stock(t) /\ t.sent = NoMail /\ t.held = s.held
  <2> DEFINE k == s.known  l == s.line  h == s.held  x == s.sent
  <2>1. s = [known |-> k, line |-> l, held |-> h, sent |-> x]
    BY <1>3 DEF Stock
  <2>2. Workforce(k, l) /\ h \in Seq(Requests) /\ Once(h)
    BY <1>3 DEF Stock
  <2> HIDE DEF k, l, h, x
  <2>3. t = [known |-> k, line |-> l, held |-> h, sent |-> NoMail]
    BY <2>1
  <2> HIDE DEF t
  <2>4. /\ t.known = k /\ t.line = l /\ t.held = h /\ t.sent = NoMail
        /\ t = [known |-> t.known, line |-> t.line, held |-> t.held, sent |-> t.sent]
    BY <2>3, StockFields
  <2>5. NoMail = [q \in Peers |-> NoMail[q]] /\ \A q \in Peers : NoMail[q] = <<>>
    BY DEF NoMail
  <2>6. Stock(t)
    BY <2>2, <2>4, <2>5, EmptyIs DEF Stock
  <2>7. QED
    BY <2>4, <2>6 DEF h
<1> HIDE DEF t
<1>6. Records' /\ broker'[b] = t /\ \A c \in Brokers \ {b} : broker'[c] = broker[c]
  BY <1>1, <1>2, <1>5, RecordSet
<1>7. /\ Uplinks' /\ \A q \in Peers : toB'[b][q] = taken[q]
      /\ \A c \in Brokers, q \in Peers : c # b => toB'[c][q] = toB[c][q]
  <2>1. toB = [c \in Brokers |-> toB[c]] /\ \A c \in Brokers : toB[c] = [q \in Peers |-> toB[c][q]]
    BY <1>2 DEF Uplinks
  <2>2. toB' = [c \in Brokers |-> toB'[c]] /\ toB'[b] = taken /\ \A c \in Brokers \ {b} : toB'[c] = toB[c]
    BY <1>1, <2>1
  <2>3. \A c \in Brokers : toB'[c] = [q \in Peers |-> toB'[c][q]]
    BY <1>4, <2>1, <2>2
  <2>4. \A c \in Brokers, q \in Peers : toB'[c][q] \in Seq(Up(q)) /\ OnceEach(toB'[c][q])
    BY <1>2, <1>4, <2>2 DEF Uplinks
  <2>5. toB' = [c \in Brokers |-> [q \in Peers |-> toB'[c][q]]]
    BY <2>2, <2>3
  <2>6. Uplinks'
    BY <2>4, <2>5 DEF Uplinks, Up, Msg, Carry, OnceEach
  <2>7. QED
    BY <2>2, <2>6
<1>8. \A q \in Peers : Carried(s.sent[q]) \subseteq Load(HeldBy(b)) \cup Load(To(b, p))
  <2>1. ToSet(broker[b].held) = Load(HeldBy(b)) /\ Cargo(m) \subseteq Load(To(b, p))
    BY <1>4, LoadIs
  <2>2. \A q \in Peers : Carried(s.sent[q]) \subseteq ToSet(broker[b].held) \cup Cargo(m)
    BY DEF Handled, Peers
  <2>3. QED
    BY <2>1, <2>2
<1>9. \A q \in Peers : Carried(fromB[b][q]) \cap Carried(s.sent[q]) = {}
  <2> SUFFICES ASSUME NEW q \in Peers, NEW r \in Carried(fromB[b][q]), r \in Carried(s.sent[q]) PROVE FALSE
    OBVIOUS
  <2>1. /\ HeldBy(b) \in Place /\ To(b, p) \in Place /\ From(b, q) \in Place
        /\ From(b, q) # HeldBy(b) /\ From(b, q) # To(b, p) /\ r \in Load(From(b, q))
    BY PlaceIs, Apart, LoadIs
  <2>2. r \in Load(HeldBy(b)) \/ r \in Load(To(b, p))
    BY <1>8
  <2>3. r \in Requests
    <3>1. fromB[b][q] \in Seq(Down(q))
      BY <1>2 DEF Downlinks
    <3>2. PICK i \in DOMAIN fromB[b][q] : fromB[b][q][i].r = r /\ r # None
      BY CarriedIs
    <3>3. fromB[b][q][i] \in Down(q)
      BY <3>1, <3>2
    <3>4. QED
      BY <3>2, <3>3, MessageIs DEF Down
  <2>4. QED
    BY <2>1, <2>2, <2>3, OnePlaceOnly
<1>10. \A q \in Peers : /\ new[q] \in Seq(Down(q)) /\ OnceEach(new[q])
                       /\ Carried(new[q]) = Carried(fromB[b][q]) \cup Goes(q)
  <2> SUFFICES ASSUME NEW q \in Peers
               PROVE  /\ new[q] \in Seq(Down(q)) /\ OnceEach(new[q])
                      /\ Carried(new[q]) = Carried(fromB[b][q]) \cup Goes(q)
    OBVIOUS
  <2> DEFINE f == fromB[b][q]  x == s.sent[q]
  <2>1. f \in Seq(Down(q)) /\ OnceEach(f) /\ x \in Seq(Down(q)) /\ OnceEach(x) /\ Carried(f) \cap Carried(x) = {}
    BY <1>2, <1>3, <1>9 DEF Downlinks, Stock
  <2>2. new[q] = IF q \in K THEN f \o x ELSE f
    OBVIOUS
  <2> HIDE DEF f, x, new
  <2>3. f \o x \in Seq(Down(q)) /\ Carried(f \o x) = Carried(f) \cup Carried(x) /\ OnceEach(f \o x)
    BY <2>1, ConcatMail
  <2>4. QED
    BY <2>1, <2>2, <2>3 DEF f, x
<1>11. new = [q \in Peers |-> new[q]]
  OBVIOUS
<1> HIDE DEF new
<1>12. /\ Downlinks' /\ \A q \in Peers : fromB'[b][q] = new[q]
       /\ \A c \in Brokers, q \in Peers : c # b => fromB'[c][q] = fromB[c][q]
  <2>1. fromB = [c \in Brokers |-> fromB[c]] /\ \A c \in Brokers : fromB[c] = [q \in Peers |-> fromB[c][q]]
    BY <1>2 DEF Downlinks
  <2>2. fromB' = [c \in Brokers |-> fromB'[c]] /\ fromB'[b] = new /\ \A c \in Brokers \ {b} : fromB'[c] = fromB[c]
    BY <1>1, <2>1
  <2>3. \A c \in Brokers : fromB'[c] = [q \in Peers |-> fromB'[c][q]]
    BY <1>11, <2>1, <2>2
  <2>4. \A c \in Brokers, q \in Peers : fromB'[c][q] \in Seq(Down(q)) /\ OnceEach(fromB'[c][q])
    BY <1>2, <1>10, <2>2 DEF Downlinks
  <2>5. fromB' = [c \in Brokers |-> [q \in Peers |-> fromB'[c][q]]]
    BY <2>2, <2>3
  <2>6. Downlinks'
    BY <2>4, <2>5 DEF Downlinks, Down, Msg, Carry, OnceEach
  <2>7. QED
    BY <2>2, <2>6
<1>13. Passes(b, p, m, s)
  <2>1. out' = out /\ inside' = inside
    BY <1>1
  <2>2. /\ \A q \in Peers : Load(OnQueue(q))' = Load(OnQueue(q))
        /\ \A w \in Workers : Load(Inside(w))' = Load(Inside(w))
    BY <2>1, QueuesStay, InsideStay
  <2>3. /\ \A q \in Peers : OnQueue(q) # HeldBy(b) /\ OnQueue(q) # To(b, p) /\ \A u \in Peers : OnQueue(q) # From(b, u)
        /\ \A w \in Workers : Inside(w) # HeldBy(b) /\ Inside(w) # To(b, p) /\ \A u \in Peers : Inside(w) # From(b, u)
        /\ \A c \in Brokers \ {b} : HeldBy(c) # HeldBy(b)
        /\ \A c \in Brokers : HeldBy(c) # To(b, p) /\ \A u \in Peers : HeldBy(c) # From(b, u)
    BY Apart
  <2>4. Load(HeldBy(b))' = ToSet(s.held)
    BY <1>5, <1>6, LoadNext
  <2>5. \A c \in Brokers \ {b} : Load(HeldBy(c))' = Load(HeldBy(c))
    BY <1>6, LoadIs, LoadNext
  <2>6. Load(To(b, p))' = Load(To(b, p)) \ Cargo(m)
    BY <1>7, <1>4, LoadIs, LoadNext
  <2>7. \A c \in Brokers, q \in Peers : c # b \/ q # p => Load(To(c, q))' = Load(To(c, q))
    <3>1. \A c \in Brokers, q \in Peers : c # b => Load(To(c, q))' = Load(To(c, q))
      BY <1>7, LoadIs, LoadNext
    <3>2. \A q \in Peers \ {p} : Carried(toB'[b][q]) = Carried(toB[b][q])
      BY <1>7, <1>4
    <3>3. \A q \in Peers \ {p} : Load(To(b, q))' = Load(To(b, q))
      BY <3>2, LoadIs, LoadNext
    <3>4. QED
      BY <3>1, <3>3
  <2>8. \A c \in Brokers, q \in Peers : c # b \/ q # p =>
          To(c, q) # HeldBy(b) /\ To(c, q) # To(b, p) /\ \A u \in Peers : To(c, q) # From(b, u)
    BY Apart
  <2>9. \A q \in Peers : Load(From(b, q))' = Load(From(b, q)) \cup Goes(q)
    <3>1. \A q \in Peers : Carried(fromB'[b][q]) = Carried(fromB[b][q]) \cup Goes(q)
      BY <1>10, <1>12
    <3> HIDE DEF K
    <3> SUFFICES ASSUME NEW q \in Peers
                 PROVE  Load(From(b, q))' = Load(From(b, q)) \cup Goes(q)
      OBVIOUS
    <3>2. Load(From(b, q))' = Carried(fromB'[b][q]) /\ Load(From(b, q)) = Carried(fromB[b][q])
      BY LoadIs, LoadNext
    <3>3. QED
      BY <3>1, <3>2
  <2>10. \A c \in Brokers, q \in Peers : c # b => Load(From(c, q))' = Load(From(c, q))
    BY <1>12, LoadIs, LoadNext
  <2>11. \A c \in Brokers, q \in Peers : c # b =>
           From(c, q) # HeldBy(b) /\ From(c, q) # To(b, p) /\ \A u \in Peers : From(c, q) # From(b, u)
    BY Apart
  <2> HIDE DEF K, Goes
  <2> SUFFICES ASSUME NEW y \in Place
               PROVE  \/ y = HeldBy(b) /\ Load(y)' = ToSet(s.held)
                      \/ y = To(b, p) /\ Load(y)' = Load(y) \ Cargo(m)
                      \/ \E q \in Peers : y = From(b, q) /\ Load(y)' = Load(y) \cup Goes(q)
                      \/ y # HeldBy(b) /\ y # To(b, p) /\ (\A q \in Peers : y # From(b, q)) /\ Load(y)' = Load(y)
    BY DEF Passes, K, Goes
  <2>12. CASE \E q \in Peers : y = OnQueue(q)
    BY <2>2, <2>3, <2>12
  <2>13. CASE \E c \in Brokers : y = HeldBy(c)
    BY <2>3, <2>4, <2>5, <2>13
  <2>14. CASE \E c \in Brokers, q \in Peers : y = To(c, q)
    BY <2>6, <2>7, <2>8, <2>14
  <2>15. CASE \E c \in Brokers, q \in Peers : y = From(c, q)
    BY <2>9, <2>10, <2>11, <2>15
  <2>16. CASE \E w \in Workers : y = Inside(w)
    BY <2>2, <2>3, <2>16
  <2>17. QED
    BY <2>12, <2>13, <2>14, <2>15, <2>16, PlaceIs
<1>14. Drops(b, s, D)
  BY DEF Drops
<1>15. Cargo(m) \subseteq Load(To(b, p)) /\ UNCHANGED runs /\ fate' = LostAlso(D)
  BY <1>1, <1>4, LoadIs
<1> HIDE DEF K, D
<1>16. \A r \in Requests : Accounted(r)'
  BY <1>13, <1>14, <1>15, DeliveryMoves
<1>17. Accounts'
  BY <1>1, <1>2, <1>16 DEF Accounts, LostAlso
<1>18. Outbound' /\ Origins'
  BY <1>1, <1>2 DEF Outbound, Origins
<1>19. Peered'
  <2>1. mgr' = mgr /\ alive' \subseteq alive /\ ready' \subseteq Peers \X Brokers
    BY <1>1, <1>2 DEF Peered
  <2>2. QED
    BY <1>2, <2>1, ManagersSame
<1>20. QED
  BY <1>6, <1>7, <1>12, <1>17, <1>18, <1>19 DEF MInv, Queues

(* A broker takes a message of a peer: it has handled it when it delivers. *)
LEMMA MessageTaken ==
  ASSUME MInv, NEW b \in Brokers, NEW p \in Peers, MediateMessage(b, p)
  PROVE  \E m, s, taken : Handled(broker[b], p, m, s) /\ Leaves(b, p, m, taken) /\ Delivers(b, s, taken)
<1>1. PICK s : s = Purge(Process(broker[b], p, Head(toB[b][p]))) /\ Delivers(b, s, [toB[b] EXCEPT ![p] = Tail(@)])
  BY DEF MediateMessage
<1>2. PICK m : m = Head(toB[b][p])
  OBVIOUS
<1>3. PICK taken : taken = [toB[b] EXCEPT ![p] = Tail(toB[b][p])]
  OBVIOUS
<1>4. toB[b][p] # <<>>
  BY DEF MediateMessage
<1>5. /\ toB[b] = [q \in Peers |-> toB[b][q]]
      /\ \A q \in Peers : toB[b][q] \in Seq(Up(q)) /\ OnceEach(toB[b][q])
  BY DEF MInv, Queues, Uplinks
<1>6. taken = [q \in Peers |-> taken[q]] /\ \A q \in Peers : taken[q] = IF q = p THEN Tail(toB[b][p]) ELSE toB[b][q]
  BY <1>3, <1>5
<1>7. /\ Tail(toB[b][p]) \in Seq(Up(p)) /\ m \in Up(p) /\ OnceEach(Tail(toB[b][p]))
      /\ Carried(toB[b][p]) = Carried(Tail(toB[b][p])) \cup Cargo(m) /\ m.r \notin Carried(Tail(toB[b][p]))
  <2> DEFINE u == toB[b][p]
  <2>1. u \in Seq(Up(p)) /\ OnceEach(u) /\ u # <<>> /\ m = Head(u)
    BY <1>2, <1>4, <1>5
  <2> HIDE DEF u
  <2>2. /\ Tail(u) \in Seq(Up(p)) /\ m \in Up(p) /\ OnceEach(Tail(u))
        /\ Carried(u) = Carried(Tail(u)) \cup ({m.r} \ {None}) /\ m.r \notin Carried(Tail(u))
    BY <2>1, TailMail
  <2>3. QED
    BY <2>2 DEF u, Cargo
<1>8. \A q \in Peers : taken[q] \in Seq(Up(q)) /\ OnceEach(taken[q])
  BY <1>5, <1>6, <1>7
<1>9. /\ \A q \in Peers : Carried(taken[q]) = Carried(toB[b][q]) \ (IF q = p THEN Cargo(m) ELSE {})
      /\ Cargo(m) \subseteq Carried(toB[b][p])
  <2>1. Carried(Tail(toB[b][p])) = Carried(toB[b][p]) \ Cargo(m)
    BY <1>7 DEF Cargo
  <2>2. QED
    BY <1>6, <1>7, <2>1
<1>10. Stock(broker[b]) /\ broker[b].sent = NoMail /\ broker[b].held \in Seq(Requests)
  BY DEF MInv, Queues, Records, Stock
<1>11. m.r \notin ToSet(broker[b].held)
  <2> SUFFICES ASSUME m.r \in ToSet(broker[b].held) PROVE FALSE
    OBVIOUS
  <2>1. m.r \in Requests
    BY <1>10 DEF ToSet
  <2>2. m.r \in Load(HeldBy(b)) /\ m.r \in Load(To(b, p))
    BY <1>9, <2>1, LoadIs, MajordomoAssumption DEF Cargo
  <2>3. QED
    BY <2>1, <2>2, PlaceIs, Apart, OnePlaceOnly
<1>12. Handled(broker[b], p, m, s) /\ Leaves(b, p, m, taken)
  <2>1. Leaves(b, p, m, taken)
    BY <1>6, <1>8, <1>9 DEF Leaves
  <2>2. Handled(broker[b], p, m, s)
    BY <1>1, <1>2, <1>7, <1>10, <1>11, ProcessHandled
  <2>3. QED
    BY <2>1, <2>2
<1>13. Delivers(b, s, taken)
  BY <1>1, <1>3
<1>14. QED
  BY <1>12, <1>13

(* So it keeps the invariant.                                              *)
LEMMA MediateMessageKeeps ==
  ASSUME MInv, NEW b \in Brokers, NEW p \in Peers, MediateMessage(b, p) PROVE MInv'
<1>1. PICK m, s, taken : Handled(broker[b], p, m, s) /\ Leaves(b, p, m, taken) /\ Delivers(b, s, taken)
  BY MessageTaken
<1>2. hurries' \in 0 .. MaxHurries
  BY DEF MediateMessage, MInv, Peered
<1>3. QED
  BY <1>1, <1>2, DeliversKeeps

(* A broker whose poll runs out purges workers, and delivers as if it had  *)
(* handled a message of one that carries nothing.                          *)
LEMMA NothingTaken ==
  ASSUME MInv, NEW b \in Brokers, MediateNothing(b)
  PROVE  \E p \in Workers : \E m, s, taken :
           Handled(broker[b], p, m, s) /\ Leaves(b, p, m, taken) /\ Delivers(b, s, taken)
<1>1. PICK s : s = Purge(broker[b]) /\ Delivers(b, s, toB[b])
  BY DEF MediateNothing
<1>2. PICK taken : taken = toB[b]
  OBVIOUS
<1>3. PICK p \in Workers : TRUE
  BY DEF MediateNothing, MInv, Queues, Records, Stock, Workforce
<1> DEFINE m == Msg("verify")
<1>4. Cargo(m) = {} /\ p \in Peers
  BY MessageIs DEF Cargo, Peers
<1> HIDE DEF m
<1>5. Leaves(b, p, m, taken)
  BY <1>2, <1>4 DEF MInv, Queues, Uplinks, Leaves
<1>6. Stock(broker[b]) /\ broker[b].sent = NoMail
  BY DEF MInv, Queues, Records
<1>7. Handled(broker[b], p, m, s)
  <2>1. Onward(broker[b], s)
    BY <1>1, <1>6, PurgeOnward
  <2>2. \A q \in Peers : Carried(broker[b].sent[q]) = {}
    BY <1>6, NoMailIs
  <2>3. ToSet(broker[b].held) = ToSet(broker[b].held) \cup Cargo(m) /\ (p \in Clients \/ Cargo(m) = {})
    BY <1>4
  <2>4. QED
    BY <1>4, <1>6, <2>1, <2>2, <2>3, OnwardHandled
<1>8. Delivers(b, s, taken)
  BY <1>1, <1>2
<1>9. QED
  BY <1>5, <1>7, <1>8

(* So it keeps the invariant, too.                                         *)
LEMMA MediateNothingKeeps ==
  ASSUME MInv, NEW b \in Brokers, MediateNothing(b) PROVE MInv'
<1>1. PICK p \in Workers : \E m, s, taken :
        Handled(broker[b], p, m, s) /\ Leaves(b, p, m, taken) /\ Delivers(b, s, taken)
  BY NothingTaken
<1>2. PICK m, s, taken : Handled(broker[b], p, m, s) /\ Leaves(b, p, m, taken) /\ Delivers(b, s, taken)
  BY <1>1
<1>3. p \in Peers /\ hurries' \in 0 .. MaxHurries
  BY MajordomoAssumption DEF MediateNothing, InTime, MInv, Peered, Peers
<1>4. QED
  BY <1>2, <1>3, DeliversKeeps

-----------------------------------------------------------------------------
(* At first no request is anywhere.                                        *)
LEMMA InitKeeps ==
  ASSUME Init PROVE MInv
<1>1. Outbound /\ Uplinks /\ Downlinks
  BY EmptyIs DEF Init, Outbound, Uplinks, Downlinks
<1>2. Records
  BY NewBrokerIs DEF Init, Records
<1>3. \A x \in Place : Load(x) = {}
  <2>1. \A p \in Peers : Load(OnQueue(p)) = {}
    BY LoadIs, EmptyIs DEF Init
  <2>2. \A b \in Brokers : Load(HeldBy(b)) = {}
    BY LoadIs, EmptyIs, NewBrokerIs DEF Init
  <2>3. \A b \in Brokers, p \in Peers : Load(To(b, p)) = {} /\ Load(From(b, p)) = {}
    BY LoadIs, EmptyIs DEF Init
  <2>4. \A w \in Workers : Load(Inside(w)) = {}
    BY LoadIs DEF Init
  <2>5. QED
    BY <2>1, <2>2, <2>3, <2>4, PlaceIs
<1>4. \A r \in Requests : Accounted(r)
  BY <1>3 DEF Init, Accounted, Fates
<1>5. Accounts
  BY <1>4 DEF Init, Accounts
<1>6. Origins
  BY EmptyIs DEF Init, Origins, Peers
<1>7. Peered
  BY NewManagerTyped, MajordomoAssumption DEF Init, Peered
<1>8. QED
  BY <1>1, <1>2, <1>5, <1>6, <1>7 DEF MInv, Queues

(* Every step of the system keeps the invariant.                           *)
LEMMA NextKeeps ==
  ASSUME MInv, [Next]_vars PROVE MInv'
<1>1. CASE UNCHANGED vars
  <2>1. UNCHANGED <<broker, toB, fromB, out, origin, inside, fate, runs>>
    BY <1>1 DEF vars
  <2>2. Peered'
    BY <1>1 DEF vars, MInv, Peered
  <2>3. QED
    BY <2>1, <2>2, NothingUnderWay DEF MInv
<1>2. CASE Step
  <2>1. ASSUME NEW b \in Brokers, MediateNothing(b) PROVE MInv'
    BY <2>1, MediateNothingKeeps
  <2>2. ASSUME NEW b \in Brokers, NEW p \in Peers, MediateMessage(b, p) PROVE MInv'
    BY <2>2, MediateMessageKeeps
  <2>3. ASSUME NEW b \in Brokers, NEW w \in Workers, Lapse(b, w) PROVE MInv'
    BY <2>3, LapseKeeps
  <2>4. ASSUME NEW p \in Peers, VerifyBrokers(p) PROVE MInv'
    BY <2>4, VerifyBrokersKeeps
  <2>5. ASSUME NEW p \in Peers, ConsumeOutbound(p) PROVE MInv'
    BY <2>5, ConsumeOutboundKeeps
  <2>6. ASSUME NEW p \in Peers, NEW b \in Brokers, Announce(p, b) PROVE MInv'
    BY <2>6, AnnounceKeeps
  <2>7. ASSUME NEW p \in Peers, NEW b \in Brokers, SocketReady(p, b) PROVE MInv'
    BY <2>7, SocketReadyKeeps
  <2>8. ASSUME NEW p \in Peers, NEW b \in Brokers, Retract(p, b) PROVE MInv'
    BY <2>8, RetractKeeps
  <2>9. ASSUME NEW p \in Peers, NEW b \in Brokers, Inbound(p, b) PROVE MInv'
    BY <2>9, InboundKeeps
  <2>10. ASSUME NEW w \in Workers, SendHeartbeats(w) PROVE MInv'
    BY <2>10, SendHeartbeatsKeeps
  <2>11. ASSUME NEW w \in Workers, NEW r \in Requests, Finish(w, r) PROVE MInv'
    BY <2>11, FinishKeeps
  <2>12. QED
    BY <1>2, <2>1, <2>2, <2>3, <2>4, <2>5, <2>6, <2>7, <2>8, <2>9, <2>10, <2>11 DEF Step
<1>3. ASSUME NEW r \in Requests, Submit(r) PROVE MInv'
  BY <1>3, SubmitKeeps
<1>4. ASSUME NEW x \in Brokers \cup Workers, Crash(x) PROVE MInv'
  BY <1>4, CrashKeeps
<1>5. QED
  BY <1>1, <1>2, <1>3, <1>4 DEF Next

(* What the invariant is: in every state, every request is accounted for,  *)
(* and queues, records and managers are well formed.                       *)
THEOREM MajordomoInvariant == Spec => []MInv
<1>1. Init => MInv
  BY InitKeeps
<1>2. MInv /\ [Next]_vars => MInv'
  BY NextKeeps
<1>3. QED
  BY <1>1, <1>2, PTL DEF Spec

(* No request is given to the actors of two workers, or to those of one    *)
(* twice, and none is answered that was given to none, whatever brokers,   *)
(* workers and connections end on its way.                                 *)
THEOREM RequestsRunAtMostOnce == Spec => []RunAtMostOnce
<1>1. MInv => RunAtMostOnce
  BY DEF MInv, Accounts, Accounted, RunAtMostOnce
<1>2. QED
  BY <1>1, MajordomoInvariant, PTL

-----------------------------------------------------------------------------
(* The refinement of RequestService: every step serves as it says, ...     *)
Serves == Service!Next \/ UNCHANGED <<fate, runs>>

(* ... one that changes no history, one that loses open requests, ...      *)
LEMMA OpenLost ==
  ASSUME Accounts, NEW D, \A r \in Requests : r \in D => fate[r] = "open", fate' = LostAlso(D), UNCHANGED runs
  PROVE  Serves
<1> DEFINE S == D \cap Requests
<1>1. S \in SUBSET Requests /\ \A r \in S : fate[r] = "open"
  OBVIOUS
<1>2. fate' = [r \in Requests |-> IF r \in S THEN "lost" ELSE fate[r]]
  BY DEF LostAlso
<1> HIDE DEF S
<1>3. Service!Lose(S)
  BY <1>1, <1>2 DEF Service!Lose
<1>4. QED
  BY <1>1, <1>3 DEF Serves, Service!Next

(* ... as those on sockets that a peer closes, ...                         *)
LEMMA CloseSocketsServes ==
  ASSUME MInv, NEW p \in Peers, NEW S \in SUBSET Brokers, NEW asked,
         CloseSockets(p, S, asked), UNCHANGED runs
  PROVE  Serves
<1>1. PICK keep : fate' = LostAlso((UNION {Carried(fromB[b][p]) : b \in S})
                                     \cup (UNION {Carried(toB[b][p]) : b \in S \ keep}))
  BY DEF CloseSockets
<1>2. PICK D : D = (UNION {Carried(fromB[b][p]) : b \in S}) \cup (UNION {Carried(toB[b][p]) : b \in S \ keep})
  OBVIOUS
<1>3. ASSUME NEW r \in Requests, r \in D PROVE fate[r] = "open"
  <2>1. PICK b \in S : r \in Carried(fromB[b][p]) \/ r \in Carried(toB[b][p])
    BY <1>2, <1>3
  <2>2. r \in Load(From(b, p)) \/ r \in Load(To(b, p))
    BY <2>1, LoadIs
  <2>3. QED
    BY <2>2, PlaceIs DEF MInv, Accounts, Accounted
<1>4. QED
  BY <1>1, <1>2, <1>3, OpenLost DEF MInv

(* ... or those a broker sends to peers whose socket it does not know: it  *)
(* held them, or took them from a peer.                                    *)
LEMMA DeliversServes ==
  ASSUME MInv, NEW b \in Brokers, NEW p \in Peers, NEW m, NEW s, Handled(broker[b], p, m, s),
         NEW taken, Leaves(b, p, m, taken), Delivers(b, s, taken)
  PROVE  Serves
<1> DEFINE D == UNION {Carried(s.sent[q]) : q \in {u \in Peers : ~(<<u, b>> \in ready)}}
<1>1. fate' = LostAlso(D) /\ UNCHANGED runs
  BY DEF Delivers
<1>2. ASSUME NEW r \in Requests, r \in D PROVE fate[r] = "open"
  <2>1. PICK q \in Peers : r \in Carried(s.sent[q])
    BY <1>2
  <2>2. r \in ToSet(broker[b].held) \cup Cargo(m)
    BY <2>1 DEF Handled, Peers
  <2>3. r \in Load(HeldBy(b)) \/ r \in Load(To(b, p))
    BY <2>2, LoadIs DEF Leaves
  <2>4. QED
    BY <2>3, PlaceIs DEF MInv, Accounts, Accounted
<1> HIDE DEF D
<1>3. QED
  BY <1>1, <1>2, OpenLost DEF MInv

(* A request is sent when it is new, ...                                   *)
LEMMA SubmitServes ==
  ASSUME NEW r \in Requests, Submit(r) PROVE Serves
<1>1. Service!Take(r)
  BY DEF Submit, Service!Take
<1>2. QED
  BY <1>1 DEF Serves, Service!Next

(* ... and the head of an outbound queue, if it is lost, is open.          *)
LEMMA ConsumeOutboundServes ==
  ASSUME MInv, NEW p \in Peers, ConsumeOutbound(p) PROVE Serves
<1>1. PICK r : r = Head(out[p])
  OBVIOUS
<1>2. out[p] # <<>> /\ UNCHANGED runs /\ (UNCHANGED fate \/ fate' = LostAlso({r}))
  BY <1>1 DEF ConsumeOutbound
<1>3. r \in Requests /\ r \in ToSet(out[p])
  BY <1>1, <1>2, TailIs DEF MInv, Queues, Outbound
<1>4. fate[r] = "open"
  BY <1>3, LoadIs, PlaceIs DEF MInv, Accounts, Accounted
<1>5. CASE UNCHANGED fate
  BY <1>2, <1>5 DEF Serves
<1>6. CASE fate' = LostAlso({r})
  BY <1>2, <1>4, <1>6, OpenLost DEF MInv
<1>7. QED
  BY <1>2, <1>5, <1>6

(* What a peer reads: a worker a request that is open and has not run, a   *)
(* client the reply to one that is open and has.                           *)
LEMMA InboundServes ==
  ASSUME MInv, NEW p \in Peers, NEW b \in Brokers, Inbound(p, b) PROVE Serves
<1> DEFINE m == Head(fromB[b][p])
<1>1. fromB[b][p] # <<>>
  BY DEF Inbound
<1>2. \A r \in Requests : Accounted(r) /\ From(b, p) \in Place
  BY PlaceIs DEF MInv, Accounts
<1>3. fate = [r \in Requests |-> fate[r]] /\ runs = [r \in Requests |-> runs[r]]
  BY DEF MInv, Accounts
<1>4. CASE m = Msg("verified")
  <2>1. m.type = "verified"
    BY <1>4, MessageIs
  <2>2. QED
    BY <2>1 DEF Inbound, Serves
<1>5. CASE m = Msg("disconnect")
  <2>1. m.type = "disconnect"
    BY <1>5, MessageIs
  <2>2. CloseSockets(p, {b}, {}) /\ UNCHANGED runs
    BY <2>1 DEF Inbound
  <2>3. QED
    BY <2>2, CloseSocketsServes
<1>6. ASSUME p \in Workers, NEW r \in Requests, m = Carry("request", r) PROVE Serves
  <2>1. m.type = "request" /\ m.r = r /\ r # None
    BY <1>6, MessageIs, MajordomoAssumption
  <2>2. fromB' = [fromB EXCEPT ![b][p] = Tail(@)] /\ runs' = [runs EXCEPT ![r] = @ + 1] /\ UNCHANGED fate
    BY <2>1 DEF Inbound
  <2>3. r \in Load(From(b, p))
    BY <1>1, <2>1, <2>2, ReadIs
  <2>4. fate[r] = "open" /\ runs[r] = 0
    BY <1>2, <1>6, <2>3, DoneIs DEF Accounted
  <2>5. Service!Run(r)
    BY <1>3, <2>2, <2>4 DEF Service!Run
  <2>6. QED
    BY <2>5 DEF Serves, Service!Next
<1>7. ASSUME p \in Clients, NEW r \in Requests, m = Carry("reply", r) PROVE Serves
  <2>1. m.type = "reply" /\ m.r = r /\ r # None
    BY <1>7, MessageIs, MajordomoAssumption
  <2>2. fromB' = [fromB EXCEPT ![b][p] = Tail(@)] /\ fate' = [fate EXCEPT ![r] = "answered"] /\ UNCHANGED runs
    BY <2>1 DEF Inbound
  <2>3. r \in Load(From(b, p))
    BY <1>1, <2>1, <2>2, ReadIs
  <2>4. fate[r] = "open" /\ runs[r] = 1
    BY <1>2, <1>7, <2>3, DoneIs DEF Accounted
  <2>5. Service!Answer(r)
    BY <2>2, <2>4 DEF Service!Answer
  <2>6. QED
    BY <2>5 DEF Serves, Service!Next
<1>8. QED
  BY <1>1, <1>4, <1>5, <1>6, <1>7, MessageKinds

(* What a process holds when it ends is open.                              *)
LEMMA CrashServes ==
  ASSUME MInv, NEW x \in Brokers \cup Workers, Crash(x) PROVE Serves
<1>1. fate' = LostAlso(Held(x)) /\ UNCHANGED runs
  BY DEF Crash
<1>2. Accounts
  BY DEF MInv
<1>3. \A q \in Requests : q \in Held(x) => \E y \in Place : q \in Load(y)
  BY <1>2, HeldIs
<1>4. \A q \in Requests : q \in Held(x) => fate[q] = "open"
  BY <1>2, <1>3 DEF Accounts, Accounted
<1>5. QED
  BY <1>1, <1>2, <1>4, OpenLost

(* Every step maps to a step of RequestService, or changes nothing of it.  *)
LEMMA StepServes ==
  ASSUME MInv, [Next]_vars PROVE Serves
<1>1. CASE UNCHANGED vars
  BY <1>1 DEF vars, Serves
<1>2. CASE Step
  <2>1. ASSUME NEW b \in Brokers, MediateNothing(b) PROVE Serves
    <3>1. PICK p \in Workers : \E m, s, taken :
            Handled(broker[b], p, m, s) /\ Leaves(b, p, m, taken) /\ Delivers(b, s, taken)
      BY <2>1, NothingTaken
    <3>2. QED
      BY <3>1, DeliversServes DEF Peers
  <2>2. ASSUME NEW b \in Brokers, NEW p \in Peers, MediateMessage(b, p) PROVE Serves
    BY <2>2, MessageTaken, DeliversServes
  <2>3. ASSUME NEW b \in Brokers, NEW w \in Workers, Lapse(b, w) PROVE Serves
    BY <2>3 DEF Lapse, Serves
  <2>4. ASSUME NEW p \in Peers, VerifyBrokers(p) PROVE Serves
    <3>1. CloseSockets(p, Spent(mgr[p]), Asked(mgr[p]) \cap alive) /\ UNCHANGED runs
      BY <2>4 DEF VerifyBrokers
    <3>2. Spent(mgr[p]) \in SUBSET Brokers
      BY DEF MInv, Peered, Typed, Spent
    <3>3. QED
      BY <3>1, <3>2, CloseSocketsServes
  <2>5. ASSUME NEW p \in Peers, ConsumeOutbound(p) PROVE Serves
    BY <2>5, ConsumeOutboundServes
  <2>6. ASSUME NEW p \in Peers, NEW b \in Brokers, Announce(p, b) PROVE Serves
    BY <2>6 DEF Announce, Serves
  <2>7. ASSUME NEW p \in Peers, NEW b \in Brokers, SocketReady(p, b) PROVE Serves
    BY <2>7 DEF SocketReady, Serves
  <2>8. ASSUME NEW p \in Peers, NEW b \in Brokers, Retract(p, b) PROVE Serves
    <3>1. CloseSockets(p, {b}, {}) /\ UNCHANGED runs
      BY <2>8 DEF Retract
    <3>2. QED
      BY <3>1, CloseSocketsServes
  <2>9. ASSUME NEW p \in Peers, NEW b \in Brokers, Inbound(p, b) PROVE Serves
    BY <2>9, InboundServes
  <2>10. ASSUME NEW w \in Workers, SendHeartbeats(w) PROVE Serves
    BY <2>10 DEF SendHeartbeats, Serves
  <2>11. ASSUME NEW w \in Workers, NEW r \in Requests, Finish(w, r) PROVE Serves
    BY <2>11 DEF Finish, Serves
  <2>12. QED
    BY <1>2, <2>1, <2>2, <2>3, <2>4, <2>5, <2>6, <2>7, <2>8, <2>9, <2>10, <2>11 DEF Step
<1>3. ASSUME NEW r \in Requests, Submit(r) PROVE Serves
  BY <1>3, SubmitServes
<1>4. ASSUME NEW x \in Brokers \cup Workers, Crash(x) PROVE Serves
  BY <1>4, CrashServes
<1>5. QED
  BY <1>1, <1>2, <1>3, <1>4 DEF Next

(* Brokers and workers implement the service: each request is taken once,  *)
(* run at most once and only while it is open, then answered, or lost; no  *)
(* crash, closed socket or dropped message changes what became of a        *)
(* request that was answered or lost before.                               *)
THEOREM MajordomoServes == Spec => ImplementsService
<1>1. Init => Service!Init
  BY DEF Init, Service!Init
<1>2. MInv /\ [Next]_vars => [Service!Next]_(Service!service)
  BY StepServes DEF Serves, Service!service
<1>3. QED
  BY <1>1, <1>2, MajordomoInvariant, PTL DEF Spec, ImplementsService, Service!Spec

-----------------------------------------------------------------------------
(* The places of a request, one by one.                                    *)
LEMMA PlacesIs ==
  ASSUME MInv, NEW r \in Requests
  PROVE  /\ (\A x \in Place : r \notin Load(x)) => Places(r) = {}
         /\ \A x \in Place : r \in Load(x) => \E z : Places(r) = {z}
<1> DEFINE Q(p) == {<<"queue", p, i>> : i \in {j \in DOMAIN out[p] : out[p][j] = r}}
           H(b) == {<<"held", b, i>> : i \in {j \in DOMAIN broker[b].held : broker[b].held[j] = r}}
           T(c) == {<<"to", c, i>> : i \in {j \in DOMAIN toB[c[1]][c[2]] : toB[c[1]][c[2]][j].r = r}}
           F(c) == {<<"from", c, i>> : i \in {j \in DOMAIN fromB[c[1]][c[2]] : fromB[c[1]][c[2]][j].r = r}}
           I(w) == {<<"inside", i>> : i \in {j \in inside : j[2] = r /\ j[1] = w}}
<1>1. /\ \A p \in Peers : Once(out[p])
      /\ \A b \in Brokers : Once(broker[b].held)
      /\ \A b \in Brokers, p \in Peers : OnceEach(toB[b][p]) /\ OnceEach(fromB[b][p])
      /\ inside \subseteq Workers \X Requests /\ r # None
  BY MajordomoAssumption DEF MInv, Queues, Outbound, Uplinks, Downlinks, Records, Stock, Accounts
<1>2. \A z : z \in Places(r) <=> \/ \E p \in Peers : z \in Q(p)
                                 \/ \E b \in Brokers : z \in H(b)
                                 \/ \E b \in Brokers, p \in Peers : z \in T(<<b, p>>)
                                 \/ \E b \in Brokers, p \in Peers : z \in F(<<b, p>>)
                                 \/ \E w \in Workers : z \in I(w)
  <2>1. \A z : z \in {<<"inside", i>> : i \in {j \in inside : j[2] = r}} <=> \E w \in Workers : z \in I(w)
    BY <1>1
  <2>2. \A z : z \in UNION {T(c) : c \in Brokers \X Peers} <=> \E b \in Brokers, p \in Peers : z \in T(<<b, p>>)
    <3>1. \A c \in Brokers \X Peers : \E b \in Brokers, p \in Peers : c = <<b, p>>
      OBVIOUS
    <3>2. \A b \in Brokers, p \in Peers : <<b, p>> \in Brokers \X Peers
      OBVIOUS
    <3> HIDE DEF T
    <3> SUFFICES ASSUME NEW z
                 PROVE  z \in UNION {T(c) : c \in Brokers \X Peers} <=> \E b \in Brokers, p \in Peers : z \in T(<<b, p>>)
      OBVIOUS
    <3> DEFINE C == Brokers \X Peers
    <3>3. z \in UNION {T(c) : c \in C} <=> \E c \in C : z \in T(c)
      <4> HIDE DEF C
      <4>1. QED
        OBVIOUS
    <3>4. (\E c \in C : z \in T(c)) <=> \E b \in Brokers, p \in Peers : z \in T(<<b, p>>)
      <4>1. ASSUME NEW c \in C, z \in T(c) PROVE \E b \in Brokers, p \in Peers : z \in T(<<b, p>>)
        <5>1. \E b \in Brokers, p \in Peers : c = <<b, p>>
          BY <3>1
        <5>2. QED
          BY <4>1, <5>1
      <4>2. ASSUME NEW b \in Brokers, NEW p \in Peers, z \in T(<<b, p>>) PROVE \E c \in C : z \in T(c)
        <5>1. <<b, p>> \in C
          BY <3>2
        <5>2. QED
          BY <4>2, <5>1
      <4>3. QED
        BY <4>1, <4>2
    <3>5. QED
      BY <3>3, <3>4
  <2>3. \A z : z \in UNION {F(c) : c \in Brokers \X Peers} <=> \E b \in Brokers, p \in Peers : z \in F(<<b, p>>)
    <3>1. \A c \in Brokers \X Peers : \E b \in Brokers, p \in Peers : c = <<b, p>>
      OBVIOUS
    <3>2. \A b \in Brokers, p \in Peers : <<b, p>> \in Brokers \X Peers
      OBVIOUS
    <3> HIDE DEF F
    <3> SUFFICES ASSUME NEW z
                 PROVE  z \in UNION {F(c) : c \in Brokers \X Peers} <=> \E b \in Brokers, p \in Peers : z \in F(<<b, p>>)
      OBVIOUS
    <3> DEFINE C == Brokers \X Peers
    <3>3. z \in UNION {F(c) : c \in C} <=> \E c \in C : z \in F(c)
      <4> HIDE DEF C
      <4>1. QED
        OBVIOUS
    <3>4. (\E c \in C : z \in F(c)) <=> \E b \in Brokers, p \in Peers : z \in F(<<b, p>>)
      <4>1. ASSUME NEW c \in C, z \in F(c) PROVE \E b \in Brokers, p \in Peers : z \in F(<<b, p>>)
        <5>1. \E b \in Brokers, p \in Peers : c = <<b, p>>
          BY <3>1
        <5>2. QED
          BY <4>1, <5>1
      <4>2. ASSUME NEW b \in Brokers, NEW p \in Peers, z \in F(<<b, p>>) PROVE \E c \in C : z \in F(c)
        <5>1. <<b, p>> \in C
          BY <3>2
        <5>2. QED
          BY <4>2, <5>1
      <4>3. QED
        BY <4>1, <4>2
    <3>5. QED
      BY <3>3, <3>4
  <2>4. \A z : z \in UNION {Q(p) : p \in Peers} <=> \E p \in Peers : z \in Q(p)
    <3> HIDE DEF Q
    <3>1. QED
      OBVIOUS
  <2>5. \A z : z \in UNION {H(b) : b \in Brokers} <=> \E b \in Brokers : z \in H(b)
    <3> HIDE DEF H
    <3>1. QED
      OBVIOUS
  <2> DEFINE N == {<<"inside", i>> : i \in {j \in inside : j[2] = r}}
  <2>6. Places(r) = (UNION {Q(p) : p \in Peers}) \cup (UNION {H(b) : b \in Brokers})
                      \cup (UNION {T(c) : c \in Brokers \X Peers}) \cup (UNION {F(c) : c \in Brokers \X Peers}) \cup N
    BY DEF Places
  <2> HIDE DEF Q, H, T, F, I
  <2>7. \A z : z \in N <=> \E w \in Workers : z \in I(w)
    BY <2>1
  <2> HIDE DEF N
  <2>8. QED
    BY <2>2, <2>3, <2>4, <2>5, <2>6, <2>7
<1>3. \A p \in Peers : /\ (\E z : z \in Q(p)) => r \in Load(OnQueue(p))
                       /\ r \in Load(OnQueue(p)) => \E z : Q(p) = {z}
  <2> SUFFICES ASSUME NEW p \in Peers
               PROVE  /\ (\E z : z \in Q(p)) => r \in Load(OnQueue(p))
                      /\ r \in Load(OnQueue(p)) => \E z : Q(p) = {z}
    OBVIOUS
  <2>1. r \in Load(OnQueue(p)) <=> \E i \in DOMAIN out[p] : out[p][i] = r
    BY LoadIs DEF ToSet
  <2>2. ASSUME NEW i \in DOMAIN out[p], out[p][i] = r PROVE Q(p) = {<<"queue", p, i>>}
    BY <1>1, <2>2 DEF Once
  <2>3. QED
    BY <2>1, <2>2
<1>4. \A b \in Brokers : /\ (\E z : z \in H(b)) => r \in Load(HeldBy(b))
                         /\ r \in Load(HeldBy(b)) => \E z : H(b) = {z}
  <2> SUFFICES ASSUME NEW b \in Brokers
               PROVE  /\ (\E z : z \in H(b)) => r \in Load(HeldBy(b))
                      /\ r \in Load(HeldBy(b)) => \E z : H(b) = {z}
    OBVIOUS
  <2>1. r \in Load(HeldBy(b)) <=> \E i \in DOMAIN broker[b].held : broker[b].held[i] = r
    BY LoadIs DEF ToSet
  <2>2. ASSUME NEW i \in DOMAIN broker[b].held, broker[b].held[i] = r PROVE H(b) = {<<"held", b, i>>}
    BY <1>1, <2>2 DEF Once
  <2>3. QED
    BY <2>1, <2>2
<1>5. \A b \in Brokers, p \in Peers : /\ (\E z : z \in T(<<b, p>>)) => r \in Load(To(b, p))
                                      /\ r \in Load(To(b, p)) => \E z : T(<<b, p>>) = {z}
  <2> SUFFICES ASSUME NEW b \in Brokers, NEW p \in Peers
               PROVE  /\ (\E z : z \in T(<<b, p>>)) => r \in Load(To(b, p))
                      /\ r \in Load(To(b, p)) => \E z : T(<<b, p>>) = {z}
    OBVIOUS
  <2>1. r \in Load(To(b, p)) <=> \E i \in DOMAIN toB[b][p] : toB[b][p][i].r = r
    BY <1>1, LoadIs, CarriedIs
  <2>2. T(<<b, p>>) = {<<"to", <<b, p>>, i>> : i \in {j \in DOMAIN toB[b][p] : toB[b][p][j].r = r}}
    OBVIOUS
  <2> HIDE DEF T
  <2>3. ASSUME NEW i \in DOMAIN toB[b][p], toB[b][p][i].r = r PROVE T(<<b, p>>) = {<<"to", <<b, p>>, i>>}
    BY <1>1, <2>2, <2>3 DEF OnceEach
  <2>4. QED
    BY <2>1, <2>2, <2>3
<1>6. \A b \in Brokers, p \in Peers : /\ (\E z : z \in F(<<b, p>>)) => r \in Load(From(b, p))
                                      /\ r \in Load(From(b, p)) => \E z : F(<<b, p>>) = {z}
  <2> SUFFICES ASSUME NEW b \in Brokers, NEW p \in Peers
               PROVE  /\ (\E z : z \in F(<<b, p>>)) => r \in Load(From(b, p))
                      /\ r \in Load(From(b, p)) => \E z : F(<<b, p>>) = {z}
    OBVIOUS
  <2>1. r \in Load(From(b, p)) <=> \E i \in DOMAIN fromB[b][p] : fromB[b][p][i].r = r
    BY <1>1, LoadIs, CarriedIs
  <2>2. F(<<b, p>>) = {<<"from", <<b, p>>, i>> : i \in {j \in DOMAIN fromB[b][p] : fromB[b][p][j].r = r}}
    OBVIOUS
  <2> HIDE DEF F
  <2>3. ASSUME NEW i \in DOMAIN fromB[b][p], fromB[b][p][i].r = r PROVE F(<<b, p>>) = {<<"from", <<b, p>>, i>>}
    BY <1>1, <2>2, <2>3 DEF OnceEach
  <2>4. QED
    BY <2>1, <2>2, <2>3
<1>7. \A w \in Workers : /\ (\E z : z \in I(w)) => r \in Load(Inside(w))
                         /\ r \in Load(Inside(w)) => \E z : I(w) = {z}
  <2> SUFFICES ASSUME NEW w \in Workers
               PROVE  /\ (\E z : z \in I(w)) => r \in Load(Inside(w))
                      /\ r \in Load(Inside(w)) => \E z : I(w) = {z}
    OBVIOUS
  <2>1. r \in Load(Inside(w)) <=> <<w, r>> \in inside
    BY LoadIs
  <2>2. \A j \in inside : j[2] = r /\ j[1] = w => j = <<w, r>>
    BY <1>1
  <2>3. QED
    BY <2>1, <2>2
<1> DEFINE At(x, z) == \/ \E p \in Peers : x = OnQueue(p) /\ z \in Q(p)
                       \/ \E b \in Brokers : x = HeldBy(b) /\ z \in H(b)
                       \/ \E b \in Brokers, p \in Peers : x = To(b, p) /\ z \in T(<<b, p>>)
                       \/ \E b \in Brokers, p \in Peers : x = From(b, p) /\ z \in F(<<b, p>>)
                       \/ \E w \in Workers : x = Inside(w) /\ z \in I(w)
<1> HIDE DEF Q, H, T, F, I
<1>8. \A z : z \in Places(r) <=> \E x \in Place : At(x, z)
  BY <1>2, PlaceIs
<1>9. \A x \in Place : (\E z : At(x, z)) => r \in Load(x)
  BY <1>3, <1>4, <1>5, <1>6, <1>7
<1>10. \A x \in Place : r \in Load(x) => \E z : \A y : At(x, y) <=> y = z
  <2> SUFFICES ASSUME NEW x \in Place, r \in Load(x) PROVE \E z : \A y : At(x, y) <=> y = z
    OBVIOUS
  <2>1. ASSUME NEW p \in Peers, x = OnQueue(p) PROVE \E z : \A y : At(x, y) <=> y = z
    <3>1. PICK z : Q(p) = {z}
      BY <1>3, <2>1
    <3>2. \A y : At(x, y) <=> y \in Q(p)
      BY <2>1, Apart
    <3> HIDE DEF At
    <3>3. QED
      BY <3>1, <3>2
  <2>2. ASSUME NEW b \in Brokers, x = HeldBy(b) PROVE \E z : \A y : At(x, y) <=> y = z
    <3>1. PICK z : H(b) = {z}
      BY <1>4, <2>2
    <3>2. \A y : At(x, y) <=> y \in H(b)
      BY <2>2, Apart
    <3> HIDE DEF At
    <3>3. QED
      BY <3>1, <3>2
  <2>3. ASSUME NEW b \in Brokers, NEW p \in Peers, x = To(b, p) PROVE \E z : \A y : At(x, y) <=> y = z
    <3>1. PICK z : T(<<b, p>>) = {z}
      BY <1>5, <2>3
    <3>2. \A y : y \in T(<<b, p>>) => At(x, y)
      BY <2>3
    <3>3. ASSUME NEW y, At(x, y) PROVE y \in T(<<b, p>>)
      <4>1. /\ \A q \in Peers : x # OnQueue(q)
            /\ \A c \in Brokers : x # HeldBy(c)
            /\ \A w \in Workers : x # Inside(w)
            /\ \A c \in Brokers, q \in Peers : x # From(c, q)
        BY <2>3, Apart
      <4>2. PICK c \in Brokers, q \in Peers : x = To(c, q) /\ y \in T(<<c, q>>)
        BY <3>3, <4>1, Zenon
      <4>3. c = b /\ q = p
        BY <2>3, <4>2 DEF To
      <4>4. QED
        BY <4>2, <4>3
    <3> HIDE DEF At
    <3>4. QED
      BY <3>1, <3>2, <3>3
  <2>4. ASSUME NEW b \in Brokers, NEW p \in Peers, x = From(b, p) PROVE \E z : \A y : At(x, y) <=> y = z
    <3>1. PICK z : F(<<b, p>>) = {z}
      BY <1>6, <2>4
    <3>2. \A y : y \in F(<<b, p>>) => At(x, y)
      BY <2>4
    <3>3. ASSUME NEW y, At(x, y) PROVE y \in F(<<b, p>>)
      <4>1. /\ \A q \in Peers : x # OnQueue(q)
            /\ \A c \in Brokers : x # HeldBy(c)
            /\ \A w \in Workers : x # Inside(w)
            /\ \A c \in Brokers, q \in Peers : x # To(c, q)
        BY <2>4, Apart
      <4>2. PICK c \in Brokers, q \in Peers : x = From(c, q) /\ y \in F(<<c, q>>)
        BY <3>3, <4>1, Zenon
      <4>3. c = b /\ q = p
        BY <2>4, <4>2 DEF From
      <4>4. QED
        BY <4>2, <4>3
    <3> HIDE DEF At
    <3>4. QED
      BY <3>1, <3>2, <3>3
  <2>5. ASSUME NEW w \in Workers, x = Inside(w) PROVE \E z : \A y : At(x, y) <=> y = z
    <3>1. PICK z : I(w) = {z}
      BY <1>7, <2>5
    <3>2. \A y : At(x, y) <=> y \in I(w)
      BY <2>5, Apart
    <3> HIDE DEF At
    <3>3. QED
      BY <3>1, <3>2
  <2>6. QED
    BY <2>1, <2>2, <2>3, <2>4, <2>5, PlaceIs
<1> HIDE DEF At
<1>11. \A x, y \in Place : r \in Load(x) /\ r \in Load(y) => x = y
  BY OnePlaceOnly
<1>12. ASSUME NEW x \in Place, r \in Load(x) PROVE \E z : Places(r) = {z}
  <2>1. PICK z : \A y : At(x, y) <=> y = z
    BY <1>10, <1>12
  <2>2. \A y : y \in Places(r) <=> y = z
    BY <1>8, <1>9, <1>11, <1>12, <2>1
  <2>3. QED
    BY <2>2
<1>13. (\A x \in Place : r \notin Load(x)) => Places(r) = {}
  BY <1>8, <1>9
<1>14. QED
  BY <1>12, <1>13

(* A request that is open is in exactly one place, on its way to a worker  *)
(* or back; one that is answered or counted as lost is nowhere any more.   *)
THEOREM RequestsInOnePlace == Spec => []InOnePlace
<1>1. ASSUME MInv PROVE InOnePlace
  <2> SUFFICES ASSUME NEW r \in Requests PROVE Cardinality(Places(r)) = IF fate[r] = "open" THEN 1 ELSE 0
    BY DEF InOnePlace
  <2>1. fate[r] = "open" <=> \E x \in Place : r \in Load(x)
    BY <1>1 DEF MInv, Accounts, Accounted
  <2>2. CASE fate[r] = "open"
    <3>1. PICK z : Places(r) = {z}
      BY <1>1, <2>1, <2>2, PlacesIs
    <3>2. QED
      BY <2>2, <3>1, FS_Singleton
  <2>3. CASE fate[r] # "open"
    <3>1. Places(r) = {}
      BY <1>1, <2>1, <2>3, PlacesIs
    <3>2. QED
      BY <2>3, <3>1, FS_EmptySet
  <2>4. QED
    BY <2>2, <2>3
<1>2. QED
  BY <1>1, MajordomoInvariant, PTL

(* A line without repetitions is as long as the set of those in it is big. *)
LEMMA LineLength ==
  ASSUME NEW S, NEW s \in Seq(S), Once(s) PROVE Len(s) = Cardinality(ToSet(s))
<1> DEFINE n == Len(s)
<1>1. n \in Nat /\ DOMAIN s = 1 .. n
  OBVIOUS
<1>2. s \in Bijection(1 .. n, ToSet(s))
  <2>1. s \in [1 .. n -> ToSet(s)]
    BY <1>1 DEF ToSet
  <2>2. \A i, j \in 1 .. n : s[i] = s[j] => i = j
    BY <1>1 DEF Once
  <2>3. \A x \in ToSet(s) : \E i \in 1 .. n : s[i] = x
    BY <1>1 DEF ToSet
  <2>4. QED
    BY <2>1, <2>2, <2>3 DEF Bijection, Injection, IsInjective, Surjection
<1> HIDE DEF n
<1>3. ExistsBijection(1 .. n, ToSet(s))
  BY <1>2 DEF ExistsBijection
<1>4. Cardinality(ToSet(s)) = n
  BY <1>1, <1>3, FS_CountingElements
<1>5. QED
  BY <1>4 DEF n

(* Managers, records and histories keep their types, and a worker is in    *)
(* the line of a broker exactly when it is registered there, and once.     *)
THEOREM MajordomoTypeCorrect == Spec => []TypeOK
<1>1. ASSUME MInv PROVE TypeOK
  <2>1. mgr \in [Peers -> ManagerType(Brokers)]
    <3>1. \A p \in Peers : mgr[p] \in ManagerType(Brokers)
      <4> SUFFICES ASSUME NEW p \in Peers PROVE mgr[p] \in ManagerType(Brokers)
        OBVIOUS
      <4>1. PICK m : m = mgr[p]
        OBVIOUS
      <4>2. Typed(m)
        BY <1>1, <4>1 DEF MInv, Peered
      <4>3. m \in ManagerType(Brokers)
        BY <4>2 DEF Typed, ManagerType, Connector
      <4>4. QED
        BY <4>1, <4>3
    <3>2. mgr = [p \in Peers |-> mgr[p]]
      BY <1>1 DEF MInv, Peered
    <3>3. QED
      BY <3>1, <3>2
  <2>2. ASSUME NEW b \in Brokers
        PROVE  /\ \A w \in DOMAIN broker[b].known : broker[b].known[w] \in [liveness : 0 .. MaxLiveness, late : BOOLEAN]
               /\ ToSet(broker[b].line) = DOMAIN broker[b].known
               /\ Len(broker[b].line) = Cardinality(DOMAIN broker[b].known)
               /\ ToSet(broker[b].held) \subseteq Requests /\ broker[b].sent = NoMail
    <3>1. PICK s : s = broker[b]
      OBVIOUS
    <3>2. Stock(s) /\ s.sent = NoMail
      BY <1>1, <3>1 DEF MInv, Queues, Records
    <3>3. /\ \A w \in DOMAIN s.known : s.known[w] \in KnownWorker
          /\ s.line \in Seq(Workers) /\ Once(s.line) /\ ToSet(s.line) = DOMAIN s.known
          /\ s.held \in Seq(Requests)
      BY <3>2 DEF Stock, Workforce
    <3>4. Len(s.line) = Cardinality(DOMAIN s.known)
      BY <3>3, LineLength
    <3>5. ToSet(s.held) \subseteq Requests
      BY <3>3 DEF ToSet
    <3>6. QED
      BY <3>1, <3>2, <3>3, <3>4, <3>5 DEF KnownWorker
  <2>3. fate \in [Requests -> Fates] /\ runs \in [Requests -> Nat] /\ inside \subseteq Workers \X Requests
    <3>1. \A r \in Requests : fate[r] \in Fates /\ runs[r] \in Nat
      BY <1>1 DEF MInv, Accounts, Accounted
    <3>2. /\ fate = [r \in Requests |-> fate[r]] /\ runs = [r \in Requests |-> runs[r]]
          /\ inside \subseteq Workers \X Requests
      BY <1>1 DEF MInv, Accounts
    <3>3. QED
      BY <3>1, <3>2
  <2>4. alive \subseteq Brokers \cup Peers /\ ready \subseteq Peers \X Brokers /\ hurries \in 0 .. MaxHurries
    BY <1>1 DEF MInv, Peered
  <2>5. QED
    BY <2>1, <2>2, <2>3, <2>4 DEF TypeOK
<1>2. QED
  BY <1>1, MajordomoInvariant, PTL
=============================================================================
