---------------------------- MODULE WiringProofs ----------------------------
(***************************************************************************)
(* Proofs about Wiring for every set of actors, every Size and every set   *)
(* of connections a program may ask for, in any order and number.          *)
(*                                                                         *)
(* What each operator on the net may do is stated as a relation between    *)
(* the net before and after (Dumped, Added, Registered, Logged, Opened,    *)
(* Taken), proved of the operator once, and used by the rest: first for    *)
(* the types and the wiring, then for the order of the log entries.        *)
(***************************************************************************)
EXTENDS Wiring, FiniteSetTheorems, SequenceTheorems, TLAPS

(* The pools a connection can start from, and all of them.                 *)
Scopes == {"outbound", "error", "logs"}

Pooled == Scopes \cup {"inbound"}

Queues == [items : Seq(Entries), readers : SUBSET All, taken : Seq(Entries)]

(* The fields of a net are functions and records, whatever they hold.      *)
Shape(w) ==
  /\ w = [pool |-> w.pool, queues |-> w.queues, said |-> w.said, outcome |-> w.outcome]
  /\ w.pool = [a \in All |-> [s \in Pooled |-> w.pool[a][s]]]
  /\ w.queues = [q \in DOMAIN w.queues |-> w.queues[q]]
  /\ w.said \in [All -> Nat]
  /\ w.outcome \in {"ok", "stuck", "hung"}

(* Queues hold entries, no more than Size, and the pools name queues that  *)
(* exist.                                                                  *)
Typed(w) ==
  /\ Shape(w)
  /\ \A q \in DOMAIN w.queues : /\ w.queues[q] \in Queues
                                /\ Size # 0 => Len(w.queues[q].items) <= Size
  /\ \A a \in All : \A s \in Pooled : \A n \in DOMAIN w.pool[a][s] :
       w.pool[a][s][n] \in DOMAIN w.queues
  /\ \A a \in All : IsFiniteSet(DOMAIN w.pool[a].logs)

(* Whoever reads a queue has it among its inbound queues and the other way *)
(* round, and what can be put on is read: all but the queues of new, which *)
(* a connection has made and not registered yet.                           *)
ReadsBut(w, new) ==
  /\ \A q \in DOMAIN w.queues : \A b \in w.queues[q].readers :
       \E n \in DOMAIN w.pool[b].inbound : w.pool[b].inbound[n] = q
  /\ \A b \in All : \A n \in DOMAIN w.pool[b].inbound :
       b \in w.queues[w.pool[b].inbound[n]].readers
  /\ \A a \in All : \A s \in Scopes : \A n \in DOMAIN w.pool[a][s] \ {Placeholder} :
       w.pool[a][s][n] \in new \/ w.queues[w.pool[a][s][n]].readers # {}
  /\ \A q \in DOMAIN w.queues :
       /\ q.owner \in All /\ q.scope \in Scopes
       /\ q = Slot(q.owner, q.scope, q.name)
       /\ q.name # Placeholder /\ q \notin new => q.name \in DOMAIN w.pool[q.owner][q.scope]

-----------------------------------------------------------------------------
(* A dictionary after an assignment.                                       *)
LEMMA Assigned ==
  ASSUME NEW f, NEW x, NEW y
  PROVE  /\ DOMAIN Assign(f, x, y) = DOMAIN f \cup {x}
         /\ Assign(f, x, y)[x] = y
         /\ \A z \in DOMAIN f : z # x => Assign(f, x, y)[z] = f[z]
         /\ Assign(f, x, y) = [z \in DOMAIN Assign(f, x, y) |-> Assign(f, x, y)[z]]
  BY DEF Assign

(* v is w with P for one pool of an actor.                                 *)
PoolSet(w, v, a, s, P) ==
  /\ Shape(v)
  /\ v.queues = w.queues /\ v.said = w.said /\ v.outcome = w.outcome
  /\ v.pool[a][s] = P
  /\ \A b \in All : \A t \in Pooled : b # a \/ t # s => v.pool[b][t] = w.pool[b][t]

(* An EXCEPT on a pool does that,                                          *)
LEMMA WithPool ==
  ASSUME NEW w, Shape(w), NEW a \in All, NEW s \in Pooled, NEW P
  PROVE  PoolSet(w, [w EXCEPT !.pool[a][s] = P], a, s, P)
<1> DEFINE v == [w EXCEPT !.pool[a][s] = P]
           Q == [w.pool EXCEPT ![a] = [w.pool[a] EXCEPT ![s] = P]]
<1>1. v = [w EXCEPT !.pool = Q]
  BY DEF Shape
<1>2. Q = [b \in All |-> [t \in Pooled |-> IF b = a /\ t = s THEN P ELSE w.pool[b][t]]]
  BY DEF Shape
<1> HIDE DEF Q, v
<1>3. v = [pool |-> Q, queues |-> w.queues, said |-> w.said, outcome |-> w.outcome]
  BY <1>1 DEF Shape
<1>4. \A b \in All : \A t \in Pooled : v.pool[b][t] = IF b = a /\ t = s THEN P ELSE w.pool[b][t]
  BY <1>2, <1>3
<1>5. v.pool = [b \in All |-> [t \in Pooled |-> v.pool[b][t]]]
  BY <1>2, <1>3
<1>6. Shape(v)
  BY <1>3, <1>5 DEF Shape
<1> QED
  BY <1>3, <1>4, <1>6 DEF v, PoolSet

(* an EXCEPT on the queues changes nothing else,                           *)
LEMMA WithQueues ==
  ASSUME NEW w, Shape(w), NEW Q, Q = [q \in DOMAIN Q |-> Q[q]]
  PROVE  LET v == [w EXCEPT !.queues = Q]
         IN  Shape(v) /\ v.queues = Q /\ v.said = w.said /\ v.outcome = w.outcome /\ v.pool = w.pool
  BY DEF Shape

(* nor does one on what two of them hold.                                  *)
LEMMA WithItems ==
  ASSUME NEW w, Typed(w), NEW q \in DOMAIN w.queues, NEW I \in Seq(Entries),
         Size # 0 => Len(I) <= Size
  PROVE  LET v == [w EXCEPT !.queues[q].items = I]
         IN  /\ Typed(v)
             /\ v.pool = w.pool /\ v.said = w.said /\ v.outcome = w.outcome
             /\ v.queues = [w.queues EXCEPT ![q].items = I]
<1> DEFINE v == [w EXCEPT !.queues[q].items = I]
           Q == [w.queues EXCEPT ![q].items = I]
<1>1. v = [w EXCEPT !.queues = Q]
  BY DEF Typed, Shape
<1>2. Q = [p \in DOMAIN Q |-> Q[p]] /\ DOMAIN Q = DOMAIN w.queues
  BY DEF Typed, Shape
<1>3. \A p \in DOMAIN Q : Q[p] \in Queues /\ (Size # 0 => Len(Q[p].items) <= Size)
  BY DEF Typed, Shape, Queues
<1> HIDE DEF Q, v
<1>4. Shape(v) /\ v.queues = Q /\ v.said = w.said /\ v.outcome = w.outcome /\ v.pool = w.pool
  BY <1>1, <1>2, WithQueues DEF Typed
<1>5. Typed(v)
  BY <1>2, <1>3, <1>4 DEF Typed
<1> QED
  BY <1>4, <1>5 DEF Q, v

(* The queues R are what a dump of from on to may leave of the queues Q: a *)
(* first part of the items moves, a last part stays, at least one in       *)
(* between is lost where they do not fit.                                  *)
Dumped(Q, R, from, to) ==
  /\ DOMAIN R = DOMAIN Q
  /\ \A q \in DOMAIN Q : R[q].readers = Q[q].readers /\ R[q].taken = Q[q].taken
  /\ \A q \in DOMAIN Q \ {from, to} : R[q] = Q[q]
  /\ from = to => R = Q
  /\ from # to => \E k \in 0 .. Len(Q[from].items), m \in Nat :
       /\ k < m
       /\ R[to].items = Q[to].items \o SubSeq(Q[from].items, 1, k)
       /\ R[from].items = SubSeq(Q[from].items, m, Len(Q[from].items))

(* What fits of one queue leaves both within Size.                         *)
LEMMA Portions ==
  ASSUME NEW S, NEW from \in Seq(S), NEW to \in Seq(S), NEW k \in 0 .. Len(from),
         Size # 0 => Len(from) <= Size /\ Len(to) + k <= Size
  PROVE  /\ to \o SubSeq(from, 1, k) \in Seq(S)
         /\ Size # 0 => Len(to \o SubSeq(from, 1, k)) <= Size
         /\ SubSeq(from, k + 2, Len(from)) \in Seq(S)
         /\ Size # 0 => Len(SubSeq(from, k + 2, Len(from))) <= Size
<1>1. SubSeq(from, 1, k) \in Seq(S) /\ Len(SubSeq(from, 1, k)) = k
  OBVIOUS
<1>2. CASE k + 2 <= Len(from)
  <2>1. /\ SubSeq(from, k + 2, Len(from)) \in Seq(S)
        /\ Len(SubSeq(from, k + 2, Len(from))) = Len(from) - k - 1
    BY <1>2
  <2> QED
    BY <1>1, <2>1, WiringAssumption
<1>3. CASE ~(k + 2 <= Len(from))
  <2>1. SubSeq(from, k + 2, Len(from)) = <<>>
    BY <1>3
  <2> QED
    BY <1>1, <2>1, WiringAssumption
<1> QED
  BY <1>2, <1>3

(* Dump does no more than that.                                            *)
LEMMA DumpDoes ==
  ASSUME NEW w, Typed(w), NEW from \in DOMAIN w.queues, NEW to \in DOMAIN w.queues,
         NEW v, v = Dump(w, from, to)
  PROVE  Typed(v) /\ v.pool = w.pool /\ v.said = w.said /\ Dumped(w.queues, v.queues, from, to)
<1> DEFINE batch == w.queues[from].items
           fits == IF Size = 0 \/ Len(batch) <= Room(w, to) THEN Len(batch) ELSE Room(w, to)
           A == w.queues[to].items \o SubSeq(batch, 1, fits)
           B == SubSeq(batch, fits + 2, Len(batch))
           u == [w EXCEPT !.queues[to].items = A]
<1>a. /\ batch \in Seq(Entries) /\ w.queues[to].items \in Seq(Entries)
      /\ Size # 0 => Len(batch) <= Size /\ Len(w.queues[to].items) <= Size
  BY DEF Typed, Queues
<1>b. fits \in 0 .. Len(batch) /\ (Size # 0 => Len(w.queues[to].items) + fits <= Size)
  <2> HIDE DEF batch
  <2> DEFINE l == Len(w.queues[to].items)
             b == Len(batch)
  <2>1. l \in Nat /\ b \in Nat /\ (Size # 0 => b <= Size /\ l <= Size)
    BY <1>a
  <2>2. Size # 0 => Room(w, to) = Size - l
    BY DEF Room
  <2> HIDE DEF l, b
  <2>3. (IF Size = 0 \/ b <= Room(w, to) THEN b ELSE Room(w, to)) \in 0 .. b
    BY <2>1, <2>2, WiringAssumption
  <2>4. Size # 0 => l + (IF Size = 0 \/ b <= Room(w, to) THEN b ELSE Room(w, to)) <= Size
    BY <2>1, <2>2, WiringAssumption
  <2> QED
    BY <2>3, <2>4 DEF b, l
<1> HIDE DEF fits, batch
<1>1. CASE batch = <<>>
  <2>1. v = w
    BY <1>1 DEF Dump, batch
  <2>2. /\ 0 \in 0 .. Len(batch) /\ SubSeq(batch, 1, Len(batch)) = batch /\ 1 \in Nat /\ 0 < 1
        /\ w.queues[to].items = w.queues[to].items \o SubSeq(batch, 1, 0)
    BY <1>1, <1>a
  <2>3. \E k \in 0 .. Len(batch), m \in Nat :
              /\ k < m
              /\ w.queues[to].items = w.queues[to].items \o SubSeq(batch, 1, k)
              /\ batch = SubSeq(batch, m, Len(batch))
    BY <2>2
  <2> QED
    BY <2>1, <2>3 DEF batch, Dumped
<1>2. CASE batch # <<>> /\ from = to
  <2>1. v = [w EXCEPT !.outcome = "hung"]
    BY <1>2 DEF Dump, batch
  <2> QED
    BY <1>2, <2>1 DEF Typed, Shape, Dumped
<1>3. CASE batch # <<>> /\ from # to
  <2>1. v = [u EXCEPT !.queues[from].items = B]
    BY <1>3 DEF Dump, batch, fits
  <2>2. /\ A \in Seq(Entries) /\ (Size # 0 => Len(A) <= Size)
        /\ B \in Seq(Entries) /\ (Size # 0 => Len(B) <= Size)
    BY <1>a, <1>b, Portions
  <2> HIDE DEF A, B
  <2>3. /\ Typed(u) /\ u.pool = w.pool /\ u.said = w.said
        /\ u.queues = [w.queues EXCEPT ![to].items = A]
    BY <2>2, WithItems
  <2> HIDE DEF u
  <2>4. DOMAIN u.queues = DOMAIN w.queues
    BY <2>3
  <2>5. /\ Typed(v) /\ v.pool = w.pool /\ v.said = w.said
        /\ v.queues = [u.queues EXCEPT ![from].items = B]
    <3>1. LET x == [u EXCEPT !.queues[from].items = B]
          IN  /\ Typed(x) /\ x.pool = u.pool /\ x.said = u.said
              /\ x.queues = [u.queues EXCEPT ![from].items = B]
      <4>1. from \in DOMAIN u.queues /\ Typed(u) /\ B \in Seq(Entries) /\ (Size # 0 => Len(B) <= Size)
        BY <2>2, <2>3, <2>4
      <4> QED
        BY ONLY <4>1, WithItems
    <3> QED
      BY <2>1, <2>3, <3>1
  <2>6. \A q \in DOMAIN w.queues : w.queues[q] \in Queues
    BY DEF Typed
  <2>8. \A q \in DOMAIN w.queues :
          v.queues[q] = IF q = from THEN [w.queues[q] EXCEPT !.items = B]
                        ELSE IF q = to THEN [w.queues[q] EXCEPT !.items = A] ELSE w.queues[q]
    BY <1>3, <2>3, <2>4, <2>5
  <2>9. /\ \A q \in DOMAIN w.queues : v.queues[q].readers = w.queues[q].readers
                                     /\ v.queues[q].taken = w.queues[q].taken
        /\ \A q \in DOMAIN w.queues \ {from, to} : v.queues[q] = w.queues[q]
        /\ v.queues[to].items = A /\ v.queues[from].items = B
        /\ DOMAIN v.queues = DOMAIN w.queues
    BY <1>3, <2>4, <2>5, <2>6, <2>8 DEF Queues
  <2>7. fits < fits + 2 /\ fits + 2 \in Nat
    BY <1>a, <1>b
  <2> QED
    BY <1>3, <1>b, <2>3, <2>5, <2>7, <2>9 DEF A, B, batch, Dumped
<1> QED
  BY <1>1, <1>2, <1>3

(* What Add may do: the pool gets the queue and loses its placeholder,     *)
(* whose entries are dumped.                                               *)
Added(w, v, a, scope, n, q) ==
  /\ v.said = w.said
  /\ \A b \in All : \A t \in Pooled : b # a \/ t # scope => v.pool[b][t] = w.pool[b][t]
  /\ DOMAIN v.pool[a][scope] = (DOMAIN w.pool[a][scope] \ {Placeholder}) \cup {n}
  /\ v.pool[a][scope][n] = q
  /\ \A m \in DOMAIN w.pool[a][scope] \ {Placeholder, n} :
       v.pool[a][scope][m] = w.pool[a][scope][m]
  /\ IF scope = "logs" /\ Named(w.pool[a].logs, Placeholder)
       THEN Dumped(w.queues, v.queues, w.pool[a].logs[Placeholder], q)
       ELSE v.queues = w.queues

(* It does no more.                                                        *)
LEMMA AddDoes ==
  ASSUME NEW w, Typed(w), NEW a \in All, NEW scope \in Scopes, NEW n, NEW q \in DOMAIN w.queues,
         NEW v, v = Add(w, a, scope, n, q)
  PROVE  Typed(v) /\ Added(w, v, a, scope, n, q)
<1> DEFINE d == IF scope = "logs" /\ Named(w.pool[a].logs, Placeholder)
                  THEN Dump(w, w.pool[a].logs[Placeholder], q) ELSE w
           old == w.pool[a][scope]
           P == Assign(Restrict(old, DOMAIN old \ {Placeholder}), n, q)
<1>1. /\ Typed(d) /\ d.pool = w.pool /\ d.said = w.said
      /\ IF scope = "logs" /\ Named(w.pool[a].logs, Placeholder)
           THEN Dumped(w.queues, d.queues, w.pool[a].logs[Placeholder], q)
           ELSE d.queues = w.queues
  <2>1. CASE scope = "logs" /\ Named(w.pool[a].logs, Placeholder)
    <3>1. w.pool[a].logs[Placeholder] \in DOMAIN w.queues
      BY <2>1 DEF Typed, Pooled, Scopes, Named
    <3> QED
      BY <2>1, <3>1, DumpDoes
  <2>2. CASE ~(scope = "logs" /\ Named(w.pool[a].logs, Placeholder))
    BY <2>2
  <2> QED
    BY <2>1, <2>2
<1> HIDE DEF d
<1>2. v = [d EXCEPT !.pool[a][scope] = Assign(Restrict(d.pool[a][scope], DOMAIN d.pool[a][scope] \ {Placeholder}), n, q)]
  BY DEF Add, d
<1>3. v = [d EXCEPT !.pool[a][scope] = P]
  BY <1>1, <1>2
<1>4. /\ DOMAIN P = (DOMAIN old \ {Placeholder}) \cup {n}
      /\ P[n] = q
      /\ \A m \in DOMAIN old \ {Placeholder, n} : P[m] = old[m]
  BY DEF Assign, Restrict
<1> HIDE DEF P, old
<1>5. /\ Shape(v) /\ v.queues = d.queues /\ v.said = d.said /\ v.outcome = d.outcome
      /\ v.pool[a][scope] = P
      /\ \A b \in All : \A t \in Pooled : b # a \/ t # scope => v.pool[b][t] = d.pool[b][t]
  <2>1. scope \in Pooled /\ Shape(d) /\ a \in All
    BY <1>1 DEF Pooled, Typed
  <2>2. PoolSet(d, [d EXCEPT !.pool[a][scope] = P], a, scope, P)
    BY <2>1, WithPool
  <2> QED
    BY <1>3, <2>2 DEF PoolSet
<1>6. DOMAIN d.queues = DOMAIN w.queues
  BY <1>1 DEF Dumped
<1>7. \A b \in All : \A t \in Pooled : \A m \in DOMAIN v.pool[b][t] : v.pool[b][t][m] \in DOMAIN v.queues
  <2> TAKE b \in All
  <2> TAKE t \in Pooled
  <2> TAKE m \in DOMAIN v.pool[b][t]
  <2>1. CASE b = a /\ t = scope
    BY <1>1, <1>4, <1>5, <1>6, <2>1 DEF Typed, old
  <2>2. CASE b # a \/ t # scope
    BY <1>1, <1>5, <1>6, <2>2 DEF Typed
  <2> QED
    BY <2>1, <2>2
<1>8. \A b \in All : IsFiniteSet(DOMAIN v.pool[b].logs)
  <2> TAKE b \in All
  <2>1. CASE b = a /\ scope = "logs"
    <3>1. IsFiniteSet(DOMAIN old)
      BY <2>1 DEF Typed, old
    <3>2. IsFiniteSet(DOMAIN old \ {Placeholder})
      BY <3>1, FS_Subset
    <3>3. IsFiniteSet((DOMAIN old \ {Placeholder}) \cup {n})
      BY <3>2, FS_AddElement
    <3> QED
      BY <1>4, <1>5, <2>1, <3>3
  <2>2. CASE ~(b = a /\ scope = "logs")
    BY <1>1, <1>5, <2>2 DEF Typed, Pooled, Scopes
  <2> QED
    BY <2>1, <2>2
<1>9. Typed(v)
  BY <1>1, <1>5, <1>7, <1>8 DEF Typed
<1> QED
  BY <1>1, <1>4, <1>5, <1>9 DEF Added, old

(* What Register may do: a new inbound queue and a new reader.             *)
Registered(w, v, b, n, q) ==
  /\ v.said = w.said
  /\ \A a \in All : \A t \in Pooled : a # b \/ t # "inbound" => v.pool[a][t] = w.pool[a][t]
  /\ DOMAIN v.pool[b].inbound = DOMAIN w.pool[b].inbound \cup {n}
  /\ v.pool[b].inbound[n] = q
  /\ \A m \in DOMAIN w.pool[b].inbound \ {n} : v.pool[b].inbound[m] = w.pool[b].inbound[m]
  /\ v.queues = [w.queues EXCEPT ![q].readers = @ \cup {b}]

(* It does no more.                                                        *)
LEMMA RegisterDoes ==
  ASSUME NEW w, Typed(w), NEW b \in All, NEW n, NEW q \in DOMAIN w.queues,
         NEW v, v = Register(w, b, n, q)
  PROVE  Typed(v) /\ Registered(w, v, b, n, q)
<1> DEFINE P == Assign(w.pool[b].inbound, n, q)
           Q == [w.queues EXCEPT ![q].readers = @ \cup {b}]
           u == [w EXCEPT !.pool[b]["inbound"] = P]
<1>1. /\ DOMAIN P = DOMAIN w.pool[b].inbound \cup {n}
      /\ P[n] = q
      /\ \A m \in DOMAIN w.pool[b].inbound \ {n} : P[m] = w.pool[b].inbound[m]
  BY DEF Assign
<1>2. v = [u EXCEPT !.queues[q].readers = w.queues[q].readers \cup {b}]
  BY DEF Register, Typed, Shape
<1> HIDE DEF P
<1>3. /\ Shape(u) /\ u.queues = w.queues /\ u.said = w.said /\ u.outcome = w.outcome
      /\ u.pool[b].inbound = P
      /\ \A a \in All : \A t \in Pooled : a # b \/ t # "inbound" => u.pool[a][t] = w.pool[a][t]
  <2>1. Shape(w) /\ "inbound" \in Pooled
    BY DEF Typed, Pooled
  <2>2. PoolSet(w, u, b, "inbound", P)
    BY <2>1, WithPool
  <2> HIDE DEF u
  <2> QED
    BY <2>2 DEF PoolSet
<1> HIDE DEF u
<1>4. v = [u EXCEPT !.queues = Q]
  BY <1>2, <1>3 DEF Shape, Typed
<1>5. /\ Q = [p \in DOMAIN Q |-> Q[p]] /\ DOMAIN Q = DOMAIN w.queues
      /\ \A p \in DOMAIN Q : Q[p] \in Queues /\ Q[p].items = w.queues[p].items
  BY DEF Typed, Shape, Queues
<1> HIDE DEF Q
<1>6. Shape(v) /\ v.queues = Q /\ v.said = u.said /\ v.outcome = u.outcome /\ v.pool = u.pool
  BY <1>3, <1>4, <1>5, WithQueues
<1>7. \A a \in All : \A t \in Pooled : \A m \in DOMAIN v.pool[a][t] : v.pool[a][t][m] \in DOMAIN v.queues
  <2> TAKE a \in All
  <2> TAKE t \in Pooled
  <2> TAKE m \in DOMAIN v.pool[a][t]
  <2>1. CASE a = b /\ t = "inbound"
    BY <1>1, <1>3, <1>5, <1>6, <2>1 DEF Typed
  <2>2. CASE a # b \/ t # "inbound"
    BY <1>3, <1>5, <1>6, <2>2 DEF Typed
  <2> QED
    BY <2>1, <2>2
<1>8. Typed(v)
  BY <1>3, <1>5, <1>6, <1>7 DEF Typed, Pooled, Scopes
<1> QED
  BY <1>1, <1>3, <1>6, <1>8 DEF Registered, Q

(* What Log may do: entries at the end of some of the queues of the pool.  *)
Logged(w, v, a) ==
  /\ v.pool = w.pool /\ v.said = [w.said EXCEPT ![a] = @ + 1]
  /\ DOMAIN v.queues = DOMAIN w.queues
  /\ \A q \in DOMAIN w.queues :
       /\ v.queues[q].readers = w.queues[q].readers /\ v.queues[q].taken = w.queues[q].taken
       /\ \/ v.queues[q].items = w.queues[q].items
          \/ /\ q \in Range(w.pool[a].logs)
             /\ \E k \in Nat : v.queues[q].items =
                                 w.queues[q].items \o [i \in 1 .. k |-> <<a, w.said[a] + 1>>]

(* It does no more, and never writes beyond Size.                          *)
LEMMA LogDoes ==
  ASSUME NEW w, Typed(w), NEW a \in All, NEW v, v = Log(w, a)
  PROVE  Typed(v) /\ Logged(w, v, a)
<1> DEFINE entry == <<a, w.said[a] + 1>>
           More(q) == [i \in 1 .. Copies(w, a, q) |-> entry]
           On == Range(w.pool[a].logs) \ FullFor(w, a)
           Q == [q \in DOMAIN w.queues |->
                   IF q \in On THEN [w.queues[q] EXCEPT !.items = @ \o More(q)]
                               ELSE w.queues[q]]
           said == [w.said EXCEPT ![a] = @ + 1]
           out == IF FullFor(w, a) = {} THEN w.outcome ELSE "stuck"
<1>1. v = [w EXCEPT !.said = said, !.queues = Q, !.outcome = out]
  <2>1. v = [w EXCEPT !.said[a] = w.said[a] + 1, !.queues = Q, !.outcome = out]
    BY DEF Log
  <2> HIDE DEF Q, out
  <2> QED
    BY <2>1 DEF Typed, Shape
<1>2. said \in [All -> Nat] /\ entry \in Entries
  BY DEF Typed, Shape, Entries
<1> HIDE DEF entry, Q, out
<1>3. v = [pool |-> w.pool, queues |-> Q, said |-> said, outcome |-> out]
  BY <1>1 DEF Typed, Shape
<1>4. \A q \in DOMAIN w.queues : Copies(w, a, q) \in Nat
  <2> TAKE q \in DOMAIN w.queues
  <2>1. IsFiniteSet(DOMAIN w.pool[a].logs)
    BY DEF Typed
  <2>2. IsFiniteSet({n \in DOMAIN w.pool[a].logs : w.pool[a].logs[n] = q})
    BY <2>1, FS_Subset
  <2> QED
    BY <2>2, FS_CardinalityType DEF Copies
<1>5. \A q \in DOMAIN w.queues :
        More(q) \in Seq(Entries) /\ Len(More(q)) = Copies(w, a, q)
  BY <1>2, <1>4
<1>6. \A q \in On : Size # 0 => Len(w.queues[q].items) + Copies(w, a, q) <= Size
  <2> SUFFICES ASSUME NEW q \in On, Size # 0 PROVE Len(w.queues[q].items) + Copies(w, a, q) <= Size
    OBVIOUS
  <2>1. q \in DOMAIN w.queues
    BY DEF Range, Typed, Pooled, Scopes
  <2>2. ~(Copies(w, a, q) > Room(w, q)) /\ Room(w, q) = Size - Len(w.queues[q].items)
    BY DEF FullFor, Room
  <2>3. Len(w.queues[q].items) \in Nat
    BY <2>1 DEF Typed, Queues
  <2> QED
    BY <1>4, <2>1, <2>2, <2>3, WiringAssumption
<1> HIDE DEF More, On
<1>7. /\ Q = [q \in DOMAIN Q |-> Q[q]] /\ DOMAIN Q = DOMAIN w.queues
      /\ \A q \in DOMAIN w.queues :
           Q[q] = IF q \in On THEN [w.queues[q] EXCEPT !.items = w.queues[q].items \o More(q)]
                              ELSE w.queues[q]
  BY DEF Q
<1>8. ASSUME NEW q \in DOMAIN w.queues
      PROVE  /\ Q[q] \in Queues /\ (Size # 0 => Len(Q[q].items) <= Size)
             /\ Q[q].readers = w.queues[q].readers /\ Q[q].taken = w.queues[q].taken
             /\ \/ Q[q].items = w.queues[q].items
                \/ q \in On /\ Q[q].items = w.queues[q].items \o More(q)
  <2>1. w.queues[q] \in Queues /\ (Size # 0 => Len(w.queues[q].items) <= Size)
    BY DEF Typed
  <2>2. CASE q \in On
    <3> DEFINE I == w.queues[q].items \o More(q)
    <3>1. I \in Seq(Entries) /\ Len(I) = Len(w.queues[q].items) + Copies(w, a, q)
      <4>1. w.queues[q].items \in Seq(Entries) /\ More(q) \in Seq(Entries) /\ Len(More(q)) = Copies(w, a, q)
        BY <1>5, <2>1 DEF Queues
      <4> QED
        BY <4>1
    <3>2. Q[q] = [w.queues[q] EXCEPT !.items = I]
      BY <1>7, <2>2
    <3> HIDE DEF I
    <3>3. Q[q] \in Queues /\ Q[q].items = I /\ Q[q].readers = w.queues[q].readers /\ Q[q].taken = w.queues[q].taken
      BY <2>1, <3>1, <3>2 DEF Queues
    <3> QED
      BY <1>6, <2>2, <3>1, <3>3 DEF I
  <2>3. CASE q \notin On
    BY <1>7, <2>1, <2>3
  <2> QED
    BY <2>2, <2>3
<1>9. Typed(v)
  <2>1. Shape(v)
    BY <1>2, <1>3, <1>7 DEF Shape, Typed, out
  <2>2. v.pool = w.pool /\ v.queues = Q
    BY <1>3
  <2> QED
    BY <1>7, <1>8, <2>1, <2>2 DEF Typed
<1>10. \A q \in DOMAIN w.queues :
         \/ Q[q].items = w.queues[q].items
         \/ /\ q \in Range(w.pool[a].logs)
            /\ \E k \in Nat : Q[q].items = w.queues[q].items \o [i \in 1 .. k |-> <<a, w.said[a] + 1>>]
  BY <1>4, <1>8 DEF More, On, entry
<1>11. v.pool = w.pool /\ v.queues = Q /\ v.said = said
  BY <1>3
<1> QED
  BY <1>7, <1>8, <1>9, <1>10, <1>11 DEF Logged

-----------------------------------------------------------------------------
(* Adding a queue that is read, or about to be, keeps the wiring;          *)
LEMMA AddReads ==
  ASSUME NEW w, Typed(w), NEW new, ReadsBut(w, new),
         NEW a \in All, NEW scope \in Scopes, NEW n, NEW q \in DOMAIN w.queues,
         q \in new \/ w.queues[q].readers # {},
         NEW v, Added(w, v, a, scope, n, q)
  PROVE  ReadsBut(v, new)
<1>1. /\ DOMAIN v.queues = DOMAIN w.queues
      /\ \A p \in DOMAIN w.queues : v.queues[p].readers = w.queues[p].readers
  BY DEF Added, Dumped
<1>2. \A b \in All : v.pool[b].inbound = w.pool[b].inbound
  BY DEF Added, Pooled, Scopes
<1>3. \A b \in All : \A s \in Scopes : \A m \in DOMAIN v.pool[b][s] \ {Placeholder} :
        \/ m \in DOMAIN w.pool[b][s] /\ v.pool[b][s][m] = w.pool[b][s][m]
        \/ v.pool[b][s][m] = q
  BY DEF Added, Pooled
<1>4. \A b \in All : \A s \in Scopes : DOMAIN w.pool[b][s] \ {Placeholder} \subseteq DOMAIN v.pool[b][s]
  BY DEF Added, Pooled
<1>5. \A p \in DOMAIN w.queues : \A b \in w.queues[p].readers : b \in All
  BY DEF Typed, Queues
<1>6. \A b \in All : \A m \in DOMAIN w.pool[b].inbound : w.pool[b].inbound[m] \in DOMAIN w.queues
  BY DEF Typed, Pooled
<1>7. \A b \in All : \A s \in Scopes : \A m \in DOMAIN w.pool[b][s] : w.pool[b][s][m] \in DOMAIN w.queues
  BY DEF Typed, Pooled
<1>8. \A p \in DOMAIN v.queues : \A b \in v.queues[p].readers :
        \E m \in DOMAIN v.pool[b].inbound : v.pool[b].inbound[m] = p
  BY <1>1, <1>2, <1>5 DEF ReadsBut
<1>9. \A b \in All : \A m \in DOMAIN v.pool[b].inbound :
        b \in v.queues[v.pool[b].inbound[m]].readers
  BY <1>1, <1>2, <1>6 DEF ReadsBut
<1>10. \A b \in All : \A s \in Scopes : \A m \in DOMAIN v.pool[b][s] \ {Placeholder} :
         v.pool[b][s][m] \in new \/ v.queues[v.pool[b][s][m]].readers # {}
  <2> TAKE b \in All
  <2> TAKE s \in Scopes
  <2> TAKE m \in DOMAIN v.pool[b][s] \ {Placeholder}
  <2>1. CASE v.pool[b][s][m] = q
    BY <1>1, <2>1
  <2>2. CASE m \in DOMAIN w.pool[b][s] /\ v.pool[b][s][m] = w.pool[b][s][m]
    BY <1>1, <1>7, <2>2 DEF ReadsBut
  <2> QED
    BY <1>3, <2>1, <2>2
<1>11. \A p \in DOMAIN v.queues :
         /\ p.owner \in All /\ p.scope \in Scopes
         /\ p = Slot(p.owner, p.scope, p.name)
         /\ p.name # Placeholder /\ p \notin new => p.name \in DOMAIN v.pool[p.owner][p.scope]
  BY <1>1, <1>4 DEF ReadsBut
<1> QED
  BY <1>8, <1>9, <1>10, <1>11 DEF ReadsBut

(* registering the queue that was about to be read completes it.           *)
LEMMA RegisterReads ==
  ASSUME NEW w, Typed(w), NEW q \in DOMAIN w.queues, ReadsBut(w, {q}),
         q.name = Placeholder \/ q.name \in DOMAIN w.pool[q.owner][q.scope],
         NEW b \in All, NEW n, n \notin DOMAIN w.pool[b].inbound,
         NEW v, Registered(w, v, b, n, q)
  PROVE  ReadsBut(v, {})
<1>1. /\ DOMAIN v.queues = DOMAIN w.queues
      /\ \A p \in DOMAIN w.queues \ {q} : v.queues[p].readers = w.queues[p].readers
      /\ v.queues[q].readers = w.queues[q].readers \cup {b}
  BY DEF Registered, Typed, Queues
<1>2. \A a \in All : \A s \in Scopes : v.pool[a][s] = w.pool[a][s]
  BY DEF Registered, Pooled, Scopes
<1>3. \A a \in All : \A m \in DOMAIN w.pool[a].inbound :
        m \in DOMAIN v.pool[a].inbound /\ v.pool[a].inbound[m] = w.pool[a].inbound[m]
  BY DEF Registered, Pooled
<1>4. \A a \in All : \A m \in DOMAIN v.pool[a].inbound :
        \/ m \in DOMAIN w.pool[a].inbound /\ v.pool[a].inbound[m] = w.pool[a].inbound[m]
        \/ a = b /\ v.pool[a].inbound[m] = q
  BY DEF Registered, Pooled
<1>5. n \in DOMAIN v.pool[b].inbound /\ v.pool[b].inbound[n] = q
  BY DEF Registered
<1>6. \A p \in DOMAIN w.queues : \A a \in w.queues[p].readers : a \in All
  BY DEF Typed, Queues
<1>7. \A a \in All : \A s \in Pooled : \A m \in DOMAIN w.pool[a][s] : w.pool[a][s][m] \in DOMAIN w.queues
  BY DEF Typed
<1>8. \A p \in DOMAIN v.queues : \A a \in v.queues[p].readers :
        \E m \in DOMAIN v.pool[a].inbound : v.pool[a].inbound[m] = p
  <2> TAKE p \in DOMAIN v.queues
  <2> TAKE a \in v.queues[p].readers
  <2>1. CASE a \in w.queues[p].readers
    BY <1>1, <1>3, <1>6, <2>1 DEF ReadsBut
  <2>2. CASE a \notin w.queues[p].readers
    BY <1>1, <1>5, <2>2
  <2> QED
    BY <2>1, <2>2
<1>9. \A a \in All : \A m \in DOMAIN v.pool[a].inbound :
        a \in v.queues[v.pool[a].inbound[m]].readers
  BY <1>1, <1>4, <1>7 DEF ReadsBut, Pooled
<1>10. \A a \in All : \A s \in Scopes : \A m \in DOMAIN v.pool[a][s] \ {Placeholder} :
         v.queues[v.pool[a][s][m]].readers # {}
  <2> TAKE a \in All
  <2> TAKE s \in Scopes
  <2> TAKE m \in DOMAIN v.pool[a][s] \ {Placeholder}
  <2>1. /\ v.pool[a][s][m] = w.pool[a][s][m] /\ w.pool[a][s][m] \in DOMAIN w.queues
        /\ w.pool[a][s][m] = q \/ w.queues[w.pool[a][s][m]].readers # {}
    BY <1>2, <1>7 DEF ReadsBut, Pooled
  <2> QED
    BY <1>1, <2>1
<1>11. \A p \in DOMAIN v.queues :
         /\ p.owner \in All /\ p.scope \in Scopes
         /\ p = Slot(p.owner, p.scope, p.name)
         /\ p.name # Placeholder => p.name \in DOMAIN v.pool[p.owner][p.scope]
  BY <1>1, <1>2 DEF ReadsBut
<1> QED
  BY <1>8, <1>9, <1>10, <1>11 DEF ReadsBut

(* A queue made in a slot that was free.                                   *)
Opened(w, v, q) ==
  /\ v.pool = w.pool /\ v.said = w.said
  /\ q \notin DOMAIN w.queues /\ DOMAIN v.queues = DOMAIN w.queues \cup {q}
  /\ v.queues[q] = FreshQueue
  /\ \A p \in DOMAIN w.queues : v.queues[p] = w.queues[p]

(* Making it keeps the types.                                              *)
LEMMA OpenDoes ==
  ASSUME NEW w, Typed(w), NEW q, q \notin DOMAIN w.queues,
         NEW v, v = [w EXCEPT !.queues = Assign(w.queues, q, FreshQueue)]
  PROVE  Typed(v) /\ Opened(w, v, q)
<1> DEFINE Q == Assign(w.queues, q, FreshQueue)
<1>1. /\ Q = [p \in DOMAIN Q |-> Q[p]] /\ DOMAIN Q = DOMAIN w.queues \cup {q}
      /\ Q[q] = FreshQueue
      /\ \A p \in DOMAIN w.queues : Q[p] = w.queues[p]
  BY DEF Assign
<1> HIDE DEF Q
<1>2. v = [pool |-> w.pool, queues |-> Q, said |-> w.said, outcome |-> w.outcome]
  BY DEF Typed, Shape, Q
<1>3. FreshQueue \in Queues /\ Len(FreshQueue.items) = 0
  BY DEF FreshQueue, Queues
<1>4. Typed(v)
  BY <1>1, <1>2, <1>3, WiringAssumption DEF Typed, Shape
<1> QED
  BY <1>1, <1>2, <1>4 DEF Opened

(* The two ends of a connection are new: a queue is made, added,           *)
(* registered.                                                             *)
FirstLink(w, v, scope, a, n, b, inName) ==
  LET q == Slot(a, scope, n)
  IN  \E x, y : /\ Typed(x) /\ Opened(w, x, q)
                /\ Typed(y) /\ Added(x, y, a, scope, n, q)
                /\ Registered(y, v, b, inName, q)

(* Both are there already: what waits on one queue is dumped on the other. *)
Merged(w, v, scope, a, n, b, inName) ==
  LET q == w.pool[b].inbound[inName]
  IN  \E x : /\ Typed(x) /\ x.pool = w.pool /\ x.said = w.said
             /\ Dumped(w.queues, x.queues, w.pool[a][scope][n], q)
             /\ Added(x, v, a, scope, q.name, q)

(* __connect_queue does one of four things, by what is there already.      *)
LEMMA LinkDoes ==
  ASSUME NEW w, Typed(w), ReadsBut(w, {}),
         NEW scope \in Scopes, NEW a \in All, NEW n, n # Placeholder, NEW b \in All, NEW inName,
         NEW v, v = Link(w, scope, a, n, b, inName)
  PROVE  LET known == DOMAIN w.pool[a][scope]
             inbox == DOMAIN w.pool[b].inbound
         IN  /\ Typed(v)
             /\ n \notin known /\ inName \notin inbox => FirstLink(w, v, scope, a, n, b, inName)
             /\ n \notin known /\ inName \in inbox =>
                  Added(w, v, a, scope, n, w.pool[b].inbound[inName])
             /\ n \in known /\ inName \notin inbox =>
                  Registered(w, v, b, inName, w.pool[a][scope][n])
             /\ n \in known /\ inName \in inbox => Merged(w, v, scope, a, n, b, inName)
<1> DEFINE known == DOMAIN w.pool[a][scope]
           inbox == DOMAIN w.pool[b].inbound
           q == Slot(a, scope, n)
<1>1. CASE n \notin known /\ inName \notin inbox
  <2>1. q \notin DOMAIN w.queues
    BY <1>1 DEF ReadsBut, Slot
  <2> DEFINE x == [w EXCEPT !.queues = Assign(w.queues, q, FreshQueue)]
             y == Add(x, a, scope, n, q)
  <2>2. v = Register(y, b, inName, q)
    BY <1>1 DEF Link, AddNew, Named
  <2> HIDE DEF q
  <2>3. Typed(x) /\ Opened(w, x, q)
    BY <2>1, OpenDoes
  <2> HIDE DEF x
  <2>4. q \in DOMAIN x.queues
    BY <2>3 DEF Opened
  <2>5. Typed(y) /\ Added(x, y, a, scope, n, q)
    BY <2>3, <2>4, AddDoes
  <2> HIDE DEF y
  <2>6. q \in DOMAIN y.queues
    BY <2>4, <2>5 DEF Added, Dumped
  <2>7. Typed(v) /\ Registered(y, v, b, inName, q)
    BY <2>2, <2>5, <2>6, RegisterDoes
  <2>8. FirstLink(w, v, scope, a, n, b, inName)
    BY <2>3, <2>5, <2>7 DEF FirstLink, q
  <2> QED
    BY <1>1, <2>7, <2>8
<1>2. CASE n \notin known /\ inName \in inbox
  <2>1. v = Add(w, a, scope, n, w.pool[b].inbound[inName])
    BY <1>2 DEF Link, Named
  <2>2. w.pool[b].inbound[inName] \in DOMAIN w.queues
    BY <1>2 DEF Typed, Pooled
  <2>3. Typed(v) /\ Added(w, v, a, scope, n, w.pool[b].inbound[inName])
    BY <2>1, <2>2, AddDoes
  <2> QED
    BY <1>2, <2>3
<1>3. CASE n \in known /\ inName \notin inbox
  <2>1. v = Register(w, b, inName, w.pool[a][scope][n])
    BY <1>3 DEF Link, Named
  <2>2. w.pool[a][scope][n] \in DOMAIN w.queues
    BY <1>3 DEF Typed, Pooled
  <2>3. Typed(v) /\ Registered(w, v, b, inName, w.pool[a][scope][n])
    BY <2>1, <2>2, RegisterDoes
  <2> QED
    BY <1>3, <2>3
<1>4. CASE n \in known /\ inName \in inbox
  <2> DEFINE from == w.pool[a][scope][n]
             to == w.pool[b].inbound[inName]
             x == Dump(w, from, to)
  <2>1. v = Add(x, a, scope, to.name, to)
    BY <1>4 DEF Link, Named
  <2>2. from \in DOMAIN w.queues /\ to \in DOMAIN w.queues
    BY <1>4 DEF Typed, Pooled
  <2> HIDE DEF from, to
  <2>3. Typed(x) /\ x.pool = w.pool /\ x.said = w.said /\ Dumped(w.queues, x.queues, from, to)
    BY <2>2, DumpDoes
  <2> HIDE DEF x
  <2>4. to \in DOMAIN x.queues
    BY <2>2, <2>3 DEF Dumped
  <2>5. Typed(v) /\ Added(x, v, a, scope, to.name, to)
    BY <2>1, <2>3, <2>4, AddDoes
  <2> QED
    BY <1>4, <2>3, <2>5 DEF Merged, from, to
<1> QED
  BY <1>1, <1>2, <1>3, <1>4

(* What leaves pools and readers alone keeps the wiring,                   *)
LEMMA SameReads ==
  ASSUME NEW w, Typed(w), NEW new, ReadsBut(w, new), NEW v, v.pool = w.pool,
         DOMAIN v.queues = DOMAIN w.queues,
         \A q \in DOMAIN w.queues : v.queues[q].readers = w.queues[q].readers
  PROVE  ReadsBut(v, new)
<1>1. \A a \in All : \A s \in Pooled : \A n \in DOMAIN w.pool[a][s] : w.pool[a][s][n] \in DOMAIN w.queues
  BY DEF Typed
<1>2. \A q \in DOMAIN v.queues : \A b \in v.queues[q].readers :
        \E n \in DOMAIN v.pool[b].inbound : v.pool[b].inbound[n] = q
  BY DEF ReadsBut
<1>3. \A b \in All : \A n \in DOMAIN v.pool[b].inbound :
        b \in v.queues[v.pool[b].inbound[n]].readers
  BY <1>1 DEF ReadsBut, Pooled
<1>4. \A a \in All : \A s \in Scopes : \A n \in DOMAIN v.pool[a][s] \ {Placeholder} :
        v.pool[a][s][n] \in new \/ v.queues[v.pool[a][s][n]].readers # {}
  BY <1>1 DEF ReadsBut, Pooled
<1> QED
  BY <1>2, <1>3, <1>4 DEF ReadsBut

(* a queue that is made is the one that nobody reads yet,                  *)
LEMMA OpenReads ==
  ASSUME NEW w, Typed(w), ReadsBut(w, {}), NEW q, NEW v, Opened(w, v, q),
         q.owner \in All, q.scope \in Scopes, q = Slot(q.owner, q.scope, q.name)
  PROVE  ReadsBut(v, {q})
<1>1. /\ v.pool = w.pool /\ DOMAIN v.queues = DOMAIN w.queues \cup {q}
      /\ v.queues[q].readers = {}
      /\ \A p \in DOMAIN w.queues : v.queues[p].readers = w.queues[p].readers
  BY DEF Opened, FreshQueue
<1>2. \A a \in All : \A s \in Pooled : \A n \in DOMAIN w.pool[a][s] : w.pool[a][s][n] \in DOMAIN w.queues
  BY DEF Typed
<1>3. \A p \in DOMAIN v.queues : \A b \in v.queues[p].readers :
        \E n \in DOMAIN v.pool[b].inbound : v.pool[b].inbound[n] = p
  BY <1>1 DEF ReadsBut
<1>4. \A b \in All : \A n \in DOMAIN v.pool[b].inbound :
        b \in v.queues[v.pool[b].inbound[n]].readers
  BY <1>1, <1>2 DEF ReadsBut, Pooled
<1>5. \A a \in All : \A s \in Scopes : \A n \in DOMAIN v.pool[a][s] \ {Placeholder} :
        v.queues[v.pool[a][s][n]].readers # {}
  BY <1>1, <1>2 DEF ReadsBut, Pooled
<1>6. \A p \in DOMAIN v.queues :
        /\ p.owner \in All /\ p.scope \in Scopes
        /\ p = Slot(p.owner, p.scope, p.name)
        /\ p.name # Placeholder /\ p \notin {q} => p.name \in DOMAIN v.pool[p.owner][p.scope]
  BY <1>1 DEF ReadsBut
<1> QED
  BY <1>3, <1>4, <1>5, <1>6 DEF ReadsBut

(* and a connection leaves none of those behind, whichever of the four it  *)
(* was,                                                                    *)
LEMMA LinkReads ==
  ASSUME NEW w, Typed(w), ReadsBut(w, {}),
         NEW scope \in Scopes, NEW a \in All, NEW n, n # Placeholder, NEW b \in All, NEW inName,
         NEW v, v = Link(w, scope, a, n, b, inName)
  PROVE  Typed(v) /\ ReadsBut(v, {})
<1> DEFINE known == DOMAIN w.pool[a][scope]
           inbox == DOMAIN w.pool[b].inbound
           q == Slot(a, scope, n)
<1>1. CASE n \notin known /\ inName \notin inbox
  <2>1. PICK x, y : /\ Typed(x) /\ Opened(w, x, q)
                    /\ Typed(y) /\ Added(x, y, a, scope, n, q)
                    /\ Registered(y, v, b, inName, q)
    BY <1>1, LinkDoes DEF FirstLink
  <2>2. q.owner = a /\ q.scope = scope /\ q.name = n /\ q = Slot(q.owner, q.scope, q.name)
    BY DEF Slot
  <2> HIDE DEF q
  <2>3. ReadsBut(x, {q})
    BY <2>1, <2>2, OpenReads
  <2>4. q \in DOMAIN x.queues
    BY <2>1 DEF Opened
  <2>5. ReadsBut(y, {q}) /\ q \in DOMAIN y.queues
    <3>1. DOMAIN y.queues = DOMAIN x.queues
      BY <2>1 DEF Added, Dumped
    <3>2. ReadsBut(y, {q})
      BY <2>1, <2>3, <2>4, AddReads
    <3> QED
      BY <2>4, <3>1, <3>2
  <2>6. n \in DOMAIN y.pool[a][scope] /\ inName \notin DOMAIN y.pool[b].inbound
    BY <1>1, <2>1 DEF Added, Opened, Pooled, Scopes
  <2>7. ReadsBut(v, {})
    BY <2>1, <2>2, <2>5, <2>6, RegisterReads
  <2> QED
    BY <2>7, LinkDoes
<1>2. CASE n \notin known /\ inName \in inbox
  <2> DEFINE p == w.pool[b].inbound[inName]
  <2>1. Added(w, v, a, scope, n, p)
    BY <1>2, LinkDoes
  <2>2. p \in DOMAIN w.queues /\ w.queues[p].readers # {}
    BY <1>2 DEF Typed, Pooled, ReadsBut
  <2> HIDE DEF p
  <2>3. ReadsBut(v, {})
    BY <2>1, <2>2, AddReads
  <2> QED
    BY <2>3, LinkDoes
<1>3. CASE n \in known /\ inName \notin inbox
  <2> DEFINE p == w.pool[a][scope][n]
  <2>1. Registered(w, v, b, inName, p)
    BY <1>3, LinkDoes
  <2>2. p \in DOMAIN w.queues /\ (p.name = Placeholder \/ p.name \in DOMAIN w.pool[p.owner][p.scope])
    BY <1>3 DEF Typed, Pooled, ReadsBut
  <2> HIDE DEF p
  <2>3. ReadsBut(w, {p})
    BY DEF ReadsBut
  <2>4. ReadsBut(v, {})
    BY <1>3, <2>1, <2>2, <2>3, RegisterReads
  <2> QED
    BY <2>4, LinkDoes
<1>4. CASE n \in known /\ inName \in inbox
  <2> DEFINE p == w.pool[b].inbound[inName]
  <2>1. PICK x : /\ Typed(x) /\ x.pool = w.pool /\ x.said = w.said
                 /\ Dumped(w.queues, x.queues, w.pool[a][scope][n], p)
                 /\ Added(x, v, a, scope, p.name, p)
    BY <1>4, LinkDoes DEF Merged
  <2>2. p \in DOMAIN w.queues /\ w.queues[p].readers # {}
    BY <1>4 DEF Typed, Pooled, ReadsBut
  <2> HIDE DEF p
  <2>3. p \in DOMAIN x.queues /\ x.queues[p].readers # {}
    BY <2>1, <2>2 DEF Dumped
  <2>4. ReadsBut(x, {})
    BY <2>1, SameReads DEF Dumped
  <2>5. ReadsBut(v, {})
    BY <2>1, <2>3, <2>4, AddReads
  <2> QED
    BY <2>5, LinkDoes
<1> QED
  BY <1>1, <1>2, <1>3, <1>4

(* nor does the entry it writes change that.                               *)
LEMMA ConnectReads ==
  ASSUME NEW w, Typed(w), ReadsBut(w, {}),
         NEW scope \in Scopes, NEW a \in All, NEW n, n # Placeholder, NEW b \in All, NEW inName,
         NEW v, v = Connect(w, scope, a, n, b, inName)
  PROVE  Typed(v) /\ ReadsBut(v, {})
<1> DEFINE x == Link(w, scope, a, n, b, inName)
<1>1. Typed(x) /\ ReadsBut(x, {})
  BY LinkReads
<1>2. v = x \/ v = Log(x, a)
  BY DEF Connect
<1> HIDE DEF x
<1>3. CASE v = Log(x, a)
  <2>1. Typed(v) /\ Logged(x, v, a)
    BY <1>1, <1>3, LogDoes
  <2> QED
    BY <1>1, <2>1, SameReads DEF Logged
<1> QED
  BY <1>1, <1>2, <1>3

(* A consumer took the head of a queue.                                    *)
Taken(w, v, q) ==
  /\ v.pool = w.pool /\ v.said = w.said /\ DOMAIN v.queues = DOMAIN w.queues
  /\ \A p \in DOMAIN w.queues \ {q} : v.queues[p] = w.queues[p]
  /\ v.queues[q].readers = w.queues[q].readers
  /\ v.queues[q].items = Tail(w.queues[q].items)
  /\ v.queues[q].taken = Append(w.queues[q].taken, Head(w.queues[q].items))

(* Take does no more.                                                      *)
LEMMA TakeDoes ==
  ASSUME NEW w, Typed(w), NEW q \in DOMAIN w.queues, w.queues[q].items # <<>>,
         NEW v, v = [w EXCEPT !.queues[q].items = Tail(@),
                              !.queues[q].taken = Append(@, Head(w.queues[q].items))]
  PROVE  Typed(v) /\ Taken(w, v, q)
<1> DEFINE r == w.queues[q]
           I == Tail(r.items)
           T == Append(r.taken, Head(r.items))
           R == [items |-> I, readers |-> r.readers, taken |-> T]
           Q == [w.queues EXCEPT ![q] = R]
<1>1. r \in Queues /\ (Size # 0 => Len(r.items) <= Size)
  BY DEF Typed
<1>2. Q = [w.queues EXCEPT ![q].items = I, ![q].taken = T]
  BY <1>1 DEF Typed, Shape, Queues
<1>3. v = [w EXCEPT !.queues[q].items = I, !.queues[q].taken = T]
  OBVIOUS
<1>4. I \in Seq(Entries) /\ T \in Seq(Entries) /\ (Size # 0 => Len(I) <= Size)
  <2> HIDE DEF r
  <2>1. r.items \in Seq(Entries) /\ r.taken \in Seq(Entries) /\ r.items # <<>>
    BY <1>1 DEF Queues, r
  <2>2. Len(I) = Len(r.items) - 1 /\ Head(r.items) \in Entries /\ I \in Seq(Entries)
    BY <2>1
  <2> QED
    BY <1>1, <2>1, <2>2, WiringAssumption
<1>5. R \in Queues
  BY <1>1, <1>4 DEF Queues
<1> HIDE DEF I, T
<1>6. v = [w EXCEPT !.queues = [w.queues EXCEPT ![q].items = I, ![q].taken = T]]
  BY <1>3 DEF Typed, Shape
<1> HIDE DEF r, R
<1>7. /\ Q = [p \in DOMAIN Q |-> Q[p]] /\ DOMAIN Q = DOMAIN w.queues
      /\ Q[q] = R /\ \A p \in DOMAIN w.queues \ {q} : Q[p] = w.queues[p]
  BY DEF Typed, Shape
<1> HIDE DEF Q
<1>8. v = [pool |-> w.pool, queues |-> Q, said |-> w.said, outcome |-> w.outcome]
  BY <1>2, <1>6 DEF Typed, Shape
<1>9. \A p \in DOMAIN w.queues : Q[p] \in Queues /\ (Size # 0 => Len(Q[p].items) <= Size)
  BY <1>4, <1>5, <1>7 DEF Typed, R
<1>10. Typed(v)
  <2>1. v.pool = w.pool /\ v.queues = Q /\ v.said = w.said /\ v.outcome = w.outcome
    BY ONLY <1>8
  <2>2. v = [pool |-> v.pool, queues |-> v.queues, said |-> v.said, outcome |-> v.outcome]
    BY ONLY <1>8
  <2>3. Shape(v)
    <3>1. Shape(w)
      BY DEF Typed
    <3> QED
      BY ONLY <3>1, <1>7, <2>1, <2>2 DEF Shape
  <2> QED
    BY <1>7, <1>9, <2>1, <2>3 DEF Typed
<1>11. v.pool = w.pool /\ v.said = w.said /\ v.queues = Q
  BY ONLY <1>8
<1>12. Q[q].readers = w.queues[q].readers /\ Q[q].items = I /\ Q[q].taken = T
  BY ONLY <1>7 DEF R, r
<1>13. Taken(w, v, q)
  BY ONLY <1>7, <1>11, <1>12 DEF Taken, r, I, T
<1> QED
  BY <1>10, <1>13

(* What the Director is doing, and the actors that run.                    *)
Phases ==
  /\ phase \in {"connecting", "setup", "starting", "running"}
  /\ calls \in 0 .. MaxCalls
  /\ todo \subseteq All /\ entering \subseteq todo
  /\ started = IF phase \in {"starting", "running"} THEN (All \ todo) \cup entering ELSE {}
  /\ phase \in {"connecting", "setup"} => entering = {}

(* The inductive invariant of the wiring.                                  *)
WiringInv == Typed(net) /\ ReadsBut(net, {}) /\ Phases

(* It holds before any connection,                                         *)
LEMMA InitWired == Init => WiringInv
<1> SUFFICES ASSUME Init PROVE WiringInv
  OBVIOUS
<1>1. Typed(net)
  <2>1. /\ net = [pool |-> net.pool, queues |-> net.queues, said |-> net.said, outcome |-> net.outcome]
        /\ net.said \in [All -> Nat] /\ net.outcome = "ok"
    BY DEF Init
  <2>2. net.pool = [a \in All |->
                      [inbound |-> <<>>, outbound |-> <<>>, error |-> <<>>,
                       logs |-> [n \in {Placeholder} |-> Slot(a, "logs", n)]]]
    BY DEF Init
  <2>3. \A a \in All : net.pool[a] = [s \in Pooled |-> net.pool[a][s]]
    BY <2>2 DEF Pooled, Scopes
  <2>4. net.pool = [a \in All |-> [s \in Pooled |-> net.pool[a][s]]]
    BY <2>2, <2>3
  <2>5. net.queues = [q \in {Slot(a, "logs", Placeholder) : a \in All} |-> FreshQueue]
    BY DEF Init
  <2>6. Shape(net)
    BY <2>1, <2>4, <2>5 DEF Shape
  <2>7. \A q \in DOMAIN net.queues : net.queues[q] \in Queues /\ (Size # 0 => Len(net.queues[q].items) <= Size)
    BY <2>5, WiringAssumption DEF FreshQueue, Queues
  <2>8. \A a \in All : \A s \in Pooled : \A n \in DOMAIN net.pool[a][s] :
          net.pool[a][s][n] \in DOMAIN net.queues
    BY <2>2, <2>5 DEF Pooled, Scopes
  <2>9. \A a \in All : IsFiniteSet(DOMAIN net.pool[a].logs)
    <3>1. \A a \in All : DOMAIN net.pool[a].logs = {Placeholder}
      BY <2>2
    <3> QED
      BY <3>1, FS_Singleton
  <2> QED
    BY <2>6, <2>7, <2>8, <2>9 DEF Typed
<1>2. ReadsBut(net, {})
  BY DEF Init, ReadsBut, FreshQueue, Slot, Scopes
<1>3. Phases
  BY WiringAssumption DEF Init, Phases
<1> QED
  BY <1>1, <1>2, <1>3 DEF WiringInv

(* every step keeps it,                                                    *)
LEMMA NextWired == WiringInv /\ [Next]_vars => WiringInv'
<1> SUFFICES ASSUME WiringInv, [Next]_vars PROVE WiringInv'
  OBVIOUS
<1>1. ASSUME NEW c \in Calls, ConnectQueue(c) PROVE WiringInv'
  <2>1. c.scope \in Scopes /\ c.source \in All /\ c.destination \in All /\ SourceName(c) # Placeholder
    BY CallsAssumption DEF Scopes
  <2>2. Typed(net') /\ ReadsBut(net', {})
    BY <1>1, <2>1, ConnectReads DEF ConnectQueue, WiringInv
  <2>3. Phases'
    BY <1>1, WiringAssumption DEF ConnectQueue, Phases, WiringInv
  <2> QED
    BY <2>2, <2>3 DEF WiringInv
<1>2. CASE StartDirector
  <2>1. net' = net /\ Phases'
    BY <1>2 DEF StartDirector, WiringInv, Phases, All
  <2> QED
    BY <2>1 DEF WiringInv
<1>3. ASSUME NEW a \in All, SetupActor(a) PROVE WiringInv'
  <2> DEFINE e == WithErrors(net, a)
  <2>1. Typed(e) /\ ReadsBut(e, {})
    <3> DEFINE x == Connect(net, "error", a, ErrorActor, ErrorActor, InboundName("error", a))
    <3>1. "error" \in Scopes /\ ErrorActor \in All /\ ErrorActor # Placeholder
      BY CallsAssumption DEF Scopes, All
    <3>2. Typed(x) /\ ReadsBut(x, {})
      BY <3>1, ConnectReads DEF WiringInv
    <3>3. e = net \/ e = [x EXCEPT !.outcome = "ok"]
      BY DEF WithErrors
    <3> HIDE DEF x, e
    <3>4. CASE e = [x EXCEPT !.outcome = "ok"]
      <4>1. /\ e.pool = x.pool /\ e.queues = x.queues /\ e.said = x.said /\ e.outcome = "ok"
            /\ e = [pool |-> e.pool, queues |-> e.queues, said |-> e.said, outcome |-> e.outcome]
        BY <3>2, <3>4 DEF Typed, Shape
      <4>2. Typed(e)
        BY <3>2, <4>1 DEF Typed, Shape
      <4>3. ReadsBut(e, {})
        BY <3>2, <4>1, SameReads
      <4> QED
        BY <4>2, <4>3
    <3> QED
      BY <3>3, <3>4 DEF WiringInv
  <2> HIDE DEF e
  <2>2. /\ "logs" \in Scopes /\ LogActor \in All /\ "logs" # Placeholder
    BY DEF Scopes, All, Placeholder
  <2>3. net' = Connect(e, "logs", a, "logs", LogActor, Inbox)
    BY <1>3 DEF SetupActor, WithLogs, e
  <2>4. Typed(net') /\ ReadsBut(net', {})
    BY <2>1, <2>2, <2>3, ConnectReads
  <2>5. Phases'
    BY <1>3 DEF SetupActor, WiringInv, Phases
  <2> QED
    BY <2>4, <2>5 DEF WiringInv
<1>4. CASE SetupOwnLogs
  <2> DEFINE own == WithLogs(net, LogActor)
  <2>1. "logs" \in Scopes /\ LogActor \in All /\ ErrorActor \in All /\ "logs" # Placeholder
    BY DEF Scopes, All, Placeholder
  <2>2. Typed(own) /\ ReadsBut(own, {})
    BY <2>1, ConnectReads DEF WithLogs, WiringInv
  <2>3. net' = own \/ net' = WithLogs(own, ErrorActor)
    BY <1>4 DEF SetupOwnLogs
  <2> HIDE DEF own
  <2>4. Typed(net') /\ ReadsBut(net', {})
    BY <2>1, <2>2, <2>3, ConnectReads DEF WithLogs
  <2>5. Phases'
    BY <1>4 DEF SetupOwnLogs, WiringInv, Phases
  <2> QED
    BY <2>4, <2>5 DEF WiringInv
<1>5. ASSUME NEW a \in All, StartActor(a) PROVE WiringInv'
  BY <1>5 DEF StartActor, WiringInv, Phases
<1>6. ASSUME NEW a \in All, StartLogged(a) PROVE WiringInv'
  <2>1. Typed(net') /\ Logged(net, net', a)
    BY <1>6, LogDoes DEF StartLogged, WiringInv
  <2>2. ReadsBut(net', {})
    BY <2>1, SameReads DEF Logged, WiringInv
  <2>3. Phases'
    BY <1>6 DEF StartLogged, WiringInv, Phases
  <2> QED
    BY <2>1, <2>2, <2>3 DEF WiringInv
<1>7. ASSUME NEW b \in All, NEW q \in DOMAIN net.queues, Take(b, q) PROVE WiringInv'
  <2>1. /\ Typed(net') /\ net'.pool = net.pool /\ DOMAIN net'.queues = DOMAIN net.queues
        /\ \A p \in DOMAIN net.queues : net'.queues[p].readers = net.queues[p].readers
    <3>1. /\ Typed(net) /\ net.queues[q].items # <<>>
          /\ net' = [net EXCEPT !.queues[q].items = Tail(@),
                                !.queues[q].taken = Append(@, Head(net.queues[q].items))]
      BY <1>7 DEF Take, WiringInv
    <3>2. Typed(net') /\ Taken(net, net', q)
      BY <3>1, TakeDoes
    <3> QED
      BY <3>2 DEF Taken
  <2>2. ReadsBut(net', {})
    BY <2>1, SameReads DEF WiringInv
  <2>3. Phases'
    BY <1>7 DEF Take, WiringInv, Phases
  <2> QED
    BY <2>1, <2>2, <2>3 DEF WiringInv
<1>8. CASE UNCHANGED vars
  BY <1>8 DEF vars, WiringInv, Phases
<1> QED
  BY <1>1, <1>2, <1>3, <1>4, <1>5, <1>6, <1>7, <1>8 DEF Next, Starting, Taking

(* so it holds throughout.                                                 *)
LEMMA WiredInvariant == Spec => []WiringInv
  BY InitWired, NextWired, PTL DEF Spec

(* The pools name queues that exist, their readers are actors, no queue    *)
(* holds more than Size, and the actors that run are those start has come  *)
(* to.                                                                     *)
THEOREM WiringTypeCorrect == Spec => []TypeOK
<1>1. WiringInv => TypeOK
  BY DEF WiringInv, Typed, Shape, Phases, TypeOK, Queues, Range, Pooled, Scopes
<1> QED
  BY <1>1, WiredInvariant, PTL

(* After any sequence of connections, made by hand or by start, whatever   *)
(* an actor can put on is read by an actor that has it as inbound queue.   *)
THEOREM SentEventsAreRead == Spec => []SentIsRead
<1>1. WiringInv => SentIsRead
  BY DEF WiringInv, ReadsBut, Typed, SentIsRead, Range, Pooled, Scopes
<1> QED
  BY <1>1, WiredInvariant, PTL

-----------------------------------------------------------------------------
(* The order of entries. Who wrote those of a sequence, that each actor's  *)
(* are in order, and that none is later than what the actor has written.   *)
Authors(s) == {s[i][1] : i \in DOMAIN s}

InOrder(s) == \A i, j \in DOMAIN s : i < j /\ s[i][1] = s[j][1] => s[i][2] <= s[j][2]

Written(s, said) == \A i \in DOMAIN s : s[i][2] <= said[s[i][1]]

(* The places of two sequences joined.                                     *)
LEMMA Joined ==
  ASSUME NEW S, NEW s \in Seq(S), NEW t \in Seq(S)
  PROVE  /\ s \o t \in Seq(S) /\ Len(s \o t) = Len(s) + Len(t)
         /\ Len(s) \in Nat /\ Len(t) \in Nat
         /\ DOMAIN (s \o t) = 1 .. Len(s) + Len(t) /\ DOMAIN s = 1 .. Len(s) /\ DOMAIN t = 1 .. Len(t)
         /\ \A i \in 1 .. Len(s) : (s \o t)[i] = s[i]
         /\ \A i \in 1 .. Len(t) : (s \o t)[Len(s) + i] = t[i]
  OBVIOUS

(* Order and authors survive the loss of items from the front of a queue   *)
(* that has been read,                                                     *)
LEMMA DropKeeps ==
  ASSUME NEW t \in Seq(Entries), NEW b \in Seq(Entries), NEW m \in Nat, 0 < m, NEW said,
         InOrder(t \o b), Written(t \o b, said)
  PROVE  LET u == t \o SubSeq(b, m, Len(b))
         IN  InOrder(u) /\ Written(u, said) /\ Authors(u) \subseteq Authors(t \o b)
<1> DEFINE s == t \o b
           rest == SubSeq(b, m, Len(b))
           u == t \o rest
           g(i) == IF i <= Len(t) THEN i ELSE i + m - 1
<1>1. /\ Len(t) \in Nat /\ Len(b) \in Nat /\ DOMAIN s = 1 .. Len(t) + Len(b)
      /\ \A i \in 1 .. Len(t) : s[i] = t[i]
      /\ \A i \in 1 .. Len(b) : s[Len(t) + i] = b[i]
  BY Joined
<1>2. /\ rest \in Seq(Entries) /\ Len(rest) = IF m <= Len(b) THEN Len(b) - m + 1 ELSE 0
      /\ \A i \in 1 .. Len(rest) : rest[i] = b[m + i - 1]
  OBVIOUS
<1> HIDE DEF rest, s
<1>3. /\ DOMAIN u = 1 .. Len(t) + Len(rest)
      /\ \A i \in 1 .. Len(t) : u[i] = t[i]
      /\ \A i \in 1 .. Len(rest) : u[Len(t) + i] = rest[i]
  <2>1. t \in Seq(Entries) /\ rest \in Seq(Entries)
    BY <1>2
  <2> QED
    BY ONLY <2>1, Joined
<1> HIDE DEF u
<1>4. ASSUME NEW i \in DOMAIN u PROVE g(i) \in DOMAIN s /\ u[i] = s[g(i)]
  <2>1. i \in 1 .. Len(t) + Len(rest) /\ Len(rest) \in Nat
    BY <1>2, <1>3
  <2>2. CASE i <= Len(t)
    BY <1>1, <1>3, <2>1, <2>2
  <2>3. CASE ~(i <= Len(t))
    <3>1. PICK j \in 1 .. Len(rest) : i = Len(t) + j
      <4>1. i - Len(t) \in 1 .. Len(rest) /\ i = Len(t) + (i - Len(t))
        BY <1>1, <2>1, <2>3
      <4> QED
        BY <4>1
    <3>2. m + j - 1 \in 1 .. Len(b) /\ g(i) = Len(t) + (m + j - 1)
      BY <1>1, <1>2, <2>3, <3>1
    <3>3. g(i) \in DOMAIN s /\ s[g(i)] = b[m + j - 1]
      <4> DEFINE x == m + j - 1
      <4>1. x \in 1 .. Len(b) /\ g(i) = Len(t) + x
        BY <3>2
      <4> HIDE DEF x, g
      <4>2. g(i) \in DOMAIN s /\ s[g(i)] = b[x]
        BY <1>1, <4>1
      <4> QED
        BY <4>2 DEF x
    <3> QED
      BY <1>2, <1>3, <3>1, <3>3
  <2> QED
    BY <2>2, <2>3
<1>5. \A i, j \in DOMAIN u : i < j => g(i) < g(j)
  BY <1>1, <1>2, <1>3
<1> HIDE DEF g
<1>6. InOrder(u)
  BY <1>4, <1>5 DEF InOrder, s
<1>7. Written(u, said) /\ Authors(u) \subseteq Authors(s)
  BY <1>4 DEF Written, Authors, s
<1> QED
  BY <1>6, <1>7 DEF u, s, rest

(* the arrival of a first part of a queue by other authors,                *)
LEMMA JoinKeeps ==
  ASSUME NEW s \in Seq(Entries), NEW t \in Seq(Entries), NEW b \in Seq(Entries),
         NEW k \in 0 .. Len(b), NEW said,
         InOrder(s), InOrder(t \o b), Written(s, said), Written(t \o b, said),
         Authors(s) \cap Authors(t \o b) = {}
  PROVE  LET u == s \o SubSeq(b, 1, k)
         IN  /\ InOrder(u) /\ Written(u, said)
             /\ Authors(u) \subseteq Authors(s) \cup Authors(t \o b)
<1> DEFINE more == SubSeq(b, 1, k)
           u == s \o more
           o == t \o b
<1>1. /\ more \in Seq(Entries) /\ Len(more) = k
      /\ \A i \in 1 .. k : more[i] = b[i]
  OBVIOUS
<1>2. /\ Len(t) \in Nat /\ Len(b) \in Nat /\ DOMAIN o = 1 .. Len(t) + Len(b)
      /\ \A i \in 1 .. Len(b) : o[Len(t) + i] = b[i]
  BY Joined
<1> HIDE DEF more, o
<1>3. /\ Len(s) \in Nat /\ DOMAIN s = 1 .. Len(s) /\ DOMAIN u = 1 .. Len(s) + k
      /\ \A i \in 1 .. Len(s) : u[i] = s[i]
      /\ \A i \in 1 .. k : u[Len(s) + i] = more[i]
  <2>1. s \in Seq(Entries) /\ more \in Seq(Entries)
    BY <1>1
  <2>2. /\ Len(s) \in Nat /\ DOMAIN s = 1 .. Len(s) /\ DOMAIN (s \o more) = 1 .. Len(s) + Len(more)
        /\ \A i \in 1 .. Len(s) : (s \o more)[i] = s[i]
        /\ \A i \in 1 .. Len(more) : (s \o more)[Len(s) + i] = more[i]
    BY ONLY <2>1, Joined
  <2> QED
    BY <1>1, <2>2
<1> HIDE DEF u
<1>4. ASSUME NEW i \in DOMAIN u
      PROVE  \/ i <= Len(s) /\ i \in DOMAIN s /\ u[i] = s[i]
             \/ \E j \in 1 .. k : i = Len(s) + j /\ Len(t) + j \in DOMAIN o /\ u[i] = o[Len(t) + j]
  <2>1. CASE i <= Len(s)
    BY <1>3, <2>1
  <2>2. CASE ~(i <= Len(s))
    <3>1. i - Len(s) \in 1 .. k /\ i = Len(s) + (i - Len(s))
      BY <1>3, <2>2
    <3>2. PICK j \in 1 .. k : i = Len(s) + j
      BY <3>1
    <3>3. j \in 1 .. Len(b) /\ Len(t) + j \in DOMAIN o
      BY <1>2
    <3> QED
      BY <1>1, <1>2, <1>3, <3>2, <3>3
  <2> QED
    BY <2>1, <2>2
<1>5. InOrder(u)
  <2> SUFFICES ASSUME NEW i \in DOMAIN u, NEW j \in DOMAIN u, i < j, u[i][1] = u[j][1]
               PROVE  u[i][2] <= u[j][2]
    BY DEF InOrder
  <2>1. i \in Nat /\ j \in Nat /\ Len(s) \in Nat
    BY <1>3
  <2>2. CASE i \in DOMAIN s /\ u[i] = s[i] /\ j \in DOMAIN s /\ u[j] = s[j]
    BY <2>2 DEF InOrder
  <2>3. CASE i > Len(s)
    <3>1. ~(i <= Len(s)) /\ ~(j <= Len(s))
      BY <2>1, <2>3
    <3>2. PICK x \in 1 .. k : i = Len(s) + x /\ Len(t) + x \in DOMAIN o /\ u[i] = o[Len(t) + x]
      BY <1>4, <3>1
    <3>3. PICK y \in 1 .. k : j = Len(s) + y /\ Len(t) + y \in DOMAIN o /\ u[j] = o[Len(t) + y]
      BY <1>4, <3>1
    <3>4. Len(t) + x < Len(t) + y
      BY <1>2, <2>1, <3>2, <3>3
    <3> QED
      BY <3>2, <3>3, <3>4 DEF InOrder, o
  <2>4. CASE i \in DOMAIN s /\ u[i] = s[i] /\ ~(j <= Len(s))
    <3>1. PICK y \in 1 .. k : Len(t) + y \in DOMAIN o /\ u[j] = o[Len(t) + y]
      BY <1>4, <2>4
    <3> QED
      BY <2>4, <3>1 DEF Authors, o
  <2>5. i <= Len(s) \/ i > Len(s)
    BY <2>1
  <2>6. ~(i > Len(s)) => i \in DOMAIN s /\ u[i] = s[i]
    BY <1>4, <2>1
  <2> QED
    BY <1>4, <2>2, <2>3, <2>4, <2>6
<1>6. Written(u, said)
  BY <1>4 DEF Written, o
<1>7. Authors(u) \subseteq Authors(s) \cup Authors(o)
  BY <1>4 DEF Authors
<1> QED
  BY <1>5, <1>6, <1>7 DEF u, more, o

(* and an entry written later than all.                                    *)
LEMMA WriteKeeps ==
  ASSUME NEW s \in Seq(Entries), NEW a \in All, NEW said \in [All -> Nat],
         InOrder(s), Written(s, said),
         NEW more \in Seq(Entries), \A i \in 1 .. Len(more) : more[i] = <<a, said[a] + 1>>
  PROVE  LET u == s \o more
         IN  /\ InOrder(u) /\ Written(u, [said EXCEPT ![a] = @ + 1])
             /\ Authors(u) \subseteq Authors(s) \cup {a}
<1> DEFINE e == <<a, said[a] + 1>>
           k == Len(more)
           u == s \o more
           new == [said EXCEPT ![a] = @ + 1]
<1>1. e \in Entries /\ e[1] = a /\ e[2] = said[a] + 1
  BY DEF Entries
<1> HIDE DEF e
<1>2. k \in Nat /\ \A i \in 1 .. k : more[i] = e
  BY DEF e
<1>3. /\ u \in Seq(Entries) /\ Len(u) = Len(s) + k
      /\ \A i \in 1 .. Len(u) : u[i] = IF i <= Len(s) THEN s[i] ELSE more[i - Len(s)]
  BY <1>2
<1> HIDE DEF u
<1>4. ASSUME NEW i \in DOMAIN u
      PROVE  \/ i <= Len(s) /\ i \in DOMAIN s /\ u[i] = s[i]
             \/ i > Len(s) /\ u[i] = e
  <2>1. i \in 1 .. Len(u) /\ DOMAIN s = 1 .. Len(s)
    BY <1>3
  <2>2. CASE i <= Len(s)
    BY <1>3, <2>1, <2>2
  <2>3. CASE ~(i <= Len(s))
    <3>1. i - Len(s) \in 1 .. k
      BY <1>3, <2>1, <2>3
    <3> QED
      BY <1>2, <1>3, <2>1, <2>3, <3>1
  <2> QED
    BY <2>2, <2>3
<1>5. \A i \in DOMAIN s : s[i][1] \in All /\ s[i][2] \in Nat /\ s[i][2] <= said[s[i][1]]
  BY DEF Written, Entries
<1>6. InOrder(u)
  <2> SUFFICES ASSUME NEW i \in DOMAIN u, NEW j \in DOMAIN u, i < j, u[i][1] = u[j][1]
               PROVE  u[i][2] <= u[j][2]
    BY DEF InOrder
  <2>1. i \in Nat /\ j \in Nat /\ said[a] \in Nat
    BY <1>3
  <2>2. CASE j <= Len(s)
    <3>1. i <= Len(s) /\ i \in DOMAIN s /\ j \in DOMAIN s /\ u[i] = s[i] /\ u[j] = s[j]
      BY <1>3, <1>4, <2>1, <2>2
    <3> QED
      BY <3>1 DEF InOrder
  <2>3. CASE i > Len(s)
    BY <1>1, <1>3, <1>4, <2>1, <2>3
  <2>4. CASE i <= Len(s) /\ j > Len(s)
    <3>1. u[j] = e /\ u[i] = s[i] /\ i \in DOMAIN s
      BY <1>3, <1>4, <2>1, <2>4
    <3>2. s[i][1] = a /\ s[i][2] \in Nat /\ s[i][2] <= said[s[i][1]]
      BY <1>1, <1>5, <3>1
    <3> QED
      BY <1>1, <2>1, <3>1, <3>2
  <2> QED
    BY <1>3, <2>1, <2>2, <2>3, <2>4
<1>7. Written(u, new)
  <2> SUFFICES ASSUME NEW i \in DOMAIN u PROVE u[i][2] <= new[u[i][1]]
    BY DEF Written
  <2>1. said[a] \in Nat /\ new[a] = said[a] + 1 /\ \A b \in All \ {a} : new[b] = said[b]
    OBVIOUS
  <2> HIDE DEF new
  <2>2. CASE i > Len(s) /\ u[i] = e
    BY <1>1, <2>1, <2>2
  <2>3. CASE i <= Len(s) /\ i \in DOMAIN s /\ u[i] = s[i]
    <3>1. s[i][1] \in All /\ s[i][2] \in Nat /\ s[i][2] <= said[s[i][1]]
      BY <1>5, <2>3
    <3>2. said[s[i][1]] \in Nat /\ said[s[i][1]] <= new[s[i][1]] /\ new[s[i][1]] \in Nat
      BY <2>1, <3>1
    <3> QED
      BY <2>3, <3>1, <3>2
  <2> QED
    BY <1>4, <2>2, <2>3
<1>8. Authors(u) \subseteq Authors(s) \cup {a}
  BY <1>1, <1>4 DEF Authors
<1> QED
  BY <1>6, <1>7, <1>8 DEF u

-----------------------------------------------------------------------------
(* All entries a queue has had and not lost, in the order it had them, and *)
(* who wrote them.                                                         *)
Seen(w, q) == w.queues[q].taken \o w.queues[q].items

By(w, q) == Authors(Seen(w, q))

(* The log actor's inbox, when it has one: the one queue many actors write *)
(* on.                                                                     *)
Main(w, q) ==
  Inbox \in DOMAIN w.pool[LogActor].inbound /\ q = w.pool[LogActor].inbound[Inbox]

Sorted(w) == \A q \in DOMAIN w.queues : InOrder(Seen(w, q)) /\ Written(Seen(w, q), w.said)

(* Any other queue has entries of its owner only, and the log pool of an   *)
(* actor leads to its own queues and the inbox.                            *)
Own(w) == \A q \in DOMAIN w.queues : By(w, q) \subseteq {q.owner} \/ Main(w, q)

Leads(w) == \A a \in All : \A n \in DOMAIN w.pool[a].logs :
  w.pool[a].logs[n] = Slot(a, "logs", n) \/ Main(w, w.pool[a].logs[n])

(* While an actor has its placeholder, that is its only log queue and all  *)
(* its entries are there.                                                  *)
Held(w) == \A a \in All : Placeholder \in DOMAIN w.pool[a].logs =>
  /\ DOMAIN w.pool[a].logs = {Placeholder}
  /\ w.pool[a].logs[Placeholder] = Slot(a, "logs", Placeholder)
  /\ \A q \in DOMAIN w.queues : a \in By(w, q) => q = Slot(a, "logs", Placeholder)

(* A connection the program may ask for gives the actor a log queue of     *)
(* this name,                                                              *)
ByHand(a, n) == \E c \in Calls : c.scope = "logs" /\ c.source = a /\ SourceName(c) = n

(* and before its default connection an actor has none but those, its own. *)
Asked(w, F) == \A a \in F : \A n \in DOMAIN w.pool[a].logs \ {Placeholder} :
  w.pool[a].logs[n] = Slot(a, "logs", n) /\ ByHand(a, n)

(* One that makes this queue of the actor the log actor's inbox.           *)
MainByHand(a, n) ==
  \E c \in Calls : /\ c.scope = "logs" /\ c.source = a /\ SourceName(c) = n
                   /\ c.destination = LogActor /\ DestName(c) = Inbox

(* Before its default connection an actor has entries in the inbox only if *)
(* the inbox is its own queue, so what a dump brings there comes first.    *)
MainApart(w, F) == \A q \in DOMAIN w.queues : Main(w, q) =>
  /\ By(w, q) \cap F \subseteq {q.owner}
  /\ q.owner \in F => MainByHand(q.owner, q.name)

(* Entries are on log queues only,                                         *)
Quiet(w) == \A q \in DOMAIN w.queues : q.scope # "logs" => w.queues[q].items = <<>>

(* and each queue is of the scope of the pools it is in. A placeholder is  *)
(* never added or registered.                                              *)
Scoped(w) ==
  /\ \A a \in All : \A s \in Scopes : \A n \in DOMAIN w.pool[a][s] :
       w.pool[a][s][n].scope = s /\ (n # Placeholder => w.pool[a][s][n].name # Placeholder)
  /\ \A b \in All : \A n \in DOMAIN w.pool[b].inbound :
       w.pool[b].inbound[n].scope = n[1] /\ w.pool[b].inbound[n].name # Placeholder

(* All of it, for the actors F that have no default connection yet.        *)
LogInv(w, F) ==
  Sorted(w) /\ Own(w) /\ Leads(w) /\ Held(w) /\ Asked(w, F) /\ MainApart(w, F)

(* What is joined twice may be grouped either way.                         *)
LEMMA Regroup ==
  ASSUME NEW x \in Seq(Entries), NEW y \in Seq(Entries), NEW z \in Seq(Entries)
  PROVE  (x \o y) \o z = x \o (y \o z)
  BY ConcatAssociative

(* What was seen and waits are sequences of entries.                       *)
LEMMA SeenTyped ==
  ASSUME NEW w, Typed(w), NEW q \in DOMAIN w.queues
  PROVE  w.queues[q].taken \in Seq(Entries) /\ w.queues[q].items \in Seq(Entries)
  BY DEF Typed, Queues

(* A dump between queues that share no author keeps the order on both.     *)
LEMMA Pour ==
  ASSUME NEW w, Typed(w), Sorted(w), NEW from \in DOMAIN w.queues, NEW to \in DOMAIN w.queues,
         from # to, By(w, from) \cap By(w, to) = {},
         NEW v, Dumped(w.queues, v.queues, from, to), v.said = w.said
  PROVE  /\ Sorted(v)
         /\ By(v, from) \subseteq By(w, from)
         /\ By(v, to) \subseteq By(w, to) \cup By(w, from)
         /\ \A q \in DOMAIN w.queues \ {from, to} : By(v, q) = By(w, q)
<1> DEFINE t == w.queues[from].taken
           b == w.queues[from].items
<1>1. /\ DOMAIN v.queues = DOMAIN w.queues
      /\ \A q \in DOMAIN w.queues \ {from, to} : v.queues[q] = w.queues[q]
      /\ v.queues[from].taken = t /\ v.queues[to].taken = w.queues[to].taken
  BY DEF Dumped
<1>2. PICK k \in 0 .. Len(b), m \in Nat :
           /\ k < m
           /\ v.queues[to].items = w.queues[to].items \o SubSeq(b, 1, k)
           /\ v.queues[from].items = SubSeq(b, m, Len(b))
  BY DEF Dumped
<1>3. /\ t \in Seq(Entries) /\ b \in Seq(Entries)
      /\ w.queues[to].taken \in Seq(Entries) /\ w.queues[to].items \in Seq(Entries)
  BY SeenTyped
<1>4. /\ InOrder(t \o b) /\ Written(t \o b, w.said)
      /\ InOrder(Seen(w, to)) /\ Written(Seen(w, to), w.said)
      /\ Seen(w, to) \in Seq(Entries)
      /\ Authors(Seen(w, to)) \cap Authors(t \o b) = {}
  BY <1>3 DEF Sorted, Seen, By
<1>5. 0 < m /\ SubSeq(b, 1, k) \in Seq(Entries)
  BY <1>2, <1>3
<1>6. /\ InOrder(Seen(v, from)) /\ Written(Seen(v, from), w.said)
      /\ By(v, from) \subseteq By(w, from)
  <2>1. Seen(v, from) = t \o SubSeq(b, m, Len(b)) /\ Seen(w, from) = t \o b
    BY <1>1, <1>2 DEF Seen
  <2> HIDE DEF t, b
  <2> QED
    BY <1>3, <1>4, <1>5, <2>1, DropKeeps DEF By
<1>7. /\ InOrder(Seen(v, to)) /\ Written(Seen(v, to), w.said)
      /\ By(v, to) \subseteq By(w, to) \cup By(w, from)
  <2>1. Seen(v, to) = Seen(w, to) \o SubSeq(b, 1, k)
    <3> DEFINE x == w.queues[to].taken
               y == w.queues[to].items
               z == SubSeq(b, 1, k)
    <3>1. x \in Seq(Entries) /\ y \in Seq(Entries) /\ z \in Seq(Entries)
      BY <1>3, <1>5
    <3>2. Seen(v, to) = x \o (y \o z) /\ Seen(w, to) = x \o y
      BY <1>1, <1>2 DEF Seen
    <3> HIDE DEF x, y, z
    <3>3. (x \o y) \o z = x \o (y \o z)
      BY ONLY <3>1, Regroup
    <3> QED
      BY <3>2, <3>3 DEF z
  <2>2. By(w, from) = Authors(t \o b)
    BY DEF By, Seen
  <2> HIDE DEF t, b
  <2> QED
    BY <1>3, <1>4, <2>1, <2>2, JoinKeeps DEF By
<1>8. \A q \in DOMAIN w.queues \ {from, to} : Seen(v, q) = Seen(w, q)
  BY <1>1 DEF Seen
<1>9. Sorted(v)
  BY <1>1, <1>6, <1>7, <1>8 DEF Sorted
<1> QED
  BY <1>6, <1>7, <1>8, <1>9 DEF By

(* Adding a log queue keeps the order: the placeholder's entries are the   *)
(* actor's first, and the queue has none of them yet.                      *)
LEMMA AddLogs ==
  ASSUME NEW w, Typed(w), NEW F \in SUBSET All, LogInv(w, F), Scoped(w),
         NEW a \in All, NEW n, n # Placeholder, NEW q \in DOMAIN w.queues, q.name # Placeholder,
         q = Slot(a, "logs", n) \/ Main(w, q),
         a \in F => q = Slot(a, "logs", n) /\ ByHand(a, n),
         Main(w, q) => q.owner = a \/ a \notin F,
         NEW v, Added(w, v, a, "logs", n, q)
  PROVE  LogInv(v, F)
<1>1. /\ v.said = w.said /\ DOMAIN v.queues = DOMAIN w.queues
      /\ \A b \in All \ {a} : v.pool[b].logs = w.pool[b].logs
      /\ \A b \in All : v.pool[b].inbound = w.pool[b].inbound
      /\ DOMAIN v.pool[a].logs = (DOMAIN w.pool[a].logs \ {Placeholder}) \cup {n}
      /\ v.pool[a].logs[n] = q
      /\ \A m \in DOMAIN w.pool[a].logs \ {Placeholder, n} : v.pool[a].logs[m] = w.pool[a].logs[m]
  BY DEF Added, Dumped, Pooled, Scopes
<1>2. \A p : Main(v, p) <=> Main(w, p)
  BY <1>1 DEF Main, All
<1> DEFINE ph == Slot(a, "logs", Placeholder)
<1>3. /\ Sorted(v)
      /\ \A p \in DOMAIN w.queues \ {q} : By(v, p) \subseteq By(w, p)
      /\ By(v, q) \subseteq By(w, q) \cup {a}
      /\ Placeholder \notin DOMAIN w.pool[a].logs => \A p \in DOMAIN w.queues : By(v, p) = By(w, p)
  <2>1. CASE Placeholder \in DOMAIN w.pool[a].logs
    <3>1. /\ w.pool[a].logs[Placeholder] = ph
          /\ \A p \in DOMAIN w.queues : a \in By(w, p) => p = ph
      BY <2>1 DEF LogInv, Held
    <3>2. ph \in DOMAIN w.queues
      BY <2>1, <3>1 DEF Typed, Pooled, Scopes
    <3>3. ph.name = Placeholder /\ ph.owner = a /\ q # ph
      BY DEF Slot
    <3>4. ~Main(w, ph)
      BY <3>3 DEF Main, Scoped, All
    <3> HIDE DEF ph
    <3>5. By(w, ph) \subseteq {a} /\ a \notin By(w, q)
      BY <3>1, <3>2, <3>3, <3>4 DEF LogInv, Own
    <3>6. Dumped(w.queues, v.queues, ph, q)
      BY <2>1, <3>1 DEF Added, Named
    <3>7. /\ Sorted(v) /\ By(v, ph) \subseteq By(w, ph)
          /\ By(v, q) \subseteq By(w, q) \cup By(w, ph)
          /\ \A p \in DOMAIN w.queues \ {ph, q} : By(v, p) = By(w, p)
      BY <1>1, <3>2, <3>3, <3>5, <3>6, Pour DEF LogInv
    <3> QED
      BY <2>1, <3>5, <3>7
  <2>2. CASE Placeholder \notin DOMAIN w.pool[a].logs
    <3>1. v.queues = w.queues
      BY <2>2 DEF Added, Named
    <3> QED
      BY <1>1, <3>1 DEF LogInv, Sorted, By, Seen
  <2> QED
    BY <2>1, <2>2
<1>4. Own(v)
  <2>1. By(w, q) \subseteq {q.owner} \/ Main(w, q)
    BY DEF LogInv, Own
  <2>2. q = Slot(a, "logs", n) => q.owner = a
    BY DEF Slot
  <2> QED
    BY <1>1, <1>2, <1>3, <2>1, <2>2 DEF LogInv, Own
<1>5. Leads(v)
  BY <1>1, <1>2 DEF LogInv, Leads
<1>6. Held(v)
  <2> SUFFICES ASSUME NEW b \in All, Placeholder \in DOMAIN v.pool[b].logs
               PROVE  /\ DOMAIN v.pool[b].logs = {Placeholder}
                      /\ v.pool[b].logs[Placeholder] = Slot(b, "logs", Placeholder)
                      /\ \A p \in DOMAIN v.queues : b \in By(v, p) => p = Slot(b, "logs", Placeholder)
    BY DEF Held
  <2>1. b # a
    BY <1>1
  <2> QED
    BY <1>1, <1>3, <2>1 DEF LogInv, Held
<1>7. Asked(v, F)
  BY <1>1 DEF LogInv, Asked
<1>8. MainApart(v, F)
  <2>1. q = Slot(a, "logs", n) => q.owner = a
    BY DEF Slot
  <2> QED
    BY <1>1, <1>2, <1>3, <2>1 DEF LogInv, MainApart
<1> QED
  BY <1>3, <1>4, <1>5, <1>6, <1>7, <1>8 DEF LogInv

(* Registering it does, even as the log actor's inbox, if that was asked   *)
(* for by hand or by default.                                              *)
LEMMA RegisterLogs ==
  ASSUME NEW w, Typed(w), NEW F \in SUBSET All, LogInv(w, F),
         NEW b \in All, NEW inName, inName \notin DOMAIN w.pool[b].inbound,
         NEW q \in DOMAIN w.queues,
         b = LogActor /\ inName = Inbox /\ q.owner \in F => MainByHand(q.owner, q.name),
         NEW v, Registered(w, v, b, inName, q)
  PROVE  LogInv(v, F)
<1>1. /\ v.said = w.said /\ DOMAIN v.queues = DOMAIN w.queues
      /\ \A a \in All : v.pool[a].logs = w.pool[a].logs
  BY DEF Registered, Pooled, Scopes
<1>2. \A p \in DOMAIN w.queues :
        v.queues[p].items = w.queues[p].items /\ v.queues[p].taken = w.queues[p].taken
  BY DEF Registered, Typed, Queues
<1>3. \A p \in DOMAIN w.queues : Seen(v, p) = Seen(w, p) /\ By(v, p) = By(w, p)
  BY <1>2 DEF Seen, By
<1>4. Sorted(v) /\ Asked(v, F) /\ Held(v)
  BY <1>1, <1>3 DEF LogInv, Sorted, Asked, Held
<1>5. CASE b = LogActor /\ inName = Inbox
  <2>1. \A p : Main(v, p) <=> p = q
    BY <1>5 DEF Registered, Main
  <2>2. \A p : ~Main(w, p)
    BY <1>5 DEF Main
  <2>3. Own(v)
    BY <1>1, <1>3, <2>2 DEF LogInv, Own
  <2>4. Leads(v)
    BY <1>1, <2>2 DEF LogInv, Leads
  <2>5. MainApart(v, F)
    BY <1>3, <1>5, <2>1, <2>2 DEF LogInv, Own, MainApart
  <2> QED
    BY <1>4, <2>3, <2>4, <2>5 DEF LogInv
<1>6. CASE ~(b = LogActor /\ inName = Inbox)
  <2>1. \A p : Main(v, p) <=> Main(w, p)
    BY <1>6 DEF Registered, Main, Pooled, All
  <2>2. Own(v) /\ Leads(v)
    BY <1>1, <1>3, <2>1 DEF LogInv, Own, Leads
  <2>3. MainApart(v, F)
    BY <1>1, <1>3, <2>1 DEF LogInv, MainApart
  <2> QED
    BY <1>4, <2>2, <2>3 DEF LogInv
<1> QED
  BY <1>5, <1>6

(* So does what leaves all entries and log pools alone,                    *)
LEMMA AsideLogs ==
  ASSUME NEW w, Typed(w), NEW F \in SUBSET All, LogInv(w, F), NEW v, v.said = w.said,
         \A a \in All : v.pool[a].logs = w.pool[a].logs,
         \A p : Main(v, p) <=> Main(w, p),
         DOMAIN w.queues \subseteq DOMAIN v.queues,
         \A q \in DOMAIN w.queues : /\ v.queues[q].items = w.queues[q].items
                                    /\ v.queues[q].taken = w.queues[q].taken,
         \A q \in DOMAIN v.queues \ DOMAIN w.queues :
           v.queues[q].items = <<>> /\ v.queues[q].taken = <<>>
  PROVE  LogInv(v, F)
<1>1. \A q \in DOMAIN w.queues : Seen(v, q) = Seen(w, q) /\ By(v, q) = By(w, q)
  BY DEF Seen, By
<1>2. \A q \in DOMAIN v.queues \ DOMAIN w.queues : Seen(v, q) = <<>> /\ By(v, q) = {}
  <2> SUFFICES ASSUME NEW q \in DOMAIN v.queues \ DOMAIN w.queues
               PROVE  Seen(v, q) = <<>> /\ By(v, q) = {}
    OBVIOUS
  <2>1. Seen(v, q) = <<>> \o <<>>
    BY DEF Seen
  <2>2. <<>> \in Seq(Entries) /\ <<>> \o <<>> = <<>> /\ DOMAIN <<>> = {}
    BY EmptySeq, ConcatEmptySeq
  <2>3. Seen(v, q) = <<>>
    BY <2>1, <2>2
  <2> QED
    BY <2>2, <2>3 DEF By, Authors
<1>3. \A q : Main(w, q) => q \in DOMAIN w.queues
  BY DEF Main, Typed, Pooled, All
<1>4. InOrder(<<>>) /\ Written(<<>>, v.said)
  BY DEF InOrder, Written
<1>5. Sorted(v)
  BY <1>1, <1>2, <1>4 DEF LogInv, Sorted
<1>6. Own(v) /\ Leads(v)
  BY <1>1, <1>2 DEF LogInv, Own, Leads
<1>7. Held(v)
  BY <1>1, <1>2 DEF LogInv, Held
<1>8. Asked(v, F)
  BY DEF LogInv, Asked
<1>9. MainApart(v, F)
  BY <1>1, <1>3 DEF LogInv, MainApart
<1> QED
  BY <1>5, <1>6, <1>7, <1>8, <1>9 DEF LogInv

(* a consumer taking one,                                                  *)
LEMMA TakeLogs ==
  ASSUME NEW w, Typed(w), NEW F \in SUBSET All, LogInv(w, F), NEW q \in DOMAIN w.queues,
         w.queues[q].items # <<>>, NEW v, Taken(w, v, q)
  PROVE  LogInv(v, F)
<1>1. \A p \in DOMAIN w.queues : Seen(v, p) = Seen(w, p)
  <2>1. ASSUME NEW t \in Seq(Entries), NEW i \in Seq(Entries), i # <<>>
        PROVE  Append(t, Head(i)) \o Tail(i) = t \o i
    BY <2>1
  <2>2. Seen(v, q) = Seen(w, q)
    BY <2>1, SeenTyped DEF Taken, Seen
  <2> QED
    BY <2>2 DEF Taken, Seen
<1>2. \A p \in DOMAIN w.queues : By(v, p) = By(w, p)
  BY <1>1 DEF By
<1>3. /\ v.said = w.said /\ v.pool = w.pool /\ DOMAIN v.queues = DOMAIN w.queues
  BY DEF Taken
<1>4. \A p : Main(v, p) <=> Main(w, p)
  BY <1>3 DEF Main
<1>5. Sorted(v) /\ Own(v) /\ Leads(v)
  BY <1>1, <1>2, <1>3, <1>4 DEF LogInv, Sorted, Own, Leads
<1>6. Held(v) /\ Asked(v, F)
  BY <1>2, <1>3 DEF LogInv, Held, Asked
<1>7. MainApart(v, F)
  BY <1>2, <1>3, <1>4 DEF LogInv, MainApart
<1> QED
  BY <1>5, <1>6, <1>7 DEF LogInv

(* and an actor writing one.                                               *)
LEMMA LogLogs ==
  ASSUME NEW w, Typed(w), NEW F \in SUBSET All, LogInv(w, F), NEW a \in All,
         NEW v, Logged(w, v, a)
  PROVE  LogInv(v, F)
<1>1. /\ v.pool = w.pool /\ DOMAIN v.queues = DOMAIN w.queues
      /\ v.said = [w.said EXCEPT ![a] = @ + 1] /\ w.said \in [All -> Nat]
  BY DEF Logged, Typed, Shape
<1>2. \A p : Main(v, p) <=> Main(w, p)
  BY <1>1 DEF Main
<1>3. ASSUME NEW q \in DOMAIN w.queues
      PROVE  /\ InOrder(Seen(v, q)) /\ Written(Seen(v, q), v.said)
             /\ \/ By(v, q) = By(w, q)
                \/ q \in Range(w.pool[a].logs) /\ By(v, q) \subseteq By(w, q) \cup {a}
  <2>1. Seen(w, q) \in Seq(Entries) /\ InOrder(Seen(w, q)) /\ Written(Seen(w, q), w.said)
    BY SeenTyped DEF LogInv, Sorted, Seen
  <2>2. CASE v.queues[q].items = w.queues[q].items
    <3>1. Seen(v, q) = Seen(w, q)
      BY <2>2 DEF Logged, Seen
    <3>2. \A i \in DOMAIN Seen(w, q) : Seen(w, q)[i][1] \in All /\ Seen(w, q)[i][2] \in Nat
      BY <2>1 DEF Entries
    <3>3. \A b \in All : w.said[b] \in Nat /\ w.said[b] <= v.said[b] /\ v.said[b] \in Nat
      BY <1>1
    <3>4. Written(Seen(w, q), v.said)
      <4> SUFFICES ASSUME NEW i \in DOMAIN Seen(w, q) PROVE Seen(w, q)[i][2] <= v.said[Seen(w, q)[i][1]]
        BY DEF Written
      <4>1. Seen(w, q)[i][2] <= w.said[Seen(w, q)[i][1]]
        BY <2>1 DEF Written
      <4> QED
        BY <3>2, <3>3, <4>1
    <3> QED
      BY <2>1, <3>1, <3>4 DEF By
  <2>3. CASE q \in Range(w.pool[a].logs)
             /\ \E k \in Nat : v.queues[q].items =
                                 w.queues[q].items \o [i \in 1 .. k |-> <<a, w.said[a] + 1>>]
    <3>1. PICK k \in Nat : v.queues[q].items =
                             w.queues[q].items \o [i \in 1 .. k |-> <<a, w.said[a] + 1>>]
      BY <2>3
    <3> DEFINE more == [i \in 1 .. k |-> <<a, w.said[a] + 1>>]
    <3>2. more \in Seq(Entries) /\ \A i \in 1 .. Len(more) : more[i] = <<a, w.said[a] + 1>>
      <4>1. <<a, w.said[a] + 1>> \in Entries
        BY <1>1 DEF Entries
      <4> QED
        BY <4>1
    <3>3. Seen(v, q) = Seen(w, q) \o more
      <4> HIDE DEF more
      <4>1. w.queues[q].taken \in Seq(Entries) /\ w.queues[q].items \in Seq(Entries)
        BY SeenTyped
      <4>2. v.queues[q].taken = w.queues[q].taken /\ v.queues[q].items = w.queues[q].items \o more
        BY <3>1 DEF Logged, more
      <4> DEFINE x == w.queues[q].taken
                 y == w.queues[q].items
      <4>3. Seen(v, q) = x \o (y \o more) /\ Seen(w, q) = x \o y
        BY <4>2 DEF Seen
      <4>4. x \in Seq(Entries) /\ y \in Seq(Entries)
        BY <4>1
      <4> HIDE DEF x, y
      <4>5. (x \o y) \o more = x \o (y \o more)
        BY ONLY <3>2, <4>4, Regroup
      <4> QED
        BY <4>3, <4>5
    <3>4. /\ InOrder(Seen(v, q)) /\ Written(Seen(v, q), v.said)
          /\ Authors(Seen(v, q)) \subseteq Authors(Seen(w, q)) \cup {a}
      <4> HIDE DEF more
      <4>1. /\ InOrder(Seen(w, q) \o more) /\ Written(Seen(w, q) \o more, [w.said EXCEPT ![a] = @ + 1])
            /\ Authors(Seen(w, q) \o more) \subseteq Authors(Seen(w, q)) \cup {a}
        BY <1>1, <2>1, <3>2, WriteKeeps
      <4> QED
        BY <1>1, <3>3, <4>1
    <3> QED
      BY <2>3, <3>4 DEF By
  <2> QED
    BY <2>2, <2>3 DEF Logged
<1>4. \A q \in Range(w.pool[a].logs) : q = Slot(a, "logs", q.name) \/ Main(w, q)
  <2> SUFFICES ASSUME NEW n \in DOMAIN w.pool[a].logs
               PROVE  LET q == w.pool[a].logs[n] IN q = Slot(a, "logs", q.name) \/ Main(w, q)
    BY DEF Range
  <2>1. Slot(a, "logs", n).name = n
    BY DEF Slot
  <2>2. w.pool[a].logs[n] = Slot(a, "logs", n) \/ Main(w, w.pool[a].logs[n])
    BY DEF LogInv, Leads
  <2> QED
    BY <2>1, <2>2
<1>5. Sorted(v)
  BY <1>1, <1>3 DEF Sorted
<1>6. Own(v)
  <2> SUFFICES ASSUME NEW q \in DOMAIN w.queues PROVE By(v, q) \subseteq {q.owner} \/ Main(v, q)
    BY <1>1 DEF Own
  <2>1. q = Slot(a, "logs", q.name) => q.owner = a
    BY DEF Slot
  <2> QED
    BY <1>2, <1>3, <1>4, <2>1 DEF LogInv, Own
<1>7. Leads(v) /\ Asked(v, F)
  BY <1>1, <1>2 DEF LogInv, Leads, Asked
<1>8. Held(v)
  <2> SUFFICES ASSUME NEW b \in All, Placeholder \in DOMAIN w.pool[b].logs,
                      NEW q \in DOMAIN w.queues, b \in By(v, q)
               PROVE  q = Slot(b, "logs", Placeholder)
    BY <1>1 DEF LogInv, Held
  <2>1. CASE b \in By(w, q)
    BY <2>1 DEF LogInv, Held
  <2>2. CASE b = a /\ q \in Range(w.pool[a].logs)
    BY <2>2 DEF LogInv, Held, Range
  <2> QED
    BY <1>3, <2>1, <2>2
<1>9. MainApart(v, F)
  <2> SUFFICES ASSUME NEW q \in DOMAIN w.queues, Main(w, q)
               PROVE  By(v, q) \cap F \subseteq {q.owner}
    BY <1>1, <1>2 DEF LogInv, MainApart
  <2>1. CASE By(v, q) = By(w, q)
    BY <2>1 DEF LogInv, MainApart
  <2>2. CASE a \notin F /\ By(v, q) \subseteq By(w, q) \cup {a}
    BY <2>2 DEF LogInv, MainApart
  <2>3. CASE a \in F /\ q \in Range(w.pool[a].logs) /\ By(v, q) \subseteq By(w, q) \cup {a}
    <3>1. PICK n \in DOMAIN w.pool[a].logs : w.pool[a].logs[n] = q
      BY <2>3 DEF Range
    <3>2. q = Slot(a, "logs", n)
      BY <2>3, <3>1 DEF LogInv, Asked, Held
    <3>3. q.owner = a
      BY <3>2 DEF Slot
    <3> QED
      BY <2>3, <3>3 DEF LogInv, MainApart
  <2> QED
    BY <1>3, <2>1, <2>2, <2>3
<1> QED
  BY <1>5, <1>6, <1>7, <1>8, <1>9 DEF LogInv

(* What holds while some actors have no default connection holds with      *)
(* fewer.                                                                  *)
LEMMA FewerLogs ==
  ASSUME NEW w, NEW F, LogInv(w, F), NEW v, v.said = w.said, v.pool = w.pool,
         v.queues = w.queues, NEW G \in SUBSET F
  PROVE  LogInv(v, G)
<1>1. \A p : Main(v, p) <=> Main(w, p)
  BY DEF Main
<1>2. \A p : Seen(v, p) = Seen(w, p) /\ By(v, p) = By(w, p)
  BY DEF Seen, By
<1>3. Sorted(v) /\ Own(v) /\ Leads(v) /\ Held(v)
  BY <1>1, <1>2 DEF LogInv, Sorted, Own, Leads, Held
<1>4. Asked(v, G)
  BY DEF LogInv, Asked
<1>5. MainApart(v, G)
  BY <1>1, <1>2 DEF LogInv, MainApart
<1> QED
  BY <1>3, <1>4, <1>5 DEF LogInv

(* A queue added is of the scope of its pool,                              *)
LEMMA AddScoped ==
  ASSUME NEW w, Typed(w), Scoped(w), NEW a \in All, NEW scope \in Scopes, NEW n, NEW q,
         q.scope = scope, q.name # Placeholder, NEW v, Added(w, v, a, scope, n, q)
  PROVE  Scoped(v)
<1>1. \A b \in All : v.pool[b].inbound = w.pool[b].inbound
  BY DEF Added, Pooled, Scopes
<1>2. ASSUME NEW b \in All, NEW s \in Scopes, NEW m \in DOMAIN v.pool[b][s]
      PROVE  v.pool[b][s][m].scope = s /\ (m # Placeholder => v.pool[b][s][m].name # Placeholder)
  <2>1. CASE b = a /\ s = scope
    BY <1>2, <2>1 DEF Added, Scoped
  <2>2. CASE ~(b = a /\ s = scope)
    <3>1. v.pool[b][s] = w.pool[b][s]
      BY <2>2 DEF Added, Pooled
    <3> QED
      BY <1>2, <3>1 DEF Scoped
  <2> QED
    BY <2>1, <2>2
<1> QED
  BY <1>1, <1>2 DEF Scoped

(* one registered is of the scope its inbound name says,                   *)
LEMMA RegisterScoped ==
  ASSUME NEW w, Typed(w), Scoped(w), NEW b \in All, NEW n, NEW q,
         q.scope = n[1], q.name # Placeholder, NEW v, Registered(w, v, b, n, q)
  PROVE  Scoped(v)
<1>1. \A a \in All : \A s \in Scopes : v.pool[a][s] = w.pool[a][s]
  BY DEF Registered, Pooled, Scopes
<1>2. \A a \in All \ {b} : v.pool[a].inbound = w.pool[a].inbound
  BY DEF Registered, Pooled
<1> QED
  BY <1>1, <1>2 DEF Scoped, Registered

(* so every connection keeps queues to their scopes.                       *)
LEMMA LinkScoped ==
  ASSUME NEW w, Typed(w), ReadsBut(w, {}), Scoped(w),
         NEW scope \in Scopes, NEW a \in All, NEW n, n # Placeholder, NEW b \in All,
         NEW inName, inName[1] = scope, NEW v, v = Link(w, scope, a, n, b, inName)
  PROVE  Scoped(v)
<1> DEFINE known == DOMAIN w.pool[a][scope]
           inbox == DOMAIN w.pool[b].inbound
           q == Slot(a, scope, n)
<1>1. CASE n \notin known /\ inName \notin inbox
  <2>1. PICK x, y : /\ Typed(x) /\ Opened(w, x, q)
                    /\ Typed(y) /\ Added(x, y, a, scope, n, q)
                    /\ Registered(y, v, b, inName, q)
    BY <1>1, LinkDoes DEF FirstLink
  <2>2. q.scope = scope /\ q.name = n
    BY DEF Slot
  <2> HIDE DEF q
  <2>3. Scoped(x)
    BY <2>1 DEF Opened, Scoped
  <2>4. Scoped(y)
    BY <2>1, <2>2, <2>3, AddScoped
  <2> QED
    BY <2>1, <2>2, <2>4, RegisterScoped
<1>2. CASE n \notin known /\ inName \in inbox
  <2> DEFINE p == w.pool[b].inbound[inName]
  <2>1. Added(w, v, a, scope, n, p)
    BY <1>2, LinkDoes
  <2>2. p.scope = scope /\ p.name # Placeholder
    BY <1>2 DEF Scoped
  <2> HIDE DEF p
  <2> QED
    BY <2>1, <2>2, AddScoped
<1>3. CASE n \in known /\ inName \notin inbox
  <2> DEFINE p == w.pool[a][scope][n]
  <2>1. Registered(w, v, b, inName, p)
    BY <1>3, LinkDoes
  <2>2. p.scope = scope /\ p.name # Placeholder
    BY <1>3 DEF Scoped
  <2> HIDE DEF p
  <2> QED
    BY <2>1, <2>2, RegisterScoped
<1>4. CASE n \in known /\ inName \in inbox
  <2> DEFINE p == w.pool[b].inbound[inName]
  <2>1. PICK x : /\ Typed(x) /\ x.pool = w.pool /\ x.said = w.said
                 /\ Dumped(w.queues, x.queues, w.pool[a][scope][n], p)
                 /\ Added(x, v, a, scope, p.name, p)
    BY <1>4, LinkDoes DEF Merged
  <2>2. p.scope = scope /\ p.name # Placeholder
    BY <1>4 DEF Scoped
  <2> HIDE DEF p
  <2>3. Scoped(x)
    BY <2>1 DEF Scoped
  <2> QED
    BY <2>1, <2>2, <2>3, AddScoped
<1> QED
  BY <1>1, <1>2, <1>3, <1>4

(* v differs from w in nothing that the entries can tell.                  *)
Silent(w, v) ==
  /\ v.said = w.said
  /\ \A a \in All : v.pool[a].logs = w.pool[a].logs
  /\ \A p : Main(v, p) <=> Main(w, p)
  /\ DOMAIN w.queues \subseteq DOMAIN v.queues
  /\ \A q \in DOMAIN w.queues : /\ v.queues[q].items = w.queues[q].items
                                /\ v.queues[q].taken = w.queues[q].taken
  /\ \A q \in DOMAIN v.queues \ DOMAIN w.queues :
       v.queues[q].items = <<>> /\ v.queues[q].taken = <<>>

(* Such a step keeps the order;                                            *)
LEMMA SilentKeeps ==
  ASSUME NEW w, Typed(w), NEW F \in SUBSET All, LogInv(w, F), Quiet(w), NEW v, Silent(w, v)
  PROVE  LogInv(v, F) /\ Quiet(v)
<1>1. LogInv(v, F)
  BY AsideLogs DEF Silent
<1>2. Quiet(v)
  BY DEF Silent, Quiet
<1> QED
  BY <1>1, <1>2

(* making a queue is one,                                                  *)
LEMMA OpenSilent ==
  ASSUME NEW w, Typed(w), NEW v, NEW q, Opened(w, v, q)
  PROVE  Silent(w, v)
  BY DEF Opened, Silent, Main, FreshQueue

(* adding one to another pool than the logs is,                            *)
LEMMA AddSilent ==
  ASSUME NEW w, Typed(w), NEW a \in All, NEW scope \in Scopes \ {"logs"}, NEW n, NEW q,
         NEW v, Added(w, v, a, scope, n, q)
  PROVE  Silent(w, v)
<1>1. \A b \in All : v.pool[b].logs = w.pool[b].logs /\ v.pool[b].inbound = w.pool[b].inbound
  BY DEF Added, Pooled, Scopes
<1>2. \A p : Main(v, p) <=> Main(w, p)
  BY <1>1 DEF Main, All
<1> QED
  BY <1>1, <1>2 DEF Added, Silent

(* registering one under another name than the inbox is,                   *)
LEMMA RegisterSilent ==
  ASSUME NEW w, Typed(w), NEW b \in All, NEW n, n # Inbox, NEW q \in DOMAIN w.queues,
         NEW v, Registered(w, v, b, n, q)
  PROVE  Silent(w, v)
<1>1. \A a \in All : v.pool[a].logs = w.pool[a].logs
  BY DEF Registered, Pooled, Scopes
<1>2. \A p : Main(v, p) <=> Main(w, p)
  BY DEF Registered, Main, Pooled, All
<1>3. \A p \in DOMAIN w.queues :
        v.queues[p].items = w.queues[p].items /\ v.queues[p].taken = w.queues[p].taken
  BY DEF Registered, Typed, Queues
<1>4. v.said = w.said /\ DOMAIN v.queues = DOMAIN w.queues
  BY DEF Registered
<1> QED
  BY <1>1, <1>2, <1>3, <1>4 DEF Silent

(* and dumping an empty queue is.                                          *)
LEMMA DumpSilent ==
  ASSUME NEW w, Typed(w), NEW from \in DOMAIN w.queues, NEW to \in DOMAIN w.queues,
         w.queues[from].items = <<>>,
         NEW v, v.pool = w.pool, v.said = w.said, Dumped(w.queues, v.queues, from, to)
  PROVE  Silent(w, v)
<1>1. \A q \in DOMAIN w.queues : v.queues[q].items = w.queues[q].items
  <2>1. CASE from = to
    BY <2>1 DEF Dumped
  <2>2. CASE from # to
    <3>1. PICK k \in 0 .. Len(<<>>), m \in Nat :
             /\ k < m
             /\ v.queues[to].items = w.queues[to].items \o SubSeq(<<>>, 1, k)
             /\ v.queues[from].items = SubSeq(<<>>, m, Len(<<>>))
      BY <2>2 DEF Dumped
    <3>2. w.queues[to].items \in Seq(Entries)
      BY SeenTyped
    <3>3. SubSeq(<<>>, 1, k) = <<>> /\ SubSeq(<<>>, m, Len(<<>>)) = <<>>
      BY <3>1
    <3>4. v.queues[to].items = w.queues[to].items /\ v.queues[from].items = <<>>
      BY <3>1, <3>2, <3>3, ConcatEmptySeq
    <3> QED
      BY <3>4 DEF Dumped
  <2> QED
    BY <2>1, <2>2
<1> QED
  BY <1>1 DEF Silent, Dumped, Main

(* So a connection of outbound or error queues keeps the order.            *)
LEMMA QuietLink ==
  ASSUME NEW w, Typed(w), ReadsBut(w, {}), Scoped(w), Quiet(w),
         NEW F \in SUBSET All, LogInv(w, F),
         NEW scope \in Scopes \ {"logs"}, NEW a \in All, NEW n, n # Placeholder, NEW b \in All,
         NEW inName, inName[1] = scope, NEW v, v = Link(w, scope, a, n, b, inName)
  PROVE  LogInv(v, F) /\ Quiet(v)
<1> DEFINE known == DOMAIN w.pool[a][scope]
           inbox == DOMAIN w.pool[b].inbound
           q == Slot(a, scope, n)
<1>0. inName # Inbox
  <2>1. Inbox[1] = "logs"
    BY DEF Inbox, InboundName
  <2> QED
    BY <2>1
<1>1. CASE n \notin known /\ inName \notin inbox
  <2>1. PICK x, y : /\ Typed(x) /\ Opened(w, x, q)
                    /\ Typed(y) /\ Added(x, y, a, scope, n, q)
                    /\ Registered(y, v, b, inName, q)
    BY <1>1, LinkDoes DEF FirstLink
  <2> HIDE DEF q
  <2>2. LogInv(x, F) /\ Quiet(x)
    BY <2>1, OpenSilent, SilentKeeps
  <2>3. LogInv(y, F) /\ Quiet(y)
    BY <2>1, <2>2, AddSilent, SilentKeeps
  <2>4. q \in DOMAIN y.queues
    BY <2>1 DEF Added, Opened
  <2> QED
    BY <1>0, <2>1, <2>3, <2>4, RegisterSilent, SilentKeeps
<1>2. CASE n \notin known /\ inName \in inbox
  BY <1>2, LinkDoes, AddSilent, SilentKeeps
<1>3. CASE n \in known /\ inName \notin inbox
  <2>1. Registered(w, v, b, inName, w.pool[a][scope][n])
    BY <1>3, LinkDoes
  <2>2. w.pool[a][scope][n] \in DOMAIN w.queues
    BY <1>3 DEF Typed, Pooled
  <2> QED
    BY <1>0, <2>1, <2>2, RegisterSilent, SilentKeeps
<1>4. CASE n \in known /\ inName \in inbox
  <2> DEFINE p == w.pool[b].inbound[inName]
             from == w.pool[a][scope][n]
  <2>1. PICK x : /\ Typed(x) /\ x.pool = w.pool /\ x.said = w.said
                 /\ Dumped(w.queues, x.queues, from, p)
                 /\ Added(x, v, a, scope, p.name, p)
    BY <1>4, LinkDoes DEF Merged
  <2>2. /\ from \in DOMAIN w.queues /\ p \in DOMAIN w.queues
        /\ w.queues[from].items = <<>>
    BY <1>4 DEF Typed, Pooled, Scoped, Quiet
  <2> HIDE DEF p, from
  <2>3. LogInv(x, F) /\ Quiet(x)
    BY <2>1, <2>2, DumpSilent, SilentKeeps
  <2> QED
    BY <2>1, <2>3, AddSilent, SilentKeeps
<1> QED
  BY <1>1, <1>2, <1>3, <1>4

(* The entry every connection ends with keeps it too,                      *)
LEMMA LogKeeps ==
  ASSUME NEW w, Typed(w), Scoped(w), Quiet(w), NEW F \in SUBSET All, LogInv(w, F),
         NEW a \in All, NEW v, v = Log(w, a)
  PROVE  LogInv(v, F) /\ Scoped(v) /\ Quiet(v)
<1>1. Logged(w, v, a)
  BY LogDoes
<1>2. LogInv(v, F)
  BY <1>1, LogLogs
<1>3. Scoped(v)
  BY <1>1 DEF Logged, Scoped
<1>4. \A q \in Range(w.pool[a].logs) : q.scope = "logs"
  BY DEF Scoped, Scopes, Range
<1>5. Quiet(v)
  BY <1>1, <1>4 DEF Logged, Quiet
<1> QED
  BY <1>2, <1>3, <1>5

(* so do both together.                                                    *)
LEMMA QuietConnect ==
  ASSUME NEW w, Typed(w), ReadsBut(w, {}), Scoped(w), Quiet(w),
         NEW F \in SUBSET All, LogInv(w, F),
         NEW scope \in Scopes \ {"logs"}, NEW a \in All, NEW n, n # Placeholder, NEW b \in All,
         NEW inName, inName[1] = scope, NEW v, v = Connect(w, scope, a, n, b, inName)
  PROVE  LogInv(v, F) /\ Scoped(v) /\ Quiet(v)
<1> DEFINE x == Link(w, scope, a, n, b, inName)
<1>1. Typed(x)
  BY LinkReads
<1>2. Scoped(x)
  BY LinkScoped
<1>3. LogInv(x, F) /\ Quiet(x)
  BY QuietLink
<1>4. v = x \/ v = Log(x, a)
  BY DEF Connect
<1> HIDE DEF x
<1> QED
  BY <1>1, <1>2, <1>3, <1>4, LogKeeps

(* Adding a log queue puts nothing on queues of other scopes,              *)
LEMMA AddQuiet ==
  ASSUME NEW w, Typed(w), Scoped(w), Quiet(w), NEW a \in All, NEW n, NEW q, q.scope = "logs",
         NEW v, Added(w, v, a, "logs", n, q)
  PROVE  Quiet(v)
<1>1. CASE v.queues = w.queues
  BY <1>1 DEF Quiet
<1>2. CASE Named(w.pool[a].logs, Placeholder)
           /\ Dumped(w.queues, v.queues, w.pool[a].logs[Placeholder], q)
  <2>1. w.pool[a].logs[Placeholder].scope = "logs"
    BY <1>2 DEF Named, Scoped, Scopes
  <2> QED
    BY <1>2, <2>1 DEF Dumped, Quiet
<1> QED
  BY <1>1, <1>2 DEF Added

(* registering one neither,                                                *)
LEMMA RegisterQuiet ==
  ASSUME NEW w, Typed(w), Quiet(w), NEW b, NEW n, NEW q, NEW v, Registered(w, v, b, n, q)
  PROVE  Quiet(v)
<1>1. DOMAIN v.queues = DOMAIN w.queues
  BY DEF Registered
<1>2. \A p \in DOMAIN w.queues : v.queues[p].items = w.queues[p].items
  BY DEF Registered, Typed, Queues
<1> QED
  BY <1>1, <1>2 DEF Quiet

(* so no log connection does.                                              *)
LEMMA LogsQuiet ==
  ASSUME NEW w, Typed(w), ReadsBut(w, {}), Scoped(w), Quiet(w),
         NEW a \in All, NEW n, n # Placeholder, NEW b \in All,
         NEW inName, inName[1] = "logs", NEW v, v = Link(w, "logs", a, n, b, inName)
  PROVE  Quiet(v)
<1> DEFINE known == DOMAIN w.pool[a].logs
           inbox == DOMAIN w.pool[b].inbound
           q == Slot(a, "logs", n)
           to == w.pool[b].inbound[inName]
<1>0. "logs" \in Scopes
  BY DEF Scopes
<1>1. CASE n \notin known /\ inName \notin inbox
  <2>1. PICK x, y : /\ Typed(x) /\ Opened(w, x, q)
                    /\ Typed(y) /\ Added(x, y, a, "logs", n, q)
                    /\ Registered(y, v, b, inName, q)
    BY <1>0, <1>1, LinkDoes DEF FirstLink
  <2>2. q.scope = "logs"
    BY DEF Slot
  <2> HIDE DEF q
  <2>3. Quiet(x) /\ Scoped(x)
    BY <2>1 DEF Opened, Quiet, FreshQueue, Scoped
  <2>4. Quiet(y)
    BY <2>1, <2>2, <2>3, AddQuiet
  <2> QED
    BY <2>1, <2>4, RegisterQuiet
<1>2. CASE n \notin known /\ inName \in inbox
  <2>1. Added(w, v, a, "logs", n, to) /\ to.scope = "logs"
    BY <1>0, <1>2, LinkDoes DEF Scoped
  <2> HIDE DEF to
  <2> QED
    BY <2>1, AddQuiet
<1>3. CASE n \in known /\ inName \notin inbox
  <2>1. Registered(w, v, b, inName, w.pool[a].logs[n])
    BY <1>0, <1>3, LinkDoes
  <2> QED
    BY <2>1, RegisterQuiet
<1>4. CASE n \in known /\ inName \in inbox
  <2>1. PICK x : /\ Typed(x) /\ x.pool = w.pool /\ x.said = w.said
                 /\ Dumped(w.queues, x.queues, w.pool[a].logs[n], to)
                 /\ Added(x, v, a, "logs", to.name, to)
    BY <1>0, <1>4, LinkDoes DEF Merged
  <2>2. to.scope = "logs" /\ w.pool[a].logs[n].scope = "logs"
    BY <1>0, <1>4 DEF Scoped, Scopes
  <2> HIDE DEF to
  <2>3. Quiet(x)
    BY <2>1, <2>2 DEF Dumped, Quiet
  <2>4. Scoped(x)
    BY <2>1 DEF Scoped
  <2> QED
    BY <2>1, <2>2, <2>3, <2>4, AddQuiet
<1> QED
  BY <1>1, <1>2, <1>3, <1>4

(* A first log connection keeps the order, if it is one that was asked for *)
(* or the actor's default one.                                             *)
LEMMA FirstLogs ==
  ASSUME NEW w, Typed(w), Scoped(w), Quiet(w), NEW F \in SUBSET All, LogInv(w, F),
         NEW a \in All, NEW n, n # Placeholder, NEW b \in All, NEW inName,
         inName \notin DOMAIN w.pool[b].inbound,
         a \in F => ByHand(a, n),
         a \in F /\ b = LogActor /\ inName = Inbox => MainByHand(a, n),
         NEW v, FirstLink(w, v, "logs", a, n, b, inName)
  PROVE  LogInv(v, F)
<1> DEFINE q == Slot(a, "logs", n)
<1>1. PICK x, y : /\ Typed(x) /\ Opened(w, x, q)
                  /\ Typed(y) /\ Added(x, y, a, "logs", n, q)
                  /\ Registered(y, v, b, inName, q)
  BY DEF FirstLink
<1>2. q.owner = a /\ q.scope = "logs" /\ q.name = n
  BY DEF Slot
<1>3. LogInv(x, F) /\ Scoped(x)
  <2>1. LogInv(x, F)
    BY <1>1, OpenSilent, SilentKeeps
  <2> QED
    BY <1>1, <2>1 DEF Opened, Scoped
<1>4. LogInv(y, F)
  <2>1. q \in DOMAIN x.queues /\ q = Slot(a, "logs", n)
    BY <1>1 DEF Opened
  <2> HIDE DEF q
  <2> QED
    BY <1>1, <1>2, <1>3, <2>1, AddLogs
<1>5. inName \notin DOMAIN y.pool[b].inbound /\ q \in DOMAIN y.queues
  <2>1. y.pool[b].inbound = w.pool[b].inbound
    BY <1>1 DEF Added, Opened, Pooled, Scopes
  <2>2. DOMAIN y.queues = DOMAIN x.queues
    BY <1>1 DEF Added, Dumped
  <2> QED
    BY <1>1, <2>1, <2>2 DEF Opened
<1> HIDE DEF q
<1> QED
  BY <1>1, <1>2, <1>4, <1>5, RegisterLogs

(* The default connection of an actor that has its log queue already dumps *)
(* it on the inbox: nothing by this actor is there, or the two are the     *)
(* same.                                                                   *)
LEMMA MainDump ==
  ASSUME LogsByHand, NEW w, Typed(w), ReadsBut(w, {}), Scoped(w),
         NEW F \in SUBSET All, LogInv(w, F), NEW a \in F,
         "logs" \in DOMAIN w.pool[a].logs, NEW to, Main(w, to),
         NEW x, x.pool = w.pool, x.said = w.said,
         Dumped(w.queues, x.queues, w.pool[a].logs["logs"], to)
  PROVE  LogInv(x, F \ {a})
<1> DEFINE from == Slot(a, "logs", "logs")
<1>1. /\ w.pool[a].logs["logs"] = from /\ ByHand(a, "logs")
      /\ "logs" # Placeholder
  BY DEF LogInv, Asked, Placeholder
<1>2. from.owner = a /\ from.scope = "logs" /\ from.name = "logs"
  BY DEF Slot
<1>3. from \in DOMAIN w.queues /\ to \in DOMAIN w.queues
  BY <1>1 DEF Typed, Pooled, Scopes, Main, All
<1>4. to.scope = "logs" /\ to.name # Placeholder /\ to = Slot(to.owner, to.scope, to.name)
  BY <1>3 DEF Main, Scoped, All, Inbox, InboundName, ReadsBut
<1>5. CASE from = to
  <2>1. x.queues = w.queues
    BY <1>1, <1>5 DEF Dumped
  <2> QED
    BY <2>1, FewerLogs
<1>6. CASE from # to
  <2>1. \A q : Main(w, q) => q = to
    BY DEF Main
  <2>2. ~(to.owner = a /\ to.name = "logs")
    BY <1>4, <1>6
  <2> HIDE DEF from
  <2>3. By(w, from) \subseteq {a}
    BY <1>2, <1>3, <1>6, <2>1 DEF LogInv, Own
  <2>4. a \notin By(w, to)
    <3>1. SUFFICES ASSUME a \in By(w, to) PROVE FALSE
      OBVIOUS
    <3>2. to.owner = a /\ MainByHand(a, to.name)
      BY <1>3, <3>1 DEF LogInv, MainApart
    <3>3. to.name = "logs"
      BY <1>1, <3>2 DEF ByHand, MainByHand, LogsByHand
    <3> QED
      BY <2>2, <3>2, <3>3
  <2>5. /\ Sorted(x) /\ By(x, from) \subseteq By(w, from)
        /\ By(x, to) \subseteq By(w, to) \cup By(w, from)
        /\ \A q \in DOMAIN w.queues \ {from, to} : By(x, q) = By(w, q)
    <3>1. By(w, from) \cap By(w, to) = {} /\ Sorted(w)
      BY <2>3, <2>4 DEF LogInv
    <3> QED
      BY <1>1, <1>3, <1>6, <3>1, Pour
  <2>6. DOMAIN x.queues = DOMAIN w.queues
    BY DEF Dumped
  <2>7. \A q : Main(x, q) <=> Main(w, q)
    BY DEF Main
  <2>8. Own(x)
    BY <1>2, <2>3, <2>5, <2>6, <2>7 DEF LogInv, Own
  <2>9. Leads(x) /\ Asked(x, F \ {a})
    BY <2>7 DEF LogInv, Leads, Asked
  <2>10. Held(x)
    <3> SUFFICES ASSUME NEW b \in All, Placeholder \in DOMAIN w.pool[b].logs,
                        NEW q \in DOMAIN w.queues, b \in By(x, q)
                 PROVE  q = Slot(b, "logs", Placeholder)
      BY <2>6 DEF LogInv, Held
    <3>1. Slot(b, "logs", Placeholder).name = Placeholder
      BY DEF Slot
    <3>2. b # a
      BY <1>1 DEF LogInv, Held
    <3>3. b \in By(w, q)
      BY <2>3, <2>5, <3>2
    <3> QED
      BY <3>3 DEF LogInv, Held
  <2>11. MainApart(x, F \ {a})
    BY <1>3, <2>1, <2>3, <2>5, <2>6, <2>7 DEF LogInv, MainApart
  <2> QED
    BY <2>5, <2>8, <2>9, <2>10, <2>11 DEF LogInv
<1> QED
  BY <1>5, <1>6

(* The default connection keeps the order in each of its four forms,       *)
LEMMA MainLink ==
  ASSUME LogsByHand, NEW w, Typed(w), ReadsBut(w, {}), Scoped(w), Quiet(w),
         NEW F \in SUBSET All, LogInv(w, F), NEW a \in F,
         NEW v, v = Link(w, "logs", a, "logs", LogActor, Inbox)
  PROVE  LogInv(v, F \ {a})
<1> DEFINE known == DOMAIN w.pool[a].logs
           inbox == DOMAIN w.pool[LogActor].inbound
           G == F \ {a}
           q == Slot(a, "logs", "logs")
           to == w.pool[LogActor].inbound[Inbox]
<1>1. /\ LogInv(w, G) /\ G \in SUBSET All /\ a \notin G /\ a \in All
      /\ "logs" \in Scopes /\ "logs" # Placeholder /\ LogActor \in All
  BY FewerLogs DEF Scopes, Placeholder, All
<1>2. q.owner = a /\ q.scope = "logs" /\ q.name = "logs"
  BY DEF Slot
<1>3. CASE "logs" \notin known /\ Inbox \notin inbox
  BY <1>1, <1>3, LinkDoes, FirstLogs
<1>4. CASE "logs" \notin known /\ Inbox \in inbox
  <2>1. Main(w, to) /\ to \in DOMAIN w.queues /\ to.name # Placeholder
    BY <1>4 DEF Main, Typed, Pooled, All, Scoped
  <2>2. Added(w, v, a, "logs", "logs", to)
    BY <1>1, <1>4, LinkDoes
  <2> HIDE DEF to, G
  <2>9. LogInv(v, G)
    BY <1>1, <2>1, <2>2, AddLogs
  <2> QED
    BY <2>9 DEF G
<1>5. CASE "logs" \in known /\ Inbox \notin inbox
  <2>1. w.pool[a].logs["logs"] = q /\ q \in DOMAIN w.queues
    BY <1>1, <1>5 DEF LogInv, Asked, Typed, Pooled
  <2>2. Registered(w, v, LogActor, Inbox, q)
    BY <1>1, <1>5, <2>1, LinkDoes
  <2> HIDE DEF q, G
  <2>9. LogInv(v, G)
    BY <1>1, <1>2, <1>5, <2>1, <2>2, RegisterLogs
  <2> QED
    BY <2>9 DEF G
<1>6. CASE "logs" \in known /\ Inbox \in inbox
  <2>1. PICK x : /\ Typed(x) /\ x.pool = w.pool /\ x.said = w.said
                 /\ Dumped(w.queues, x.queues, w.pool[a].logs["logs"], to)
                 /\ Added(x, v, a, "logs", to.name, to)
    BY <1>1, <1>6, LinkDoes DEF Merged
  <2>2. Main(w, to) /\ to \in DOMAIN w.queues /\ to.name # Placeholder
    BY <1>6 DEF Main, Typed, Pooled, All, Scoped
  <2> HIDE DEF to
  <2>3. LogInv(x, G)
    BY <1>6, <2>1, <2>2, MainDump
  <2>4. Main(x, to) /\ to \in DOMAIN x.queues
    BY <2>1, <2>2 DEF Main, Dumped
  <2>5. Scoped(x)
    BY <2>1 DEF Scoped
  <2> HIDE DEF G
  <2>9. LogInv(v, G)
    BY <1>1, <2>1, <2>2, <2>3, <2>4, <2>5, AddLogs
  <2> QED
    BY <2>9 DEF G
<1> QED
  BY <1>3, <1>4, <1>5, <1>6

(* and with its entry.                                                     *)
LEMMA MainConnect ==
  ASSUME LogsByHand, NEW w, Typed(w), ReadsBut(w, {}), Scoped(w), Quiet(w),
         NEW F \in SUBSET All, LogInv(w, F), NEW a \in F, NEW v, v = WithLogs(w, a)
  PROVE  /\ Typed(v) /\ ReadsBut(v, {}) /\ Scoped(v) /\ Quiet(v)
         /\ LogInv(v, F \ {a})
<1> DEFINE x == Link(w, "logs", a, "logs", LogActor, Inbox)
<1>1. /\ "logs" \in Scopes /\ LogActor \in All /\ "logs" # Placeholder /\ Inbox[1] = "logs"
      /\ a \in All /\ v = Connect(w, "logs", a, "logs", LogActor, Inbox)
  BY DEF Scopes, All, Placeholder, Inbox, InboundName, WithLogs
<1>2. Typed(v) /\ ReadsBut(v, {})
  BY <1>1, ConnectReads
<1>3. Typed(x)
  BY <1>1, LinkReads
<1>4. Scoped(x) /\ Quiet(x)
  BY <1>1, LinkScoped, LogsQuiet
<1>5. LogInv(x, F \ {a})
  BY MainLink
<1>6. v = x \/ v = Log(x, a)
  BY <1>1 DEF Connect
<1> HIDE DEF x
<1>7. F \ {a} \in SUBSET All
  OBVIOUS
<1> QED
  BY <1>1, <1>2, <1>3, <1>4, <1>5, <1>6, <1>7, LogKeeps

(* A log connection made by hand is checked, so it is a first one.         *)
LEMMA HandConnect ==
  ASSUME LogsByHand, NEW w, Typed(w), ReadsBut(w, {}), Scoped(w), Quiet(w),
         NEW F \in SUBSET All, LogInv(w, F), NEW c \in Calls, c.scope = "logs",
         ~(c.check /\ Connected(w, "logs", c.source, SourceName(c), c.destination, DestName(c))),
         NEW v, v = Connect(w, "logs", c.source, SourceName(c), c.destination, DestName(c))
  PROVE  LogInv(v, F) /\ Scoped(v) /\ Quiet(v)
<1> DEFINE a == c.source
           n == SourceName(c)
           b == c.destination
           inName == DestName(c)
           x == Link(w, "logs", a, n, b, inName)
<1>1. /\ "logs" \in Scopes /\ a \in All /\ b \in All /\ n # Placeholder
      /\ inName[1] = "logs"
  BY CallsAssumption DEF Scopes, DestName, InboundName
<1>2. /\ ByHand(a, n)
      /\ b = LogActor /\ inName = Inbox => MainByHand(a, n)
  BY DEF ByHand, MainByHand
<1>3. n \notin DOMAIN w.pool[a].logs /\ inName \notin DOMAIN w.pool[b].inbound
  BY DEF LogsByHand, Connected, Named
<1>4. v = x \/ v = Log(x, a)
  BY DEF Connect
<1> HIDE DEF a, n, b, inName
<1>5. Typed(x)
  BY <1>1, LinkReads
<1>6. Scoped(x) /\ Quiet(x)
  BY <1>1, LinkScoped, LogsQuiet
<1>7. FirstLink(w, x, "logs", a, n, b, inName)
  BY <1>1, <1>3, LinkDoes
<1> HIDE DEF x
<1>8. LogInv(x, F)
  BY <1>1, <1>2, <1>3, <1>7, FirstLogs
<1> QED
  BY <1>1, <1>4, <1>5, <1>6, <1>8, LogKeeps

-----------------------------------------------------------------------------
(* The actors that start has not given their default connection.           *)
Unset == CASE phase = "connecting" -> All
           [] phase = "setup"      -> todo \cup {LogActor, ErrorActor}
           [] OTHER                -> {}

(* The inductive invariant of the order.                                   *)
OrderInv ==
  /\ WiringInv
  /\ LogsByHand
  /\ phase = "setup" => todo \subseteq Actors
  /\ Scoped(net) /\ Quiet(net)
  /\ LogInv(net, Unset)

(* Nothing is written before the first connection,                         *)
LEMMA InitOrdered == Init /\ LogsByHand => OrderInv
<1> SUFFICES ASSUME Init, LogsByHand PROVE OrderInv
  OBVIOUS
<1>1. WiringInv /\ phase = "connecting" /\ Unset = All
  BY InitWired DEF Init, Unset
<1>2. /\ net.pool = [a \in All |->
                      [inbound |-> <<>>, outbound |-> <<>>, error |-> <<>>,
                       logs |-> [n \in {Placeholder} |-> Slot(a, "logs", n)]]]
      /\ net.queues = [q \in {Slot(a, "logs", Placeholder) : a \in All} |-> FreshQueue]
      /\ net.said = [a \in All |-> 0]
  BY DEF Init
<1>3. \A q \in DOMAIN net.queues : Seen(net, q) = <<>> /\ By(net, q) = {}
  <2>1. <<>> \in Seq(Entries) /\ <<>> \o <<>> = <<>> /\ DOMAIN <<>> = {}
    BY EmptySeq, ConcatEmptySeq
  <2>2. \A q \in DOMAIN net.queues : Seen(net, q) = <<>> \o <<>>
    BY <1>2 DEF Seen, FreshQueue
  <2> QED
    BY <2>1, <2>2 DEF By, Authors
<1>4. \A q : ~Main(net, q)
  BY <1>2 DEF Main, All
<1>5. Sorted(net) /\ Own(net)
  BY <1>3 DEF Sorted, Own, InOrder, Written
<1>6. \A a \in All : /\ DOMAIN net.pool[a].logs = {Placeholder}
                     /\ net.pool[a].logs[Placeholder] = Slot(a, "logs", Placeholder)
                     /\ DOMAIN net.pool[a].inbound = {}
                     /\ DOMAIN net.pool[a].outbound = {}
                     /\ DOMAIN net.pool[a].error = {}
  BY <1>2
<1>7. Leads(net) /\ Held(net) /\ Asked(net, All) /\ MainApart(net, All)
  BY <1>3, <1>4, <1>6 DEF Leads, Held, Asked, MainApart
<1>8. Scoped(net)
  <2>1. \A a \in All : Slot(a, "logs", Placeholder).scope = "logs"
    BY DEF Slot
  <2>2. ASSUME NEW a \in All, NEW s \in Scopes, NEW n \in DOMAIN net.pool[a][s]
        PROVE  s = "logs" /\ n = Placeholder
    BY <1>6, <2>2 DEF Scopes
  <2>3. \A a \in All : \A s \in Scopes : \A n \in DOMAIN net.pool[a][s] :
          net.pool[a][s][n].scope = s /\ (n # Placeholder => net.pool[a][s][n].name # Placeholder)
    BY <1>6, <2>1, <2>2
  <2> QED
    BY <1>6, <2>3 DEF Scoped
<1>9. Quiet(net)
  BY <1>2 DEF Quiet, FreshQueue
<1> QED
  BY <1>1, <1>5, <1>7, <1>8, <1>9 DEF OrderInv, LogInv

(* and every step keeps the order.                                         *)
LEMMA NextOrdered == OrderInv /\ [Next]_vars => OrderInv'
<1> SUFFICES ASSUME OrderInv, [Next]_vars PROVE OrderInv'
  OBVIOUS
<1>0. WiringInv' /\ LogsByHand'
  BY NextWired DEF OrderInv, LogsByHand
<1>1. /\ Typed(net) /\ ReadsBut(net, {}) /\ Scoped(net) /\ Quiet(net) /\ LogInv(net, Unset)
      /\ Phases /\ LogsByHand /\ (phase = "setup" => todo \subseteq Actors)
      /\ Unset \in SUBSET All
  BY DEF OrderInv, WiringInv, Phases, Unset, All
<1>2. ASSUME NEW c \in Calls, ConnectQueue(c) PROVE OrderInv'
  <2>1. /\ c.scope \in Scopes /\ c.source \in All /\ c.destination \in All
        /\ SourceName(c) # Placeholder /\ DestName(c)[1] = c.scope
    BY CallsAssumption DEF Scopes, DestName, InboundName
  <2>2. Unset' = Unset /\ phase' = "connecting"
    BY <1>2 DEF ConnectQueue, Unset
  <2>3. /\ ~(c.check /\ Connected(net, c.scope, c.source, SourceName(c), c.destination, DestName(c)))
        /\ net' = Connect(net, c.scope, c.source, SourceName(c), c.destination, DestName(c))
    BY <1>2 DEF ConnectQueue
  <2>4. LogInv(net', Unset) /\ Scoped(net') /\ Quiet(net')
    <3>1. CASE c.scope = "logs"
      BY <1>1, <2>3, <3>1, HandConnect
    <3>2. CASE c.scope # "logs"
      BY <1>1, <2>1, <2>3, <3>2, QuietConnect
    <3> QED
      BY <3>1, <3>2
  <2> QED
    BY <1>0, <2>2, <2>4 DEF OrderInv
<1>3. CASE StartDirector
  <2>1. /\ net' = net /\ phase' = "setup" /\ todo' = Actors
        /\ Unset = All /\ Unset' \in SUBSET Unset
    BY <1>3 DEF StartDirector, Unset, All
  <2>2. LogInv(net, Unset')
    BY <1>1, <2>1, FewerLogs
  <2> QED
    BY <1>0, <1>1, <2>1, <2>2 DEF OrderInv
<1>4. ASSUME NEW a \in All, SetupActor(a) PROVE OrderInv'
  <2> DEFINE e == WithErrors(net, a)
             G == Unset \ {a}
  <2>1. /\ phase = "setup" /\ phase' = "setup" /\ a \in Actors /\ todo' = todo \ {a}
        /\ a \in Unset /\ Unset' = G /\ net' = WithLogs(e, a)
    BY <1>1, <1>4, WiringAssumption DEF SetupActor, Unset
  <2>2. Typed(e) /\ ReadsBut(e, {}) /\ Scoped(e) /\ Quiet(e) /\ LogInv(e, Unset)
    <3> DEFINE x == Connect(net, "error", a, ErrorActor, ErrorActor, InboundName("error", a))
    <3>1. /\ "error" \in Scopes \ {"logs"} /\ ErrorActor \in All /\ ErrorActor # Placeholder
          /\ InboundName("error", a)[1] = "error"
      BY CallsAssumption DEF Scopes, All, InboundName
    <3>2. /\ Typed(x) /\ ReadsBut(x, {})
          /\ LogInv(x, Unset) /\ Scoped(x) /\ Quiet(x)
      BY <1>1, <3>1, ConnectReads, QuietConnect
    <3>3. e = net \/ e = [x EXCEPT !.outcome = "ok"]
      BY DEF WithErrors
    <3> HIDE DEF x, e
    <3>4. CASE e = [x EXCEPT !.outcome = "ok"]
      <4>1. /\ e.pool = x.pool /\ e.queues = x.queues /\ e.said = x.said /\ e.outcome = "ok"
            /\ e = [pool |-> e.pool, queues |-> e.queues, said |-> e.said, outcome |-> e.outcome]
        BY <3>2, <3>4 DEF Typed, Shape
      <4>2. Typed(e)
        BY <3>2, <4>1 DEF Typed, Shape
      <4>3. ReadsBut(e, {})
        BY <3>2, <4>1, SameReads
      <4>4. LogInv(e, Unset)
        BY <3>2, <4>1, FewerLogs
      <4>5. Scoped(e) /\ Quiet(e)
        BY <3>2, <4>1 DEF Scoped, Quiet
      <4> QED
        BY <4>2, <4>3, <4>4, <4>5
    <3> QED
      BY <1>1, <3>3, <3>4
  <2> HIDE DEF e
  <2>3. LogInv(net', Unset \ {a}) /\ Scoped(net') /\ Quiet(net')
    BY <1>1, <2>1, <2>2, MainConnect
  <2> QED
    BY <1>0, <1>1, <2>1, <2>3 DEF OrderInv
<1>5. CASE SetupOwnLogs
  <2> DEFINE own == WithLogs(net, LogActor)
  <2>1. /\ Unset = {LogActor, ErrorActor} /\ Unset' = {} /\ phase' = "starting"
        /\ net' = own \/ net' = WithLogs(own, ErrorActor)
    BY <1>5 DEF SetupOwnLogs, Unset
  <2>2. /\ Typed(own) /\ ReadsBut(own, {}) /\ Scoped(own) /\ Quiet(own)
        /\ LogInv(own, Unset \ {LogActor})
    BY <1>1, <2>1, MainConnect
  <2> HIDE DEF own
  <2>3. Unset \ {LogActor} \in SUBSET All /\ ErrorActor \in Unset \ {LogActor}
    BY <1>1, <2>1, WiringAssumption
  <2>4. \E F : LogInv(net', F) /\ Scoped(net') /\ Quiet(net')
    BY <1>1, <2>1, <2>2, <2>3, MainConnect
  <2>5. LogInv(net', {})
    BY <2>4, FewerLogs
  <2> QED
    BY <1>0, <2>1, <2>4, <2>5 DEF OrderInv
<1>6. ASSUME NEW a \in All, StartActor(a) PROVE OrderInv'
  <2>1. net' = net /\ Unset' = Unset /\ phase' = phase /\ phase # "setup"
    BY <1>6 DEF StartActor, Unset
  <2> QED
    BY <1>0, <1>1, <2>1 DEF OrderInv
<1>7. ASSUME NEW a \in All, StartLogged(a) PROVE OrderInv'
  <2>1. phase \in {"starting", "running"} /\ phase' \in {"starting", "running"} /\ net' = Log(net, a)
    BY <1>1, <1>7 DEF StartLogged, Phases
  <2>2. Unset = {} /\ Unset' = {}
    BY <2>1 DEF Unset
  <2>3. LogInv(net', Unset) /\ Scoped(net') /\ Quiet(net')
    BY <1>1, <2>1, LogKeeps
  <2> QED
    BY <1>0, <2>1, <2>2, <2>3 DEF OrderInv
<1>8. ASSUME NEW b \in All, NEW q \in DOMAIN net.queues, Take(b, q) PROVE OrderInv'
  <2>1. /\ net.queues[q].items # <<>> /\ phase' = phase /\ todo' = todo
        /\ net' = [net EXCEPT !.queues[q].items = Tail(@),
                              !.queues[q].taken = Append(@, Head(net.queues[q].items))]
    BY <1>8 DEF Take
  <2>2. Taken(net, net', q) /\ Unset' = Unset
    BY <1>1, <2>1, TakeDoes DEF Unset
  <2>3. LogInv(net', Unset)
    BY <1>1, <2>1, <2>2, TakeLogs
  <2>4. Scoped(net')
    BY <1>1, <2>2 DEF Taken, Scoped
  <2>5. Quiet(net')
    BY <1>1, <2>1, <2>2 DEF Taken, Quiet
  <2> QED
    BY <1>0, <1>1, <2>1, <2>2, <2>3, <2>4, <2>5 DEF OrderInv
<1>9. CASE UNCHANGED vars
  <2>1. net' = net /\ phase' = phase /\ todo' = todo /\ Unset' = Unset
    BY <1>9 DEF vars, Unset
  <2> QED
    BY <1>0, <1>1, <2>1 DEF OrderInv
<1> QED
  BY <1>2, <1>3, <1>4, <1>5, <1>6, <1>7, <1>8, <1>9 DEF Next, Starting, Taking

(* Each reader sees the entries of one actor in the order they were        *)
(* written, through placeholders, dumps and the start, if log connections  *)
(* made by hand are checked and none of an actor's goes into the log       *)
(* actor's inbox under a second name.                                      *)
THEOREM EntriesStayInOrder == Spec /\ LogsByHand => []EntriesInOrder
<1>1. OrderInv => EntriesInOrder
  BY DEF OrderInv, LogInv, Sorted, InOrder, Seen, EntriesInOrder
<1> QED
  BY <1>1, InitOrdered, NextOrdered, PTL DEF Spec
=============================================================================
