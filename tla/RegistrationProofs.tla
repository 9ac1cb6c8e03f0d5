------------------------- MODULE RegistrationProofs -------------------------
(***************************************************************************)
(* Proofs about Registration, for all brokers, managers and bounds: the    *)
(* service never forgets a broker that a manager is left connected to, and *)
(* the state keeps its type.                                               *)
(*                                                                         *)
(* The first is inductive with the shapes of the state (Shapes): what      *)
(* matters are the last news of a broker, and every step either leaves     *)
(* them last, adds some at the end, or takes some from the front together  *)
(* with what they do to the manager.  For the type, managers are typed     *)
(* field by field (Typed), which the lemmas on their operators keep.       *)
(***************************************************************************)
EXTENDS Registration, FiniteSetTheorems, TLAPS

News == {Heartbeat(b) : b \in Brokers} \cup {Gone(b) : b \in Brokers}

Shaped(m) ==
  m = [unverified |-> m.unverified, verified |-> m.verified, pointer |-> m.pointer, wait |-> m.wait]

Connector == [tries : 0 .. Attempts, reconnects : 1 .. Reconnects]

(* A manager of its type, field by field; no broker waits for what it has  *)
(* given.                                                                  *)
Typed(m) ==
  /\ Shaped(m)
  /\ m.unverified = [b \in DOMAIN m.unverified |-> m.unverified[b]]
  /\ DOMAIN m.unverified \subseteq Brokers
  /\ \A b \in DOMAIN m.unverified : m.unverified[b] \in Connector
  /\ m.verified \subseteq Brokers
  /\ m.pointer \in -1 .. Cardinality(Brokers) - 1 /\ m.wait \in 0 .. WaitCalls
  /\ DOMAIN m.unverified \cap m.verified = {}

Shapes ==
  /\ alive \subseteq Brokers
  /\ DOMAIN known \subseteq Brokers
  /\ news \in [Managers -> Seq(News)]
  /\ mgr = [p \in Managers |-> mgr[p]] /\ \A p \in Managers : Shaped(mgr[p])
  /\ \A p \in Managers : Connected(mgr[p]) \subseteq Brokers
  /\ asked \subseteq Managers \X Brokers
  /\ missed \in Nat /\ restarts \in Nat

RInv == Shapes /\ NobodyForgotten

-----------------------------------------------------------------------------
(* News are of one broker, and of one kind.                                *)
LEMMA NewsKinds ==
  /\ \A x \in News : x.of \in Brokers /\ (x = Heartbeat(x.of) \/ x = Gone(x.of))
  /\ \A b, c : Heartbeat(b).of = b /\ Gone(b).of = b /\ Heartbeat(b) # Gone(c)
  /\ \A b, c : Heartbeat(b) = Heartbeat(c) => b = c
  /\ \A b : Heartbeat(b).command = "heartbeat" /\ Gone(b).command = "disconnect"
BY DEF News, Heartbeat, Gone

(* Connecting adds a broker, if it is not there.                           *)
LEMMA ConnectAdds ==
  ASSUME NEW m, Shaped(m), NEW b
  PROVE  /\ Shaped(Connect(m, b)) /\ Connected(Connect(m, b)) = Connected(m) \cup {b}
         /\ Typed(m) /\ b \in Brokers => Typed(Connect(m, b))
<1> DEFINE u == m.unverified  v == m.verified  k == m.pointer  w == m.wait
           old == [unverified |-> u, verified |-> v, pointer |-> k, wait |-> w]
           n == [x \in DOMAIN u \cup {b} |-> IF x = b THEN NewConnector ELSE u[x]]
<1>1. CASE b \in Connected(m)
  BY <1>1 DEF Connect
<1>2. CASE b \notin Connected(m)
  <2>1. m = old
    BY DEF Shaped
  <2>2. DOMAIN n = DOMAIN u \cup {b}
    OBVIOUS
  <2>3. Connect(m, b) = [m EXCEPT !.unverified = n]
    BY <1>2, <2>1 DEF Connect
  <2> HIDE DEF u, v, k, w, n
  <2>4. [m EXCEPT !.unverified = n] = [old EXCEPT !.unverified = n]
    BY <2>1
  <2>5. Connect(m, b) = [old EXCEPT !.unverified = n]
    BY <2>3, <2>4, Zenon
  <2>6. Connect(m, b) = [unverified |-> n, verified |-> v, pointer |-> k, wait |-> w]
    BY <2>5
  <2>7. Connected(m) = DOMAIN u \cup v
    BY <2>1 DEF Connected
  <2>8. ASSUME Typed(m), b \in Brokers PROVE Typed(Connect(m, b))
    <3>1. NewConnector \in Connector
      BY ManagerAssumption DEF NewConnector, Connector
    <3>2. n = [x \in DOMAIN n |-> n[x]] /\ \A x \in DOMAIN n : n[x] \in Connector
      BY <2>8, <3>1 DEF n, u, Typed
    <3>3. u = m.unverified /\ v = m.verified /\ k = m.pointer /\ w = m.wait
      BY DEF u, v, k, w
    <3>4. QED
      BY <1>2, <2>2, <2>6, <2>7, <2>8, <3>2, <3>3 DEF Typed, Shaped
  <2>9. QED
    BY <2>2, <2>6, <2>7, <2>8 DEF Shaped, Connected
<1>3. QED
  BY <1>1, <1>2

(* A response moves a broker among those that are connected.              *)
LEMMA VerifyMoves ==
  ASSUME NEW m, Shaped(m), NEW b
  PROVE  /\ Shaped(Verify(m, b)) /\ Connected(Verify(m, b)) = Connected(m)
         /\ Typed(m) /\ b \in Brokers => Typed(Verify(m, b))
<1> DEFINE u == m.unverified  v == m.verified  k == m.pointer  w == m.wait
           old == [unverified |-> u, verified |-> v, pointer |-> k, wait |-> w]
           n == Restrict(u, DOMAIN u \ {b})
<1>1. CASE b \notin DOMAIN u
  BY <1>1 DEF Verify
<1>2. CASE b \in DOMAIN u
  <2>1. m = old
    BY DEF Shaped
  <2>2. DOMAIN n = DOMAIN u \ {b}
    BY DEF Restrict
  <2>3. Verify(m, b) = [m EXCEPT !.unverified = n, !.verified = v \cup {b}]
    BY <1>2, <2>1 DEF Verify
  <2> HIDE DEF u, v, k, w, n
  <2>4. [m EXCEPT !.unverified = n, !.verified = v \cup {b}] = [old EXCEPT !.unverified = n, !.verified = v \cup {b}]
    BY <2>1
  <2>5. Verify(m, b) = [old EXCEPT !.unverified = n, !.verified = v \cup {b}]
    BY <2>3, <2>4, Zenon
  <2>6. Verify(m, b) = [unverified |-> n, verified |-> v \cup {b}, pointer |-> k, wait |-> w]
    BY <2>5
  <2>7. Connected(m) = DOMAIN u \cup v
    BY <2>1 DEF Connected
  <2>8. ASSUME Typed(m), b \in Brokers PROVE Typed(Verify(m, b))
    <3>1. n = [x \in DOMAIN n |-> n[x]] /\ \A x \in DOMAIN n : n[x] \in Connector
      BY <2>8 DEF n, u, Typed, Restrict
    <3>2. u = m.unverified /\ v = m.verified /\ k = m.pointer /\ w = m.wait
      BY DEF u, v, k, w
    <3>3. QED
      BY <2>2, <2>6, <2>8, <3>1, <3>2 DEF Typed, Shaped
  <2>9. QED
    BY <1>2, <2>2, <2>6, <2>7, <2>8 DEF Shaped, Connected
<1>3. QED
  BY <1>1, <1>2

(* A disconnect takes one broker out.                                      *)
LEMMA DisconnectRemoves ==
  ASSUME NEW m, Shaped(m), NEW b
  PROVE  /\ Shaped(Disconnect(m, b)) /\ Connected(Disconnect(m, b)) = Connected(m) \ {b}
         /\ Typed(m) => Typed(Disconnect(m, b))
<1> DEFINE u == m.unverified  v == m.verified  k == m.pointer  w == m.wait
           old == [unverified |-> u, verified |-> v, pointer |-> k, wait |-> w]
           n == Restrict(u, DOMAIN u \ {b})
<1>1. m = old
  BY DEF Shaped
<1>2. DOMAIN n = DOMAIN u \ {b}
  BY DEF Restrict
<1>3. Disconnect(m, b) = [m EXCEPT !.unverified = n, !.verified = v \ {b}]
  BY <1>1 DEF Disconnect
<1> HIDE DEF u, v, k, w, n
<1>4. [m EXCEPT !.unverified = n, !.verified = v \ {b}] = [old EXCEPT !.unverified = n, !.verified = v \ {b}]
  BY <1>1
<1>5. Disconnect(m, b) = [old EXCEPT !.unverified = n, !.verified = v \ {b}]
  BY <1>3, <1>4, Zenon
<1>6. Disconnect(m, b) = [unverified |-> n, verified |-> v \ {b}, pointer |-> k, wait |-> w]
  BY <1>5
<1>7. Connected(m) = DOMAIN u \cup v
  BY <1>1 DEF Connected
<1>8. ASSUME Typed(m) PROVE Typed(Disconnect(m, b))
  <2>1. n = [x \in DOMAIN n |-> n[x]] /\ \A x \in DOMAIN n : n[x] \in Connector
    BY <1>8 DEF n, u, Typed, Restrict
  <2>2. u = m.unverified /\ v = m.verified /\ k = m.pointer /\ w = m.wait
    BY DEF u, v, k, w
  <2>3. QED
    BY <1>2, <1>6, <1>8, <2>1, <2>2 DEF Typed, Shaped
<1>9. QED
  BY <1>2, <1>6, <1>7, <1>8 DEF Shaped, Connected

(* Verification requests add no broker.                                    *)
LEMMA RequestsKeep ==
  ASSUME NEW m, Shaped(m)
  PROVE  /\ Shaped(AfterRequests(m)) /\ Connected(AfterRequests(m)) \subseteq Connected(m)
         /\ Typed(m) => /\ Typed(AfterRequests(m))
                        /\ Connected(m) \ Hopeless(m) \subseteq Connected(AfterRequests(m))
<1> DEFINE u == m.unverified  v == m.verified  k == m.pointer  w == m.wait
           old == [unverified |-> u, verified |-> v, pointer |-> k, wait |-> w]
           n == [b \in Connected(m) \ (Hopeless(m) \cup m.verified) |-> Attempt(m.unverified[b])]
           x == IF w > 0 THEN w - 1 ELSE IF Asked(m) # {} THEN WaitCalls ELSE 0
<1>1. m = old
  BY DEF Shaped
<1>2. DOMAIN n \subseteq Connected(m)
  OBVIOUS
<1>3. AfterRequests(m) = [m EXCEPT !.unverified = n, !.wait = x]
  BY <1>1, Zenon DEF AfterRequests
<1> HIDE DEF u, v, k, w, n, x
<1>4. [m EXCEPT !.unverified = n, !.wait = x] = [old EXCEPT !.unverified = n, !.wait = x]
  BY <1>1
<1>5. AfterRequests(m) = [old EXCEPT !.unverified = n, !.wait = x]
  BY <1>3, <1>4, Zenon
<1>6. AfterRequests(m) = [unverified |-> n, verified |-> v, pointer |-> k, wait |-> x]
  BY <1>5
<1>7. v \subseteq Connected(m)
  BY <1>1 DEF Connected
<1>8. ASSUME Typed(m)
      PROVE  Typed(AfterRequests(m)) /\ Connected(m) \ Hopeless(m) \subseteq Connected(AfterRequests(m))
  <2>1. u = m.unverified /\ v = m.verified /\ k = m.pointer /\ w = m.wait
    BY DEF u, v, k, w
  <2>2. DOMAIN n = DOMAIN u \ Hopeless(m)
    BY <1>8, <2>1 DEF n, Connected, Typed
  <2>3. ASSUME NEW b \in DOMAIN u \ Hopeless(m) PROVE Attempt(u[b]) \in Connector
    <3>1. u[b] \in Connector
      BY <1>8, <2>1, <2>3 DEF Typed
    <3>2. u[b].tries >= Attempts => u[b].reconnects < Reconnects
      BY <2>1, <2>3, <3>1, ManagerAssumption DEF Hopeless, Spent, Connector
    <3>3. QED
      BY <3>1, <3>2, ManagerAssumption DEF Attempt, Connector
  <2>4. n = [b \in DOMAIN n |-> n[b]] /\ \A b \in DOMAIN n : n[b] \in Connector
    BY <2>1, <2>2, <2>3 DEF n
  <2>5. x \in 0 .. WaitCalls
    BY <1>8, <2>1, ManagerAssumption DEF x, Typed
  <2>6. QED
    BY <1>6, <1>8, <2>1, <2>2, <2>4, <2>5 DEF Typed, Shaped, Connected
<1>9. QED
  BY <1>2, <1>6, <1>7, <1>8 DEF Shaped, Connected

(* check_broker_liveness tells of exactly the brokers it removes.          *)
LEMMA DisconnectsAll ==
  ASSUME NEW k, DOMAIN k \subseteq Brokers
  PROVE  /\ Disconnects(k) \in Seq(News)
         /\ \A i \in DOMAIN Disconnects(k) : \E b \in Exhausted(k) : Disconnects(k)[i] = Gone(b)
         /\ \A b \in Exhausted(k) : \E i \in DOMAIN Disconnects(k) : Disconnects(k)[i] = Gone(b)
<1> DEFINE S == Exhausted(k)  n == Cardinality(S)  f == SetToSeq(S)
<1>1. S \subseteq Brokers /\ IsFiniteSet(S) /\ n \in Nat
  BY FS_Subset, FS_CardinalityType, RegistrationAssumption DEF Exhausted
<1>2. \E g \in [1 .. n -> S] : IsInjective(g)
  BY <1>1, FS_CardinalityType DEF ExistsBijection, Bijection, Injection
<1>3. f \in [1 .. n -> S] /\ IsInjective(f)
  <2> HIDE DEF S, n
  <2>1. QED
    BY <1>2 DEF SetToSeq, n
<1>4. \A b \in S : \E i \in 1 .. n : f[i] = b
  <2>1. f \in Injection(1 .. n, S)
    BY <1>3 DEF Injection
  <2>2. IsFiniteSet(1 .. n) /\ Cardinality(1 .. n) = n
    BY <1>1, FS_Interval
  <2>3. f \in Surjection(1 .. n, S)
    BY <1>1, <2>1, <2>2, FS_Injection
  <2>4. QED
    BY <2>3 DEF Surjection
<1>5. Disconnects(k) = [i \in 1 .. n |-> Gone(f[i])]
  BY <1>3 DEF Disconnects
<1> HIDE DEF n, f
<1>6. QED
  BY <1>1, <1>3, <1>4, <1>5 DEF News

(* What is published goes to the end: a manager hears last of a broker     *)
(* what it was told now, or what it heard before.                          *)
LEMMA PublishTells ==
  ASSUME Shapes, NEW told \in Seq(News), Publish(told), mgr' = mgr, NEW p \in Managers, NEW c,
         WillBeConnected(p, c)'
  PROVE  \/ WillBeConnected(p, c) /\ \A j \in DOMAIN told : told[j].of # c
         \/ \E j \in DOMAIN told : told[j] = Heartbeat(c)
<1> DEFINE s == news[p]
<1>1. s \in Seq(News) /\ news'[p] = s \o told
  BY DEF Publish, Shapes
<1>2. /\ DOMAIN s = 1 .. Len(s) /\ DOMAIN told = 1 .. Len(told) /\ Len(s) \in Nat /\ Len(told) \in Nat
      /\ DOMAIN (s \o told) = 1 .. Len(s) + Len(told)
      /\ \A i \in 1 .. Len(s) : (s \o told)[i] = s[i]
      /\ \A i \in 1 .. Len(told) : (s \o told)[Len(s) + i] = told[i]
  BY <1>1
<1>3. CASE c \in Connected(mgr[p]) /\ \A i \in DOMAIN (s \o told) : (s \o told)[i].of # c
  <2>1. \A i \in DOMAIN s : s[i].of # c
    BY <1>2, <1>3
  <2>2. \A j \in DOMAIN told : told[j].of # c
    <3> SUFFICES ASSUME NEW j \in 1 .. Len(told) PROVE told[j].of # c
      BY <1>2
    <3>1. Len(s) + j \in DOMAIN (s \o told)
      BY <1>2
    <3>2. QED
      BY <1>2, <1>3, <3>1
  <2>3. QED
    BY <1>2, <1>3, <2>1, <2>2 DEF WillBeConnected, NoNews
<1>4. ASSUME NEW i \in DOMAIN (s \o told), (s \o told)[i] = Heartbeat(c),
             \A j \in DOMAIN (s \o told) : j > i => (s \o told)[j].of # c
      PROVE  \/ WillBeConnected(p, c) /\ \A j \in DOMAIN told : told[j].of # c
             \/ \E j \in DOMAIN told : told[j] = Heartbeat(c)
  <2>1. CASE i \in 1 .. Len(s)
    <3>1. s[i] = Heartbeat(c) /\ \A j \in DOMAIN s : j > i => s[j].of # c
      BY <1>2, <1>4, <2>1
    <3>2. \A j \in DOMAIN told : told[j].of # c
      <4> SUFFICES ASSUME NEW j \in 1 .. Len(told) PROVE told[j].of # c
        BY <1>2
      <4>1. Len(s) + j \in DOMAIN (s \o told) /\ Len(s) + j > i
        BY <1>2, <2>1
      <4>2. QED
        BY <1>2, <1>4, <4>1
    <3>3. QED
      BY <1>2, <2>1, <3>1, <3>2 DEF WillBeConnected, NoNews
  <2>2. CASE i \notin 1 .. Len(s)
    <3>1. i - Len(s) \in 1 .. Len(told) /\ i = Len(s) + (i - Len(s))
      BY <1>2, <2>2
    <3>2. told[i - Len(s)] = Heartbeat(c)
      BY <1>2, <1>4, <3>1
    <3>3. QED
      BY <1>2, <3>1, <3>2
  <2>3. QED
    BY <2>1, <2>2
<1>5. WillBeConnected(p, c)' <=>
        \/ c \in Connected(mgr[p]) /\ \A i \in DOMAIN (s \o told) : i > 0 => (s \o told)[i].of # c
        \/ \E i \in DOMAIN (s \o told) :
             (s \o told)[i] = Heartbeat(c) /\ \A j \in DOMAIN (s \o told) : j > i => (s \o told)[j].of # c
  BY <1>1 DEF WillBeConnected, NoNews
<1> HIDE DEF s
<1>6. QED
  BY <1>2, <1>3, <1>4, <1>5

-----------------------------------------------------------------------------
(* Before anything happens nobody is connected.                            *)
LEMMA InitRInv == Init => RInv
<1> SUFFICES ASSUME Init PROVE RInv
  OBVIOUS
<1>1. NewManager = [unverified |-> NewManager.unverified, verified |-> NewManager.verified,
                    pointer |-> NewManager.pointer, wait |-> NewManager.wait]
      /\ Connected(NewManager) = {}
  BY DEF NewManager, Connected
<1>2. Shapes
  BY <1>1 DEF Init, Shapes, Shaped
<1>3. NobodyForgotten
  BY <1>1 DEF Init, NobodyForgotten, WillBeConnected
<1>4. QED
  BY <1>2, <1>3 DEF RInv

(* A turn of the service, with or without a message: what it forgets it    *)
(* also publishes, and after anything else about that broker.              *)
LEMMA TurnKeeps ==
  ASSUME RInv, NEW k, DOMAIN k \subseteq Brokers, DOMAIN known \subseteq DOMAIN k,
         NEW first \in Seq(News),
         \A j \in DOMAIN first : \E b \in DOMAIN k \ Exhausted(k) : first[j] = Heartbeat(b),
         known' = Checked(k), Publish(first \o Disconnects(k)),
         UNCHANGED <<alive, mgr, asked, missed, restarts>>
  PROVE  RInv'
<1> DEFINE gone == Disconnects(k)  told == first \o gone
<1>1. /\ gone \in Seq(News)
      /\ \A i \in DOMAIN gone : \E b \in Exhausted(k) : gone[i] = Gone(b)
      /\ \A b \in Exhausted(k) : \E i \in DOMAIN gone : gone[i] = Gone(b)
  BY DisconnectsAll
<1> HIDE DEF gone
<1>2. /\ told \in Seq(News)
      /\ DOMAIN first = 1 .. Len(first) /\ DOMAIN gone = 1 .. Len(gone)
      /\ Len(first) \in Nat /\ Len(gone) \in Nat /\ DOMAIN told = 1 .. Len(first) + Len(gone)
      /\ \A j \in 1 .. Len(first) : told[j] = first[j]
      /\ \A j \in 1 .. Len(gone) : told[Len(first) + j] = gone[j]
      /\ \A j \in DOMAIN told : j \notin 1 .. Len(first) =>
           j - Len(first) \in 1 .. Len(gone) /\ told[j] = gone[j - Len(first)]
  BY <1>1
<1>3. DOMAIN known' = DOMAIN k \ Exhausted(k)
  BY DEF Checked
<1>4. Publish(told)
  BY DEF gone
<1> HIDE DEF told
<1>5. Shapes'
  <2>1. news' = [p \in Managers |-> news[p] \o told]
    BY <1>4 DEF Publish
  <2>2. \A p \in Managers : news[p] \o told \in Seq(News)
    BY <1>2 DEF RInv, Shapes
  <2>3. news' \in [Managers -> Seq(News)]
    BY <2>1, <2>2
  <2>4. QED
    BY <1>3, <2>3 DEF RInv, Shapes
<1>6. NobodyForgotten'
  <2> SUFFICES ASSUME restarts = 0, missed = 0, NEW p \in Managers, NEW c \in Brokers,
                      WillBeConnected(p, c)'
               PROVE  c \in DOMAIN known'
    BY DEF NobodyForgotten
  <2>1. \/ WillBeConnected(p, c) /\ \A j \in DOMAIN told : told[j].of # c
        \/ \E j \in DOMAIN told : told[j] = Heartbeat(c)
    BY <1>2, <1>4, PublishTells DEF RInv
  <2>2. CASE WillBeConnected(p, c) /\ \A j \in DOMAIN told : told[j].of # c
    <3>1. c \in DOMAIN k
      BY <2>2 DEF RInv, NobodyForgotten
    <3>2. ASSUME c \in Exhausted(k) PROVE FALSE
      <4>1. PICK i \in 1 .. Len(gone) : gone[i] = Gone(c)
        BY <1>1, <1>2, <3>2
      <4>2. told[Len(first) + i] = Gone(c) /\ Len(first) + i \in DOMAIN told
        BY <1>2, <4>1
      <4>3. QED
        BY <2>2, <4>2, NewsKinds
    <3>3. QED
      BY <1>3, <3>1, <3>2
  <2>3. ASSUME NEW j \in DOMAIN told, told[j] = Heartbeat(c) PROVE c \in DOMAIN known'
    <3>1. CASE j \in 1 .. Len(first)
      <4>1. PICK b \in DOMAIN k \ Exhausted(k) : first[j] = Heartbeat(b)
        BY <1>2, <3>1
      <4>2. b = c
        BY <1>2, <2>3, <3>1, <4>1, NewsKinds
      <4>3. QED
        BY <1>3, <4>1, <4>2
    <3>2. CASE j \notin 1 .. Len(first)
      BY <1>1, <1>2, <2>3, <3>2, NewsKinds
    <3>3. QED
      BY <3>1, <3>2
  <2>4. QED
    BY <2>1, <2>2, <2>3
<1>7. QED
  BY <1>5, <1>6 DEF RInv

(* A heartbeat that arrives enters its broker, which is not removed then.  *)
LEMMA ReceiveKeeps == ASSUME RInv, NEW b \in Brokers, Receive(b) PROVE RInv'
<1> DEFINE k == Refreshed(b)  first == <<Heartbeat(b)>>
<1>1. DOMAIN k = DOMAIN known \cup {b} /\ b \notin Exhausted(k) /\ DOMAIN known \subseteq Brokers
  BY DEF Refreshed, Exhausted, RInv, Shapes
<1>2. first \in Seq(News) /\ DOMAIN first = {1} /\ first[1] = Heartbeat(b)
  BY DEF News
<1>3. known' = Checked(k) /\ Publish(first \o Disconnects(k))
      /\ UNCHANGED <<alive, mgr, asked, missed, restarts>>
  BY DEF Receive
<1> HIDE DEF k, first
<1>4. QED
  BY <1>1, <1>2, <1>3, TurnKeeps

(* A turn without a message only removes.                                  *)
LEMMA IdleKeeps == ASSUME RInv, Idle PROVE RInv'
<1>1. <<>> \in Seq(News) /\ DOMAIN <<>> = {} /\ DOMAIN known \subseteq Brokers
  BY DEF RInv, Shapes
<1>2. Disconnects(known) \in Seq(News)
  BY <1>1, DisconnectsAll
<1>3. <<>> \o Disconnects(known) = Disconnects(known)
  BY <1>2
<1>4. QED
  BY <1>1, <1>3, TurnKeeps DEF Idle

(* An update is taken from the front, and does what it says.               *)
LEMMA UpdateKeeps == ASSUME RInv, NEW p \in Managers, ProcessUpdate(p) PROVE RInv'
<1> DEFINE s == news[p]  x == Head(s)
<1>1. /\ s \in Seq(News) /\ s # <<>> /\ x \in News
      /\ Len(s) \in Nat \ {0} /\ DOMAIN s = 1 .. Len(s)
      /\ DOMAIN Tail(s) = 1 .. Len(s) - 1 /\ x = s[1]
      /\ \A i \in 1 .. Len(s) - 1 : Tail(s)[i] = s[i + 1]
      /\ Tail(s) \in Seq(News)
  BY DEF ProcessUpdate, RInv, Shapes
<1>2. /\ mgr' = [mgr EXCEPT ![p] = Update(mgr[p], x)]
      /\ news' = [news EXCEPT ![p] = Tail(s)]
      /\ asked' \subseteq asked
      /\ UNCHANGED <<alive, known, missed, restarts>>
  BY DEF ProcessUpdate
<1>3. Shaped(mgr[p]) /\ x.of \in Brokers
  BY <1>1, NewsKinds DEF RInv, Shapes
<1>4. /\ Shaped(Update(mgr[p], x))
      /\ x = Heartbeat(x.of) => Connected(Update(mgr[p], x)) = Connected(mgr[p]) \cup {x.of}
      /\ x = Gone(x.of) => Connected(Update(mgr[p], x)) = Connected(mgr[p]) \ {x.of}
      /\ x = Heartbeat(x.of) \/ x = Gone(x.of)
  <2>1. CASE x = Heartbeat(x.of)
    <3>1. Update(mgr[p], x) = Connect(mgr[p], x.of)
      BY <2>1, NewsKinds DEF Update
    <3>2. x # Gone(x.of)
      BY <2>1, NewsKinds
    <3>3. QED
      BY <1>3, <2>1, <3>1, <3>2, ConnectAdds
  <2>2. CASE x = Gone(x.of)
    <3>1. Update(mgr[p], x) = Disconnect(mgr[p], x.of)
      BY <2>2, NewsKinds DEF Update
    <3>2. x # Heartbeat(x.of)
      BY <2>2, NewsKinds
    <3>3. QED
      BY <1>3, <2>2, <3>1, <3>2, DisconnectRemoves
  <2>3. QED
    BY <1>1, <2>1, <2>2, NewsKinds
<1> HIDE DEF x
<1>5. /\ mgr'[p] = Update(mgr[p], x) /\ news'[p] = Tail(s)
      /\ mgr' = [q \in Managers |-> mgr'[q]]
      /\ \A q \in Managers \ {p} : mgr'[q] = mgr[q] /\ news'[q] = news[q]
  BY <1>2 DEF RInv, Shapes
<1>6. Shapes'
  <2>1. \A q \in Managers : Shaped(mgr'[q]) /\ Connected(mgr'[q]) \subseteq Brokers
    BY <1>3, <1>4, <1>5 DEF RInv, Shapes
  <2>2. news' \in [Managers -> Seq(News)]
    BY <1>1, <1>2 DEF RInv, Shapes
  <2>3. QED
    BY <1>2, <1>5, <2>1, <2>2 DEF RInv, Shapes, Shaped
<1>7. ASSUME NEW q \in Managers, NEW c \in Brokers, WillBeConnected(q, c)' PROVE WillBeConnected(q, c)
  <2>1. CASE q # p
    BY <1>5, <1>7, <2>1 DEF WillBeConnected, NoNews
  <2>2. CASE q = p
    <3>1. CASE c \in Connected(mgr'[p]) /\ \A i \in 1 .. Len(s) - 1 : Tail(s)[i].of # c
      <4>1. \A i \in DOMAIN s : i > 1 => s[i].of # c
        <5> SUFFICES ASSUME NEW i \in 1 .. Len(s), i > 1 PROVE s[i].of # c
          BY <1>1
        <5>1. i - 1 \in 1 .. Len(s) - 1 /\ s[i] = Tail(s)[i - 1]
          BY <1>1
        <5>2. QED
          BY <3>1, <5>1
      <4>2. CASE x.of = c
        <5>1. x = Heartbeat(c)
          BY <1>4, <1>5, <3>1, <4>2
        <5>2. 1 \in DOMAIN s /\ s[1] = Heartbeat(c)
          BY <1>1, <5>1
        <5>3. QED
          BY <2>2, <4>1, <5>2 DEF WillBeConnected, NoNews
      <4>3. CASE x.of # c
        <5>1. c \in Connected(mgr[p])
          BY <1>4, <1>5, <3>1, <4>3
        <5>2. \A i \in DOMAIN s : s[i].of # c
          BY <1>1, <4>1, <4>3
        <5>3. QED
          BY <2>2, <5>1, <5>2 DEF WillBeConnected, NoNews
      <4>4. QED
        BY <4>2, <4>3
    <3>2. ASSUME NEW i \in 1 .. Len(s) - 1, Tail(s)[i] = Heartbeat(c),
                 \A j \in 1 .. Len(s) - 1 : j > i => Tail(s)[j].of # c
          PROVE  WillBeConnected(q, c)
      <4>1. i + 1 \in DOMAIN s /\ s[i + 1] = Heartbeat(c)
        BY <1>1, <3>2
      <4>2. \A j \in DOMAIN s : j > i + 1 => s[j].of # c
        <5> SUFFICES ASSUME NEW j \in 1 .. Len(s), j > i + 1 PROVE s[j].of # c
          BY <1>1
        <5>1. j - 1 \in 1 .. Len(s) - 1 /\ j - 1 > i /\ s[j] = Tail(s)[j - 1]
          BY <1>1
        <5>2. QED
          BY <3>2, <5>1
      <4>3. QED
        BY <2>2, <4>1, <4>2 DEF WillBeConnected, NoNews
    <3>3. WillBeConnected(p, c)' <=>
            \/ c \in Connected(mgr'[p]) /\ \A i \in 1 .. Len(s) - 1 : i > 0 => Tail(s)[i].of # c
            \/ \E i \in 1 .. Len(s) - 1 :
                 Tail(s)[i] = Heartbeat(c) /\ \A j \in 1 .. Len(s) - 1 : j > i => Tail(s)[j].of # c
      BY <1>1, <1>5 DEF WillBeConnected, NoNews, Connected
    <3>4. QED
      BY <1>7, <2>2, <3>1, <3>2, <3>3
  <2>3. QED
    BY <2>1, <2>2
<1>8. NobodyForgotten'
  BY <1>2, <1>7 DEF RInv, NobodyForgotten
<1>9. QED
  BY <1>6, <1>8 DEF RInv

(* Verification only moves or takes away brokers of a manager.             *)
LEMMA ManagerKeeps ==
  ASSUME RInv, NEW p \in Managers, NEW m, Shaped(m), Connected(m) \subseteq Connected(mgr[p]),
         mgr' = [mgr EXCEPT ![p] = m], asked' \subseteq Managers \X Brokers,
         UNCHANGED <<alive, known, news, missed, restarts>>
  PROVE  RInv'
<1>1. /\ mgr'[p] = m /\ mgr' = [q \in Managers |-> mgr'[q]]
      /\ \A q \in Managers \ {p} : mgr'[q] = mgr[q]
  BY DEF RInv, Shapes
<1>2. \A q \in Managers : Connected(mgr'[q]) \subseteq Connected(mgr[q]) /\ Shaped(mgr'[q])
  BY <1>1 DEF RInv, Shapes
<1>3. Shapes'
  BY <1>1, <1>2 DEF RInv, Shapes, Shaped, Connected
<1>4. ASSUME NEW q \in Managers, NEW c \in Brokers, WillBeConnected(q, c)' PROVE WillBeConnected(q, c)
  <2>1. c \in Connected(mgr'[q]) => c \in Connected(mgr[q])
    BY <1>2
  <2>2. Connected(mgr[q])' = Connected(mgr'[q])
    BY DEF Connected
  <2>3. QED
    BY <1>4, <2>1, <2>2 DEF WillBeConnected, NoNews
<1>5. NobodyForgotten'
  BY <1>4 DEF RInv, NobodyForgotten
<1>6. QED
  BY <1>3, <1>5 DEF RInv

(* Asking keeps the invariant ...                                          *)
LEMMA VerifyBrokersKeeps == ASSUME RInv, NEW p \in Managers, VerifyBrokers(p) PROVE RInv'
<1>1. Shaped(mgr[p]) /\ Connected(mgr[p]) \subseteq Brokers
  BY DEF RInv, Shapes
<1>2. Shaped(AfterRequests(mgr[p])) /\ Connected(AfterRequests(mgr[p])) \subseteq Connected(mgr[p])
  BY <1>1, RequestsKeep
<1>3. Asked(mgr[p]) \subseteq Brokers
  BY <1>1 DEF Asked, Connected
<1>4. asked' \subseteq Managers \X Brokers
  BY <1>3 DEF VerifyBrokers, RInv, Shapes
<1>5. QED
  BY <1>2, <1>4, ManagerKeeps DEF VerifyBrokers

(* ... and so does an answer.                                              *)
LEMMA AnswerKeeps == ASSUME RInv, NEW p \in Managers, NEW b \in Brokers, Answer(p, b) PROVE RInv'
<1>1. Shaped(mgr[p]) /\ asked' \subseteq Managers \X Brokers
  BY DEF Answer, RInv, Shapes
<1>2. Shaped(Verify(mgr[p], b)) /\ Connected(Verify(mgr[p], b)) = Connected(mgr[p])
  BY <1>1, VerifyMoves
<1>3. QED
  BY <1>1, <1>2, ManagerKeeps DEF Answer

(* The other steps change neither managers nor news nor whom the service   *)
(* knows.                                                                  *)
LEMMA RestKeeps ==
  ASSUME RInv, UNCHANGED <<news, mgr, missed, restarts>>, DOMAIN known' = DOMAIN known,
         alive' \subseteq alive, asked' \subseteq asked
  PROVE  RInv'
<1>1. Shapes'
  BY DEF RInv, Shapes, Shaped, Connected
<1>2. NobodyForgotten'
  BY DEF RInv, NobodyForgotten, WillBeConnected, NoNews, Connected
<1>3. QED
  BY <1>1, <1>2 DEF RInv

(* News that are missed, and a restart, are counted.                       *)
LEMMA LossKeeps ==
  ASSUME RInv, RestartService \/ \E p \in Managers : MissUpdate(p) PROVE RInv'
<1>1. CASE RestartService
  <2>1. Shapes'
    BY <1>1 DEF RestartService, RInv, Shapes, Shaped, Connected
  <2>2. NobodyForgotten'
    BY <1>1 DEF RestartService, RInv, Shapes, NobodyForgotten
  <2>3. QED
    BY <2>1, <2>2 DEF RInv
<1>2. ASSUME NEW p \in Managers, MissUpdate(p) PROVE RInv'
  <2>1. news' \in [Managers -> Seq(News)]
    BY <1>2 DEF MissUpdate, RInv, Shapes
  <2>2. Shapes'
    BY <1>2, <2>1 DEF MissUpdate, RInv, Shapes, Shaped, Connected
  <2>3. NobodyForgotten'
    BY <1>2 DEF MissUpdate, RInv, Shapes, NobodyForgotten
  <2>4. QED
    BY <2>2, <2>3 DEF RInv
<1>3. QED
  BY <1>1, <1>2

(* Every step keeps the invariant.                                         *)
LEMMA StepRInv == ASSUME RInv, [Next]_vars PROVE RInv'
<1>1. CASE UNCHANGED vars
  BY <1>1, RestKeeps DEF vars
<1>2. ASSUME NEW b \in Brokers, Register(b) \/ Expire(b) \/ EndBroker(b) PROVE RInv'
  <2>1. CASE Register(b)
    BY <2>1, RestKeeps DEF Register
  <2>2. CASE Expire(b)
    BY <2>2, RestKeeps DEF Expire
  <2>3. CASE EndBroker(b)
    BY <2>3, RestKeeps DEF EndBroker
  <2>4. QED
    BY <1>2, <2>1, <2>2, <2>3
<1>3. ASSUME NEW p \in Managers, NEW b \in Brokers, LoseAnswer(p, b) PROVE RInv'
  BY <1>3, RestKeeps DEF LoseAnswer
<1>4. QED
  BY <1>1, <1>2, <1>3, ReceiveKeeps, IdleKeeps, UpdateKeeps, VerifyBrokersKeeps, AnswerKeeps, LossKeeps DEF Next

(* While no news are missed and the service is not restarted, it knows     *)
(* every broker that a manager is connected to or is about to be.          *)
THEOREM ServiceRemembers == Spec => []NobodyForgotten
<1>1. RInv => NobodyForgotten
  BY DEF RInv
<1>2. QED
  BY <1>1, InitRInv, StepRInv, PTL DEF Spec

-----------------------------------------------------------------------------
(* Types need one thing more than their parts: a manager waits for answers *)
(* only of brokers it is connected to.                                     *)
Entry == [liveness : 1 .. MaxLiveness, late : BOOLEAN]

KnownTyped == \A b \in DOMAIN known : known[b] \in Entry

ManagersTyped == \A p \in Managers : Typed(mgr[p])

AskedConnected == \A p \in Managers, b \in Brokers : <<p, b>> \in asked => b \in Connected(mgr[p])

TInv ==
  /\ Shapes
  /\ beats \in [Brokers -> 0 .. MaxBeats]
  /\ KnownTyped
  /\ ManagersTyped
  /\ AskedConnected

(* Nobody has asked yet, and the managers are new.                         *)
LEMMA InitTInv == Init => TInv
<1> SUFFICES ASSUME Init PROVE TInv
  OBVIOUS
<1>1. Shapes
  BY InitRInv DEF RInv
<1>2. /\ beats \in [Brokers -> 0 .. MaxBeats] /\ KnownTyped /\ AskedConnected
  BY RegistrationAssumption DEF Init, KnownTyped, AskedConnected
<1>3. Typed(NewManager)
  <2>1. Cardinality(Brokers) \in Nat
    BY FS_CardinalityType, RegistrationAssumption
  <2>2. QED
    BY <2>1, ManagerAssumption DEF NewManager, Typed, Shaped
<1>4. ManagersTyped
  BY <1>3 DEF Init, ManagersTyped
<1>5. QED
  BY <1>1, <1>2, <1>4 DEF TInv

(* What the check of the service leaves has liveness left.                 *)
LEMMA CheckedTyped ==
  ASSUME NEW k, \A b \in DOMAIN k : k[b] \in Entry
  PROVE  \A b \in DOMAIN Checked(k) : Checked(k)[b] \in Entry
<1> SUFFICES ASSUME NEW b \in DOMAIN k \ Exhausted(k) PROVE CheckedOne(k[b]) \in Entry
  BY DEF Checked
<1>1. k[b] \in Entry /\ (k[b].late => k[b].liveness # 1)
  BY DEF Exhausted
<1>2. QED
  BY <1>1, RegistrationAssumption DEF CheckedOne, Entry

(* A turn of the service.                                                  *)
LEMMA TurnTypes ==
  ASSUME TInv, (\E b \in Brokers : Receive(b)) \/ Idle
  PROVE  KnownTyped' /\ beats' \in [Brokers -> 0 .. MaxBeats] /\ UNCHANGED <<mgr, asked>>
<1>1. ASSUME NEW b \in Brokers, Receive(b) PROVE KnownTyped' /\ beats' \in [Brokers -> 0 .. MaxBeats]
  <2>1. \A x \in DOMAIN Refreshed(b) : Refreshed(b)[x] \in Entry
    BY RegistrationAssumption DEF Refreshed, Entry, TInv, KnownTyped
  <2>2. known' = Checked(Refreshed(b)) /\ beats' = [beats EXCEPT ![b] = @ - 1] /\ beats[b] > 0
    BY <1>1 DEF Receive
  <2>3. KnownTyped'
    BY <2>1, <2>2, CheckedTyped DEF KnownTyped
  <2>4. QED
    BY <2>2, <2>3, RegistrationAssumption DEF TInv
<1>2. CASE Idle
  BY <1>2, CheckedTyped DEF Idle, TInv, KnownTyped
<1>3. QED
  BY <1>1, <1>2 DEF Receive, Idle

(* A step that changes one manager, and asks only brokers it keeps.        *)
LEMMA ManagerTypes ==
  ASSUME TInv, NEW p \in Managers, NEW m, Typed(m), mgr' = [mgr EXCEPT ![p] = m],
         \A q \in Managers \ {p}, b \in Brokers : <<q, b>> \in asked' => <<q, b>> \in asked,
         \A b \in Brokers : <<p, b>> \in asked' => b \in Connected(m)
  PROVE  ManagersTyped' /\ AskedConnected'
<1>1. mgr'[p] = m /\ \A q \in Managers \ {p} : mgr'[q] = mgr[q]
  BY DEF TInv, Shapes
<1>2. \A q \in Managers : Typed(mgr'[q])
  BY <1>1 DEF TInv, ManagersTyped
<1>3. ManagersTyped'
  BY <1>2 DEF ManagersTyped, Typed, Shaped, Connector
<1>4. ASSUME NEW q \in Managers, NEW b \in Brokers, <<q, b>> \in asked' PROVE b \in Connected(mgr'[q])
  BY <1>1, <1>4 DEF TInv, AskedConnected
<1>5. QED
  BY <1>3, <1>4 DEF AskedConnected, Connected

(* News disconnect or connect a manager; it forgets what it had asked.     *)
LEMMA UpdateTypes ==
  ASSUME TInv, NEW p \in Managers, ProcessUpdate(p)
  PROVE  ManagersTyped' /\ AskedConnected'
<1> DEFINE x == Head(news[p])  m == Update(mgr[p], x)
<1>1. x \in News /\ Typed(mgr[p]) /\ Shaped(mgr[p])
  BY DEF ProcessUpdate, TInv, Shapes, ManagersTyped
<1>2. Typed(m)
  BY <1>1, NewsKinds, ConnectAdds, DisconnectRemoves DEF Update
<1>3. /\ mgr' = [mgr EXCEPT ![p] = m] /\ mgr'[p] = m
      /\ asked' = asked \ {<<p, b>> : b \in Brokers \ Connected(mgr'[p])}
  BY DEF ProcessUpdate, TInv, Shapes
<1> HIDE DEF m
<1>4. \A b \in Brokers : <<p, b>> \in asked' => b \in Connected(m)
  BY <1>3
<1>5. QED
  BY <1>2, <1>3, <1>4, ManagerTypes

(* Verification requests are for brokers that stay connected.              *)
LEMMA RequestTypes ==
  ASSUME TInv, NEW p \in Managers, VerifyBrokers(p)
  PROVE  ManagersTyped' /\ AskedConnected'
<1> DEFINE m == AfterRequests(mgr[p])
<1>1. Typed(mgr[p]) /\ Shaped(mgr[p])
  BY DEF TInv, Shapes, ManagersTyped
<1>2. Typed(m) /\ Connected(mgr[p]) \ Hopeless(mgr[p]) \subseteq Connected(m)
  BY <1>1, RequestsKeep
<1>3. /\ Asked(mgr[p]) \subseteq Connected(mgr[p]) \ Hopeless(mgr[p])
      /\ Hopeless(mgr[p]) \subseteq Spent(mgr[p])
  BY DEF Asked, Hopeless, Connected
<1>4. mgr' = [mgr EXCEPT ![p] = m]
  BY DEF VerifyBrokers
<1> HIDE DEF m
<1>5. PICK kept \in SUBSET (Spent(mgr[p]) \ Hopeless(mgr[p])) :
        asked' = (asked \ {<<p, b>> : b \in Spent(mgr[p]) \ kept})
                   \cup {<<p, b>> : b \in Asked(mgr[p]) \cap alive}
  BY DEF VerifyBrokers
<1>6. ASSUME NEW b \in Brokers, <<p, b>> \in asked' PROVE b \in Connected(m)
  <2>1. b \in Asked(mgr[p]) \/ (<<p, b>> \in asked /\ b \notin Hopeless(mgr[p]))
    BY <1>3, <1>5, <1>6
  <2>2. QED
    BY <1>2, <1>3, <2>1 DEF TInv, AskedConnected
<1>7. QED
  BY <1>2, <1>4, <1>5, <1>6, ManagerTypes

(* An answer is no longer waited for.                                      *)
LEMMA AnswerTypes ==
  ASSUME TInv, NEW p \in Managers, NEW b \in Brokers, Answer(p, b)
  PROVE  ManagersTyped' /\ AskedConnected'
<1>1. Typed(mgr[p]) /\ Shaped(mgr[p])
  BY DEF TInv, Shapes, ManagersTyped
<1>2. Typed(Verify(mgr[p], b)) /\ Connected(Verify(mgr[p], b)) = Connected(mgr[p])
  BY <1>1, VerifyMoves
<1>3. QED
  BY <1>2, ManagerTypes DEF Answer, TInv, AskedConnected

(* Steps that leave the managers alone and do not ask.                     *)
LEMMA RestTypes ==
  ASSUME TInv, UNCHANGED mgr, asked' \subseteq asked
  PROVE  ManagersTyped' /\ AskedConnected'
<1>1. ManagersTyped'
  BY DEF TInv, ManagersTyped, Typed, Shaped, Connector
<1>2. AskedConnected'
  BY DEF TInv, AskedConnected, Connected
<1>3. QED
  BY <1>1, <1>2

(* Every step keeps the types.                                             *)
LEMMA StepTInv == ASSUME RInv, TInv, [Next]_vars PROVE TInv'
<1>1. Shapes'
  BY StepRInv DEF RInv
<1>2. beats' \in [Brokers -> 0 .. MaxBeats] /\ KnownTyped'
  <2>1. CASE UNCHANGED <<beats, known>>
    BY <2>1 DEF TInv, KnownTyped
  <2>2. ASSUME NEW b \in Brokers, Register(b) PROVE beats' \in [Brokers -> 0 .. MaxBeats] /\ KnownTyped'
    BY <2>2, RegistrationAssumption DEF Register, TInv, KnownTyped
  <2>3. ASSUME NEW b \in Brokers, Expire(b) PROVE beats' \in [Brokers -> 0 .. MaxBeats] /\ KnownTyped'
    <3>1. /\ DOMAIN known' = DOMAIN known /\ known'[b] = [known[b] EXCEPT !.late = TRUE]
          /\ \A c \in DOMAIN known \ {b} : known'[c] = known[c]
      BY <2>3 DEF Expire
    <3>2. known'[b] \in Entry
      BY <2>3, <3>1 DEF Expire, Entry, TInv, KnownTyped
    <3>3. QED
      BY <2>3, <3>1, <3>2 DEF Expire, TInv, KnownTyped
  <2>4. ASSUME NEW b \in Brokers, EndBroker(b) PROVE beats' \in [Brokers -> 0 .. MaxBeats] /\ KnownTyped'
    <3>1. PICK n \in 0 .. beats[b] : beats' = [beats EXCEPT ![b] = n]
      BY <2>4 DEF EndBroker
    <3>2. n \in 0 .. MaxBeats
      BY RegistrationAssumption DEF TInv
    <3>3. QED
      BY <2>4, <3>1, <3>2 DEF EndBroker, TInv, KnownTyped
  <2>5. CASE RestartService
    BY <2>5 DEF RestartService, TInv, KnownTyped
  <2>6. QED
    BY <2>1, <2>2, <2>3, <2>4, <2>5, TurnTypes
    DEF Next, vars, ProcessUpdate, MissUpdate, VerifyBrokers, Answer, LoseAnswer
<1>3. ManagersTyped' /\ AskedConnected'
  <2>1. CASE UNCHANGED vars \/ Idle \/ RestartService \/ \E p \in Managers : MissUpdate(p)
    BY <2>1, RestTypes DEF vars, Idle, RestartService, MissUpdate
  <2>2. ASSUME NEW b \in Brokers, Register(b) \/ Receive(b) \/ Expire(b) PROVE UNCHANGED <<mgr, asked>>
    BY <2>2 DEF Register, Receive, Expire
  <2>3. ASSUME NEW b \in Brokers, EndBroker(b) PROVE UNCHANGED mgr /\ asked' \subseteq asked
    BY <2>3 DEF EndBroker
  <2>4. ASSUME NEW p \in Managers, NEW b \in Brokers, LoseAnswer(p, b)
        PROVE  UNCHANGED mgr /\ asked' \subseteq asked
    BY <2>4 DEF LoseAnswer
  <2>5. QED
    BY <2>1, <2>2, <2>3, <2>4, RestTypes, UpdateTypes, RequestTypes, AnswerTypes DEF Next
<1>4. QED
  BY <1>1, <1>2, <1>3 DEF TInv

(* Managers keep the type of theirs: attempts and reconnects stay within   *)
(* their limits, a broker is verified or waits for its answer and not      *)
(* both, and nobody waits for the answer of a broker it is not connected   *)
(* to.                                                                     *)
THEOREM RegistrationTypeCorrect == Spec => []TypeOK
<1>1. ASSUME TInv PROVE TypeOK
  <2>1. \A p \in Managers : mgr[p] \in ManagerType(Brokers)
    <3> SUFFICES ASSUME NEW p \in Managers, NEW m, m = mgr[p] PROVE m \in ManagerType(Brokers)
      OBVIOUS
    <3>1. Typed(m)
      BY <1>1 DEF TInv, ManagersTyped
    <3>2. m.unverified \in [DOMAIN m.unverified -> [tries : 0 .. Attempts, reconnects : 1 .. Reconnects]]
      BY <3>1 DEF Typed, Connector
    <3>3. m.unverified \in UNION {[S -> [tries : 0 .. Attempts, reconnects : 1 .. Reconnects]] : S \in SUBSET Brokers}
      BY <3>1, <3>2 DEF Typed
    <3>4. QED
      BY <3>1, <3>3 DEF Typed, Shaped, ManagerType
  <2>2. \A x \in News : x \in [command : {"heartbeat", "disconnect"}, of : Brokers]
    BY DEF News, Heartbeat, Gone
  <2>3. \A p \in Managers : ToSet(news[p]) \subseteq [command : {"heartbeat", "disconnect"}, of : Brokers]
    BY <1>1, <2>2 DEF TInv, Shapes, ToSet
  <2>4. QED
    BY <1>1, <2>1, <2>3
    DEF TInv, TypeOK, Shapes, KnownTyped, Entry, ManagersTyped, Typed, AskedConnected
<1>2. QED
  BY <1>1, InitRInv, StepRInv, InitTInv, StepTInv, PTL DEF Spec
=============================================================================
