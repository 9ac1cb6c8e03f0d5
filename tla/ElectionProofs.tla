--------------------------- MODULE ElectionProofs ---------------------------
(***************************************************************************)
(* Proofs about Election for every finite set of nodes, burn-in, expiry    *)
(* and number of faults.                                                   *)
(*                                                                         *)
(* AtMostOneMaster speaks of masters. What makes it inductive speaks of    *)
(* any two nodes that run, burned in or not: a node that does not count    *)
(* another among its peers has not heard of it for an expiry, or for as    *)
(* long as one of the two has run.                                         *)
(***************************************************************************)
EXTENDS Election, FiniteSetTheorems, TLAPS

(* The intervals of its burn-in that a node has run, at most all.          *)
Elapsed(n) == IF burn[n] = 0 THEN BurnIn ELSE BurnIn + 1 - burn[n]

Unstarted == \A n \in Nodes \ started : burn[n] = BurnIn + 1

Unheard ==
  \A n, m \in up :
    n # m /\ m \notin peers[n] =>
      age[n][m] >= Expiry \/ age[n][m] >= Elapsed(n) \/ age[n][m] >= Elapsed(m)

IInv == TypeOK /\ Unstarted /\ Unheard

(* Ages are counted far enough to tell a burn-in and an expiry.            *)
LEMMA MaxAgeEnough == MaxAge \in Nat /\ MaxAge >= BurnIn /\ MaxAge >= Expiry
BY ElectionAssumption DEF MaxAge

(* No set of nodes has so many members that they could not be counted.     *)
LEMMA NodesCounted == ASSUME NEW S, S \subseteq Nodes PROVE Cardinality(S) \in Nat
BY ElectionAssumption, FS_Subset, FS_CardinalityType

-----------------------------------------------------------------------------
(* Nobody has been started.                                                *)
LEMMA InitIInv == Init => IInv
<1> SUFFICES ASSUME Init PROVE IInv
  OBVIOUS
<1>1. TypeOK
  BY ElectionAssumption, MaxAgeEnough DEF Init, TypeOK
<1>2. Unstarted /\ Unheard
  BY DEF Init, Unstarted, Unheard
<1>3. QED
  BY <1>1, <1>2 DEF IInv

(* A node that starts has run for no interval, and its ages count from it. *)
LEMMA StartKeeps == ASSUME IInv, NEW n \in Nodes, Start(n) PROVE IInv'
<1> USE DEF IInv
<1>1. TypeOK'
  BY MaxAgeEnough DEF Start, TypeOK, Determine
<1>2. Unstarted'
  BY DEF Start, Unstarted
<1>3. Unheard'
  <2> SUFFICES ASSUME NEW k \in up', NEW m \in up', k # m, m \notin peers'[k]
               PROVE  \/ age'[k][m] >= Expiry
                      \/ age'[k][m] >= Elapsed(k)'
                      \/ age'[k][m] >= Elapsed(m)'
    BY DEF Unheard
  <2>1. burn' = burn /\ peers' = peers /\ k \in Nodes /\ m \in Nodes
    BY DEF Start, TypeOK
  <2>2. CASE n \in {k, m}
    <3>1. age'[k][m] = 0
      BY <2>1, <2>2 DEF Start
    <3>2. burn[n] = BurnIn + 1
      BY DEF Start, Unstarted
    <3>3. Elapsed(n)' = 0
      BY <2>1, <3>2, ElectionAssumption DEF Elapsed
    <3>4. QED
      BY <2>2, <3>1, <3>3
  <2>3. CASE n \notin {k, m}
    <3>1. age'[k][m] = age[k][m] /\ k \in up /\ m \in up
      BY <2>1, <2>3 DEF Start, TypeOK
    <3>2. QED
      BY <2>1, <3>1 DEF Unheard, Elapsed
  <2>4. QED
    BY <2>2, <2>3
<1>4. QED
  BY <1>1, <1>2, <1>3

(* A turn reads and reaps: a peer that is heard is not reaped, and one     *)
(* that is reaped has not been heard for an expiry.                        *)
LEMMA TurnKeeps ==
  ASSUME IInv, NEW n \in Nodes, NEW read \in SUBSET inbox[n], Turn(n, read) PROVE IInv'
<1> USE DEF IInv
<1> PICK gone \in Reapable(peers[n] \cup read, age'[n]) :
      /\ peers' = [peers EXCEPT ![n] = (peers[n] \cup read) \ gone]
      /\ master' = [master EXCEPT ![n] = Determine(n, (peers[n] \cup read) \ gone)]
  BY DEF Turn
<1>1. age' = [age EXCEPT ![n] = [m \in Nodes |-> IF m \in read THEN 0 ELSE age[n][m]]]
  BY DEF Turn
<1>2. UNCHANGED <<started, up, pinging, burn, due, faults, deaths>> /\ n \in up
  BY DEF Turn
<1>3. read \subseteq Nodes
  BY DEF TypeOK
<1>4. age' \in [Nodes -> [Nodes -> 0 .. MaxAge]]
  BY <1>1, MaxAgeEnough DEF TypeOK
<1>5. \A m \in gone : age'[n][m] >= Expiry /\ m \in peers[n] \cup read
  BY DEF Reapable
<1>6. TypeOK'
  <2>1. peers' \in [Nodes -> SUBSET Nodes]
    BY <1>3 DEF TypeOK
  <2>2. master' \in [Nodes -> BOOLEAN]
    BY DEF TypeOK, Determine
  <2>3. inbox' \in [Nodes -> SUBSET Nodes] /\ turned' \subseteq Nodes
    BY DEF TypeOK, Turn
  <2>4. ASSUME NEW m \in Nodes, master'[m] PROVE m \in up /\ Determine(m, peers'[m])
    <3>1. CASE m = n
      BY <1>2, <2>4, <3>1 DEF TypeOK
    <3>2. CASE m # n
      BY <2>4, <3>2 DEF TypeOK
    <3>3. QED
      BY <3>1, <3>2
  <2>5. QED
    BY <1>2, <1>4, <2>1, <2>2, <2>3, <2>4 DEF TypeOK, Determine
<1>7. Unstarted'
  BY <1>2 DEF Unstarted
<1>8. Unheard'
  <2> SUFFICES ASSUME NEW k \in up, NEW m \in up, k # m, m \notin peers'[k]
               PROVE  \/ age'[k][m] >= Expiry
                      \/ age'[k][m] >= Elapsed(k)
                      \/ age'[k][m] >= Elapsed(m)
    BY <1>2 DEF Unheard, Elapsed
  <2>1. k \in Nodes /\ m \in Nodes
    BY DEF TypeOK
  <2>2. CASE k # n
    <3>1. peers'[k] = peers[k] /\ age'[k][m] = age[k][m]
      BY <1>1, <2>1, <2>2 DEF TypeOK
    <3>2. QED
      BY <3>1 DEF Unheard
  <2>3. CASE k = n /\ m \in gone
    BY <1>5, <2>3
  <2>4. CASE k = n /\ m \notin gone
    <3>1. m \notin peers[n] \cup read
      BY <2>1, <2>4 DEF TypeOK
    <3>2. age'[n][m] = age[n][m]
      BY <1>1, <2>1, <3>1 DEF TypeOK
    <3>3. QED
      BY <2>4, <3>1, <3>2 DEF Unheard
  <2>5. QED
    BY <2>2, <2>3, <2>4
<1>9. QED
  BY <1>6, <1>7, <1>8

(* With an interval every age and every unfinished burn-in grows by one.   *)
LEMMA TickKeeps == ASSUME IInv, NEW busy \in SUBSET up, Tick(busy) PROVE IInv'
<1> USE DEF IInv
<1>1. UNCHANGED <<started, up, pinging, peers, master, inbox, deaths>>
  BY DEF Tick
<1>2. burn' = [n \in Nodes |-> IF n \in up /\ burn[n] > 1 THEN burn[n] - 1 ELSE burn[n]]
  BY DEF Tick
<1>3. age' = [n \in Nodes |-> [m \in Nodes |->
        IF n \in up /\ m \in started \ {n} /\ age[n][m] < MaxAge THEN age[n][m] + 1 ELSE age[n][m]]]
  BY DEF Tick
<1>4. TypeOK'
  <2>1. burn' \in [Nodes -> 0 .. BurnIn + 1]
    BY <1>2, ElectionAssumption DEF TypeOK
  <2>2. age' \in [Nodes -> [Nodes -> 0 .. MaxAge]]
    BY <1>3, MaxAgeEnough DEF TypeOK
  <2>3. faults' \in 0 .. MaxFaults
    <3>1. Cardinality(busy) \in Nat
      BY NodesCounted DEF TypeOK
    <3>2. QED
      BY <3>1, ElectionAssumption DEF Tick, TypeOK
  <2>4. due' \subseteq pinging /\ turned' = {}
    BY DEF Tick
  <2>5. \A n \in Nodes : master[n] => n \in up /\ Determine(n, peers[n])'
    BY <1>1, <1>2 DEF TypeOK, Determine
  <2>6. QED
    BY <1>1, <2>1, <2>2, <2>3, <2>4, <2>5 DEF TypeOK
<1>5. Unstarted'
  BY <1>1, <1>2, ElectionAssumption DEF Unstarted, TypeOK
<1>6. Unheard'
  <2> SUFFICES ASSUME NEW n \in up, NEW m \in up, n # m, m \notin peers[n]
               PROVE  \/ age'[n][m] >= Expiry
                      \/ age'[n][m] >= Elapsed(n)'
                      \/ age'[n][m] >= Elapsed(m)'
    BY <1>1 DEF Unheard
  <2>1. n \in Nodes /\ m \in Nodes /\ m \in started
    BY DEF TypeOK
  <2>2. age[n][m] \in 0 .. MaxAge
    BY <2>1 DEF TypeOK
  <2>3. age'[n][m] = IF age[n][m] < MaxAge THEN age[n][m] + 1 ELSE age[n][m]
    BY <1>3, <2>1
  <2>4. ASSUME NEW k \in up
        PROVE /\ Elapsed(k) \in 0 .. BurnIn /\ Elapsed(k)' \in 0 .. BurnIn
              /\ Elapsed(k)' <= Elapsed(k) + 1
    <3>1. k \in Nodes /\ burn[k] \in 0 .. BurnIn + 1
      BY DEF TypeOK
    <3>2. burn'[k] = IF burn[k] > 1 THEN burn[k] - 1 ELSE burn[k]
      BY <1>2, <3>1
    <3>3. QED
      BY <3>1, <3>2, ElectionAssumption DEF Elapsed
  <2>5. CASE age[n][m] = MaxAge
    BY <2>3, <2>4, <2>5, MaxAgeEnough, ElectionAssumption
  <2>6. CASE age[n][m] < MaxAge
    <3>1. age[n][m] >= Expiry \/ age[n][m] >= Elapsed(n) \/ age[n][m] >= Elapsed(m)
      BY DEF Unheard
    <3>2. QED
      BY <2>2, <2>3, <2>4, <2>6, <3>1, ElectionAssumption
  <2>7. QED
    BY <2>2, <2>5, <2>6, MaxAgeEnough
<1>7. QED
  BY <1>4, <1>5, <1>6

(* The other steps change neither ages nor peers of nodes that run.        *)
LEMMA BurnInOverKeeps == ASSUME IInv, NEW n \in Nodes, BurnInOver(n) PROVE IInv'
<1> USE DEF IInv
<1>1. TypeOK'
  BY ElectionAssumption DEF BurnInOver, TypeOK, Determine
<1>2. Unstarted'
  BY ElectionAssumption DEF BurnInOver, Unstarted, TypeOK
<1>3. \A k \in up : Elapsed(k)' = Elapsed(k)
  BY ElectionAssumption DEF BurnInOver, Elapsed, TypeOK
<1>4. Unheard'
  BY <1>3 DEF BurnInOver, Unheard
<1>5. QED
  BY <1>1, <1>2, <1>4

(* A ping waits on the sockets it reached; clocks and masters stay.        *)
LEMMA PingKeeps == ASSUME IInv, NEW n \in Nodes, Ping(n) \/ PingFails(n) PROVE IInv'
<1> USE DEF IInv
<1>1. UNCHANGED <<started, up, burn, peers, master, age, turned>>
  BY DEF Ping, PingFails
<1>2. Unstarted' /\ Unheard'
  BY <1>1 DEF Unstarted, Unheard, Elapsed
<1>3. TypeOK'
  <2>1. due' \subseteq pinging' /\ pinging' \subseteq up
    BY DEF Ping, PingFails, TypeOK
  <2>2. inbox' \in [Nodes -> SUBSET Nodes]
    BY DEF Ping, PingFails, TypeOK
  <2>3. faults' \in 0 .. MaxFaults /\ deaths' \in 0 .. MaxDeaths
    <3>1. CASE Ping(n)
      <4>1. PICK lost \in SUBSET (up \ {n}) :
              faults + Cardinality(lost) <= MaxFaults /\ faults' = faults + Cardinality(lost)
        BY <3>1 DEF Ping
      <4>2. Cardinality(lost) \in Nat
        BY NodesCounted DEF TypeOK
      <4>3. QED
        BY <3>1, <4>1, <4>2, ElectionAssumption DEF Ping, TypeOK
    <3>2. CASE PingFails(n)
      BY <3>2, ElectionAssumption DEF PingFails, TypeOK
    <3>3. QED
      BY <3>1, <3>2
  <2>4. QED
    BY <1>1, <2>1, <2>2, <2>3 DEF TypeOK, Determine
<1>4. QED
  BY <1>2, <1>3

(* A node that crashes is no master; the clocks of the others stay.        *)
LEMMA CrashKeeps == ASSUME IInv, NEW n \in Nodes, Crash(n) PROVE IInv'
<1> USE DEF IInv
<1>1. TypeOK'
  BY ElectionAssumption DEF Crash, TypeOK, Determine
<1>2. Unstarted'
  BY DEF Crash, Unstarted
<1>3. \A k \in up' : k \in up /\ k # n /\ k \in Nodes
  BY DEF Crash, TypeOK
<1>4. UNCHANGED <<burn, age>> /\ \A k \in up' : peers'[k] = peers[k]
  BY <1>3 DEF Crash, TypeOK
<1>5. Unheard'
  BY <1>3, <1>4 DEF Unheard, Elapsed
<1>6. QED
  BY <1>1, <1>2, <1>5

(* Every step keeps the invariant.                                         *)
LEMMA StepIInv == IInv /\ [Next]_vars => IInv'
<1> SUFFICES ASSUME IInv, [Next]_vars PROVE IInv'
  OBVIOUS
<1>1. CASE \E n \in Nodes : Start(n) \/ Ping(n) \/ PingFails(n) \/ BurnInOver(n) \/ Crash(n)
  BY <1>1, StartKeeps, PingKeeps, BurnInOverKeeps, CrashKeeps
<1>2. CASE \E n \in Nodes : \E read \in {{}} \cup {{m} : m \in inbox[n]} : Turn(n, read)
  BY <1>2, TurnKeeps
<1>3. CASE \E busy \in SUBSET up : Tick(busy)
  BY <1>3, TickKeeps
<1>4. CASE UNCHANGED vars
  BY <1>4 DEF vars, IInv, TypeOK, Determine, Unstarted, Unheard, Elapsed
<1>5. QED
  BY <1>1, <1>2, <1>3, <1>4 DEF Next

(* Masters have burned in and know nobody above them.                      *)
LEMMA OneMasterOfIInv == IInv => AtMostOneMaster
<1> SUFFICES ASSUME IInv, NEW n \in Nodes, NEW m \in Nodes, n < m, master[n], master[m]
             PROVE  age[n][m] >= BurnIn \/ age[n][m] >= Expiry
  BY DEF AtMostOneMaster
<1>1. /\ n \in up /\ m \in up /\ burn[n] = 0 /\ burn[m] = 0
      /\ \A k \in peers[n] : k < n
  BY DEF IInv, TypeOK, Determine
<1>2. n # m /\ m \notin peers[n]
  BY <1>1, ElectionAssumption
<1>3. Elapsed(n) = BurnIn /\ Elapsed(m) = BurnIn
  BY <1>1 DEF Elapsed
<1>4. QED
  BY <1>1, <1>2, <1>3 DEF IInv, Unheard

-----------------------------------------------------------------------------
(* The state keeps its type: in particular a master runs, has burned in,   *)
(* and knows no peer above it.                                             *)
THEOREM ElectionTypeCorrect == Spec => []TypeOK
<1>1. IInv => TypeOK
  BY DEF IInv
<1>2. QED
  BY <1>1, InitIInv, StepIInv, PTL DEF Spec

(* Whatever pings are lost, loops busy and processes ended: two nodes are  *)
(* masters at once only when the lower has not heard of the higher for a   *)
(* whole burn-in or a whole expiry.                                        *)
THEOREM MastersNeedSilence == Spec => []AtMostOneMaster
BY InitIInv, StepIInv, OneMasterOfIInv, PTL DEF Spec
=============================================================================
