------------------------------ MODULE Election ------------------------------
(***************************************************************************)
(* UDPInterface: the UDPEventGenerators of a subnet find out which of them *)
(* is the master, the only one that generates events.                      *)
(*                                                                         *)
(* Each pings the others once per interval, takes whom it has heard for a  *)
(* peer until it expires, and is the master when it has burned in and      *)
(* knows no peer with a greater uuid. There is no agreement: datagrams get *)
(* lost, and an event loop that is busy neither sends nor reads.           *)
(*                                                                         *)
(* Time passes in intervals (Tick). In each, every node that is not busy   *)
(* sends its ping, reads what has arrived, and takes a turn of run.        *)
(***************************************************************************)
EXTENDS Integers, FiniteSets

CONSTANTS
  Nodes,       \* the uuids, as numbers
  BurnIn,      \* BURN_IN_PINGS (5)
  Expiry,      \* PEER_EXPIRY (10)
  MaxFaults,   \* bound on the pings that are lost and the intervals missed
  MaxDeaths    \* bound on the processes and ping loops that end

ASSUME ElectionAssumption ==
  /\ Nodes \subseteq Nat /\ IsFiniteSet(Nodes)
  /\ BurnIn \in Nat \ {0} /\ Expiry \in Nat \ {0}
  /\ MaxFaults \in Nat /\ MaxDeaths \in Nat

VARIABLES
  started,   \* the nodes that have been started
  up,        \* those that still run
  pinging,   \* those whose send_pings still runs
  burn,      \* intervals until the burn-in timer is over, plus 1; 0: burned in
  peers,     \* the peers each knows
  master,    \* __is_master
  age,       \* age[n][m]: intervals since n heard of m, or since one started
  inbox,     \* the nodes whose pings wait on each socket
  due,       \* the nodes that have to ping in this interval
  turned,    \* those that have had a turn of run in it
  faults, deaths

vars == <<started, up, pinging, burn, peers, master, age, inbox, due, turned, faults, deaths>>

MaxAge == IF BurnIn > Expiry THEN BurnIn ELSE Expiry + 1     \* ages are counted up to here

Init ==
  /\ started = {} /\ up = {} /\ pinging = {}
  /\ burn = [n \in Nodes |-> BurnIn + 1]
  /\ peers = [n \in Nodes |-> {}]
  /\ master = [n \in Nodes |-> FALSE]
  /\ age = [n \in Nodes |-> [m \in Nodes |-> 0]]
  /\ inbox = [n \in Nodes |-> {}]
  /\ due = {} /\ turned = {}
  /\ faults = 0 /\ deaths = 0

Start(n) ==
  /\ n \in Nodes \ started
  /\ started' = started \cup {n} /\ up' = up \cup {n}
  /\ pinging' = pinging \cup {n} /\ due' = due \cup {n}
  /\ age' = [k \in Nodes |-> [m \in Nodes |-> IF n \in {k, m} THEN 0 ELSE age[k][m]]]
  /\ UNCHANGED <<burn, peers, master, inbox, turned, faults, deaths>>

(* A turn of the loop of send_pings: the datagram reaches some.            *)
Ping(n) ==
  /\ n \in due \cap up
  /\ due' = due \ {n}
  /\ \E lost \in SUBSET (up \ {n}) :
       /\ faults + Cardinality(lost) <= MaxFaults
       /\ faults' = faults + Cardinality(lost)
       /\ inbox' = [m \in Nodes |-> IF m \in up \ (lost \cup {n}) THEN inbox[m] \cup {n} ELSE inbox[m]]
  /\ UNCHANGED <<started, up, pinging, burn, peers, master, age, turned, deaths>>

(* The send fails: self.loop does not exist, so the greenlet ends.         *)
PingFails(n) ==
  /\ n \in due \cap up /\ deaths < MaxDeaths
  /\ due' = due \ {n} /\ pinging' = pinging \ {n}
  /\ deaths' = deaths + 1
  /\ UNCHANGED <<started, up, burn, peers, master, age, inbox, turned, faults>>

(* __burn_in_timer                                                         *)
BurnInOver(n) ==
  /\ n \in up /\ burn[n] = 1
  /\ burn' = [burn EXCEPT ![n] = 0]
  /\ UNCHANGED <<started, up, pinging, peers, master, age, inbox, due, turned, faults, deaths>>

(* reap_peers; who was heard of Expiry intervals ago expires within this   *)
(* one.  (A faulty form: nobody is reaped.)                                *)
ReapNobody(known, heard) == {{}}

Reapable(known, heard) ==
  {gone \in SUBSET {m \in known : heard[m] >= Expiry} : {m \in known : heard[m] > Expiry} \subseteq gone}

(* determine_master.  (A faulty form: no burn-in.)                         *)
DetermineEarly(n, known) == \A m \in known : m < n

Determine(n, known) == burn[n] = 0 /\ \A m \in known : m < n

(* A turn of run: one ping or none, or the node's own, is read; peers      *)
(* that have expired are reaped; then the master is determined.            *)
(* (A faulty form: it is determined before the ping is looked at.)         *)
TurnStale(n, read) ==
  /\ n \in up /\ read \subseteq inbox[n]
  /\ inbox' = [inbox EXCEPT ![n] = @ \ read]
  /\ age' = [age EXCEPT ![n] = [m \in Nodes |-> IF m \in read THEN 0 ELSE age[n][m]]]
  /\ \E gone \in Reapable(peers[n], age'[n]) :
       /\ peers' = [peers EXCEPT ![n] = (@ \ gone) \cup read]
       /\ master' = [master EXCEPT ![n] = Determine(n, peers[n] \ gone)]
  /\ turned' = turned \cup {n}
  /\ UNCHANGED <<started, up, pinging, burn, due, faults, deaths>>

Turn(n, read) ==
  /\ n \in up /\ read \subseteq inbox[n]
  /\ inbox' = [inbox EXCEPT ![n] = @ \ read]
  /\ age' = [age EXCEPT ![n] = [m \in Nodes |-> IF m \in read THEN 0 ELSE age[n][m]]]
  /\ \E gone \in Reapable(peers[n] \cup read, age'[n]) :
       LET known == (peers[n] \cup read) \ gone
       IN  /\ peers' = [peers EXCEPT ![n] = known]
           /\ master' = [master EXCEPT ![n] = Determine(n, known)]
  /\ turned' = turned \cup {n}
  /\ UNCHANGED <<started, up, pinging, burn, due, faults, deaths>>

Crash(n) ==
  /\ n \in up /\ deaths < MaxDeaths
  /\ up' = up \ {n} /\ pinging' = pinging \ {n} /\ due' = due \ {n}
  /\ inbox' = [inbox EXCEPT ![n] = {}]
  /\ peers' = [peers EXCEPT ![n] = {}] /\ master' = [master EXCEPT ![n] = FALSE]
  /\ deaths' = deaths + 1
  /\ UNCHANGED <<started, burn, age, turned, faults>>

(* An interval is over: every node has done what it does in one, unless    *)
(* its event loop was busy.                                                *)
Done(n) == n \notin due /\ n \in turned /\ inbox[n] = {} /\ burn[n] # 1

Tick(busy) ==
  /\ \A n \in up \ busy : Done(n)
  /\ faults + Cardinality(busy) <= MaxFaults
  /\ faults' = faults + Cardinality(busy)
  /\ age' = [n \in Nodes |-> [m \in Nodes |->
       IF n \in up /\ m \in started \ {n} /\ age[n][m] < MaxAge THEN age[n][m] + 1 ELSE age[n][m]]]
  /\ burn' = [n \in Nodes |-> IF n \in up /\ burn[n] > 1 THEN burn[n] - 1 ELSE burn[n]]
  /\ due' = pinging /\ turned' = {}
  /\ UNCHANGED <<started, up, pinging, peers, master, inbox, deaths>>

Next ==
  \/ \E n \in Nodes : \/ Start(n) \/ Ping(n) \/ PingFails(n) \/ BurnInOver(n) \/ Crash(n)
                      \/ \E read \in {{}} \cup {{m} : m \in inbox[n]} : Turn(n, read)
  \/ \E busy \in SUBSET up : Tick(busy)

(* Time passes, and every greenlet runs.                                   *)
Fairness ==
  /\ WF_vars(Tick({}))
  /\ \A n \in Nodes : /\ WF_vars(Ping(n)) /\ WF_vars(BurnInOver(n)) /\ WF_vars(Turn(n, {}))
                      /\ \A m \in Nodes : WF_vars(Turn(n, {m}))

Spec == Init /\ [][Next]_vars /\ Fairness

-----------------------------------------------------------------------------
(* A master has burned in, runs, and knows no peer above it.               *)
TypeOK ==
  /\ up \subseteq started /\ started \subseteq Nodes /\ pinging \subseteq up /\ due \subseteq pinging
  /\ turned \subseteq Nodes
  /\ burn \in [Nodes -> 0 .. BurnIn + 1]
  /\ peers \in [Nodes -> SUBSET Nodes]
  /\ master \in [Nodes -> BOOLEAN]
  /\ age \in [Nodes -> [Nodes -> 0 .. MaxAge]]
  /\ inbox \in [Nodes -> SUBSET Nodes]
  /\ faults \in 0 .. MaxFaults /\ deaths \in 0 .. MaxDeaths
  /\ \A n \in Nodes : master[n] => n \in up /\ Determine(n, peers[n])

(* Two nodes are masters at once only when the lower has not heard of the  *)
(* higher for as many intervals as a burn-in takes, or a peer lives: a     *)
(* lost ping or a missed turn alone never makes a second master.           *)
AtMostOneMaster ==
  \A n, m \in Nodes :
    n < m /\ master[n] /\ master[m] => age[n][m] >= BurnIn \/ age[n][m] >= Expiry

(* Unless a node runs on whose send_pings has ended, the greatest node of  *)
(* those that run is in the end the master, and the only one.              *)
MastersSettle ==
  <>[](pinging = up) => <>[](\A n \in up : master[n] <=> \A m \in up \ {n} : m < n)

(* In the end one of the nodes at most is the master, as UDPInterface and  *)
(* UDPEventGenerator promise.                                              *)
OneMaster == <>[](Cardinality({n \in up : master[n]}) <= 1)
=============================================================================
