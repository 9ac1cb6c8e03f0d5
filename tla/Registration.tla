---------------------------- MODULE Registration ----------------------------
(***************************************************************************)
(* MDPBrokerRegistrationService: brokers send it heartbeats, it publishes  *)
(* to the broker managers of all clients and workers which brokers there   *)
(* are, and which have gone; the managers verify brokers on their own.     *)
(*                                                                         *)
(* What is published may not reach a manager, the service forgets what it  *)
(* knows when it is restarted, brokers end, verification messages get      *)
(* lost. Timers are as in Majordomo: one that overtakes messages on their  *)
(* way, or a heartbeat, is counted and bounded by MaxHurries.              *)
(***************************************************************************)
EXTENDS BrokerManager, Sequences, SequencesExt

CONSTANTS
  Brokers, Managers,
  MaxLiveness,   \* Broker.MAX_LIVENESS (3)
  MaxBeats,      \* bound on the heartbeats of a broker on their way
  MaxNews,       \* bound on the news on their way to a manager
  MaxHurries, MaxLost, MaxDeaths, MaxRestarts

ASSUME RegistrationAssumption ==
  /\ IsFiniteSet(Brokers)
  /\ MaxLiveness \in Nat \ {0} /\ MaxBeats \in Nat \ {0} /\ MaxNews \in Nat
  /\ MaxHurries \in Nat /\ MaxLost \in Nat /\ MaxDeaths \in Nat /\ MaxRestarts \in Nat

VARIABLES
  alive,     \* the brokers that run
  beats,     \* the heartbeats of each on their way to the service
  known,     \* self.brokers of the service: liveness, and whether expired
  news,      \* what is on its way from the service to each manager
  mgr,       \* the manager of each client or worker
  asked,     \* <<p, b>>: b has to answer a verification request of p
  hurries, lost, missed, restarts

vars == <<alive, beats, known, news, mgr, asked, hurries, lost, missed, restarts>>

Heartbeat(b) == [command |-> "heartbeat", of |-> b]
Gone(b) == [command |-> "disconnect", of |-> b]

Init ==
  /\ alive = Brokers
  /\ beats = [b \in Brokers |-> 0]
  /\ known = [b \in {} |-> 0]
  /\ news = [p \in Managers |-> <<>>]
  /\ mgr = [p \in Managers |-> NewManager]
  /\ asked = {}
  /\ hurries = 0 /\ lost = 0 /\ missed = 0 /\ restarts = 0

InTime(quiet) ==
  \/ quiet /\ UNCHANGED hurries
  \/ ~quiet /\ hurries < MaxHurries /\ hurries' = hurries + 1

-----------------------------------------------------------------------------
(* BrokerRegistrator.register, called by the broker's loop, every 2.5 s.   *)
Register(b) ==
  /\ b \in alive /\ beats[b] < MaxBeats
  /\ InTime(beats[b] = 0 /\ \A p \in Managers : news[p] = <<>>)
  /\ beats' = [beats EXCEPT ![b] = @ + 1]
  /\ UNCHANGED <<alive, known, news, mgr, asked, lost, missed, restarts>>

(* check_broker_liveness: every turn of the service's loop takes one from  *)
(* each expired broker, and one without liveness left is disconnected.     *)
(* (A faulty form: one disconnect a turn is published.)                    *)
CheckedOne(k) == IF k.late THEN [k EXCEPT !.liveness = @ - 1] ELSE k

Exhausted(k) == {b \in DOMAIN k : k[b].late /\ k[b].liveness = 1}

Checked(k) == [b \in DOMAIN k \ Exhausted(k) |-> CheckedOne(k[b])]

DisconnectsOnce(k) == IF Exhausted(k) = {} THEN <<>> ELSE <<Gone(CHOOSE b \in Exhausted(k) : TRUE)>>

Disconnects(k) == LET gone == SetToSeq(Exhausted(k)) IN [i \in DOMAIN gone |-> Gone(gone[i])]

(* A turn of start_service with a message: a broker is entered or          *)
(* refreshed, and published either way.                                    *)
Refreshed(b) ==
  [x \in DOMAIN known \cup {b} |-> IF x = b THEN [liveness |-> MaxLiveness, late |-> FALSE] ELSE known[x]]

Publish(told) ==
  /\ \A p \in Managers : Len(news[p]) + Len(told) <= MaxNews
  /\ news' = [p \in Managers |-> news[p] \o told]

Receive(b) ==
  /\ beats[b] > 0
  /\ beats' = [beats EXCEPT ![b] = @ - 1]
  /\ known' = Checked(Refreshed(b))
  /\ Publish(<<Heartbeat(b)>> \o Disconnects(Refreshed(b)))
  /\ UNCHANGED <<alive, mgr, asked, hurries, lost, missed, restarts>>

(* A turn whose poll runs out.                                             *)
Idle ==
  /\ \A b \in Brokers : beats[b] = 0
  /\ \E b \in DOMAIN known : known[b].late
  /\ known' = Checked(known)
  /\ Publish(Disconnects(known))
  /\ UNCHANGED <<alive, beats, mgr, asked, hurries, lost, missed, restarts>>

(* The 5 s without a heartbeat are over.                                   *)
Expire(b) ==
  /\ b \in DOMAIN known /\ ~known[b].late
  /\ InTime(b \notin alive /\ beats[b] = 0)
  /\ known' = [known EXCEPT ![b].late = TRUE]
  /\ UNCHANGED <<alive, beats, news, mgr, asked, lost, missed, restarts>>

-----------------------------------------------------------------------------
(* process_update.  (A faulty form: a disconnect is only for the brokers   *)
(* that are verified.)                                                     *)
UpdateVerified(m, x) ==
  IF x.command = "heartbeat" THEN Connect(m, x.of) ELSE [m EXCEPT !.verified = @ \ {x.of}]

Update(m, x) == IF x.command = "heartbeat" THEN Connect(m, x.of) ELSE Disconnect(m, x.of)

ProcessUpdate(p) ==
  /\ news[p] # <<>>
  /\ mgr' = [mgr EXCEPT ![p] = Update(@, Head(news[p]))]
  /\ news' = [news EXCEPT ![p] = Tail(@)]
  /\ asked' = asked \ {<<p, b>> : b \in Brokers \ Connected(mgr'[p])}
  /\ UNCHANGED <<alive, beats, known, hurries, lost, missed, restarts>>

(* A publisher does not wait for subscribers.                              *)
MissUpdate(p) ==
  /\ news[p] # <<>> /\ missed < MaxLost
  /\ news' = [news EXCEPT ![p] = Tail(@)]
  /\ missed' = missed + 1
  /\ UNCHANGED <<alive, beats, known, mgr, asked, hurries, lost, restarts>>

(* A turn of verify_brokers, once a second; new sockets may lose what the  *)
(* old ones had under way.                                                 *)
VerifyBrokers(p) ==
  /\ DOMAIN mgr[p].unverified # {} \/ mgr[p].wait > 0
  /\ InTime(\A b \in alive : <<p, b>> \notin asked)
  /\ mgr' = [mgr EXCEPT ![p] = AfterRequests(@)]
  /\ \E kept \in SUBSET (Spent(mgr[p]) \ Hopeless(mgr[p])) :
       asked' = (asked \ {<<p, b>> : b \in Spent(mgr[p]) \ kept})
                  \cup {<<p, b>> : b \in Asked(mgr[p]) \cap alive}
  /\ UNCHANGED <<alive, beats, known, news, lost, missed, restarts>>

(* The response of the broker: process_inbound_message, verify_broker.     *)
(* (A broker answers a client always, and a worker when it does not know   *)
(* it; that it does not answer one it knows is for Majordomo to say.)      *)
Answer(p, b) ==
  /\ <<p, b>> \in asked
  /\ asked' = asked \ {<<p, b>>}
  /\ mgr' = [mgr EXCEPT ![p] = Verify(@, b)]
  /\ UNCHANGED <<alive, beats, known, news, hurries, lost, missed, restarts>>

LoseAnswer(p, b) ==
  /\ <<p, b>> \in asked /\ lost < MaxLost
  /\ asked' = asked \ {<<p, b>>}
  /\ lost' = lost + 1
  /\ UNCHANGED <<alive, beats, known, news, mgr, hurries, missed, restarts>>

-----------------------------------------------------------------------------
EndBroker(b) ==
  /\ b \in alive /\ Cardinality(Brokers \ alive) < MaxDeaths
  /\ alive' = alive \ {b}
  /\ \E n \in 0 .. beats[b] : beats' = [beats EXCEPT ![b] = n]
  /\ \E S \in SUBSET {<<p, b>> : p \in Managers} : asked' = asked \ S
  /\ UNCHANGED <<known, news, mgr, hurries, lost, missed, restarts>>

RestartService ==
  /\ restarts < MaxRestarts
  /\ restarts' = restarts + 1
  /\ known' = [b \in {} |-> 0]
  /\ UNCHANGED <<alive, beats, news, mgr, asked, hurries, lost, missed>>

Next ==
  \/ \E b \in Brokers : Register(b) \/ Receive(b) \/ Expire(b) \/ EndBroker(b)
  \/ Idle \/ RestartService
  \/ \E p \in Managers : \/ ProcessUpdate(p) \/ MissUpdate(p) \/ VerifyBrokers(p)
                         \/ \E b \in Brokers : Answer(p, b) \/ LoseAnswer(p, b)

(* The loops of brokers, service and managers turn, messages arrive, and   *)
(* timers run out in the end.                                              *)
Fairness ==
  /\ \A b \in Brokers : SF_vars(Register(b)) /\ WF_vars(Receive(b)) /\ WF_vars(b \notin alive /\ Expire(b))
  /\ WF_vars(Idle)
  /\ \A p \in Managers : /\ WF_vars(ProcessUpdate(p)) /\ WF_vars(VerifyBrokers(p))
                         /\ \A b \in Brokers : WF_vars(Answer(p, b))

Spec == Init /\ [][Next]_vars /\ Fairness

-----------------------------------------------------------------------------
TypeOK ==
  /\ alive \subseteq Brokers
  /\ beats \in [Brokers -> 0 .. MaxBeats]
  /\ DOMAIN known \subseteq Brokers
  /\ \A b \in DOMAIN known : known[b] \in [liveness : 1 .. MaxLiveness, late : BOOLEAN]
  /\ \A p \in Managers : ToSet(news[p]) \subseteq [command : {"heartbeat", "disconnect"}, of : Brokers]
  /\ mgr \in [Managers -> ManagerType(Brokers)]
  /\ \A p \in Managers : DOMAIN mgr[p].unverified \cap mgr[p].verified = {}
  /\ asked \subseteq Managers \X Brokers
  /\ \A p \in Managers, b \in Brokers : <<p, b>> \in asked => b \in Connected(mgr[p])

(* A manager that is connected to a broker, or is about to be, will be     *)
(* told when it goes: the service still knows it, or the last it has       *)
(* published of it is that it went.  Only a restart of the service, or     *)
(* news that never reached the manager, leaves one with a dead broker.     *)
NoNews(p, b, from) == \A i \in DOMAIN news[p] : i > from => news[p][i].of # b

WillBeConnected(p, b) ==
  \/ b \in Connected(mgr[p]) /\ NoNews(p, b, 0)
  \/ \E i \in DOMAIN news[p] : news[p][i] = Heartbeat(b) /\ NoNews(p, b, i)

NobodyForgotten ==
  restarts = 0 /\ missed = 0 =>
    \A p \in Managers, b \in Brokers : WillBeConnected(p, b) => b \in DOMAIN known

(* In the end every manager has verified every broker that runs, whatever  *)
(* was lost, and unless news or the service's memory was, no other.        *)
ManagersSettle ==
  <>[](\A p \in Managers :
         /\ alive \subseteq mgr[p].verified
         /\ restarts = 0 /\ missed = 0 => Connected(mgr[p]) = alive)
=============================================================================
