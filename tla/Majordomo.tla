----------------------------- MODULE Majordomo ------------------------------
(***************************************************************************)
(* MDPBroker, MDPClient and MDPWorker: requests of clients go through a    *)
(* broker to a worker of their service, and the reply comes back.          *)
(*                                                                         *)
(* A peer (client or worker) has an outbound and an inbound socket per     *)
(* broker. The broker's ROUTER socket delivers in order, and drops what is *)
(* for a peer whose inbound socket it does not know; closing a socket      *)
(* loses what is on it. Workers live, for a broker, as long as they send   *)
(* heartbeats. The registration service is an environment here: it tells   *)
(* peers of brokers that run, and of brokers that have ended.              *)
(*                                                                         *)
(* Timers run in seconds, messages in milliseconds: a timer that overtakes *)
(* messages on their way is counted, and MaxHurries bounds how often.      *)
(* One service is modelled: the broker's services share nothing.           *)
(***************************************************************************)
EXTENDS BrokerManager, Sequences, SequencesExt

CONSTANTS
  Brokers, Workers, Clients,
  Requests,       \* the events clients send
  ClientOf,       \* the client of each
  MaxLiveness,    \* HEARTBEAT_LIVENESS (3)
  MaxCrashes,     \* bound on the processes that end
  MaxHurries,     \* bound on the timers that overtake messages
  None

Peers == Workers \cup Clients

ASSUME MajordomoAssumption ==
  /\ MaxLiveness \in Nat \ {0} /\ MaxCrashes \in Nat /\ MaxHurries \in Nat
  /\ ClientOf \in [Requests -> Clients]
  /\ Workers \cap Clients = {} /\ Brokers \cap Peers = {} /\ None \notin Requests
  /\ IsFiniteSet(Brokers)
  /\ \A b, c \in Brokers : Rank[b] \in Nat /\ (Rank[b] = Rank[c] => b = c)

VARIABLES
  alive,     \* the processes that run
  mgr,       \* the broker manager of each peer
  ready,     \* <<p, b>>: b knows the inbound socket of p
  broker,    \* what each broker keeps: its workers, their line, held requests
  toB,       \* the messages from each peer on their way to each broker
  fromB,     \* and back
  out,       \* the outbound queue of each peer
  origin,    \* the connector each worker remembers for a request
  inside,    \* <<w, r>>: r is with the actors behind w
  fate,      \* history: what became of each request
  runs,      \* history: how often each was given to the actors of a worker
  hurries    \* timers that have overtaken messages

vars == <<alive, mgr, ready, broker, toB, fromB, out, origin, inside, fate, runs, hurries>>

Msg(type) == [type |-> type, r |-> None]
Carry(type, r) == [type |-> type, r |-> r]

Carried(msgs) == {m.r : m \in ToSet(msgs)} \ {None}

With(f, x, v) == [y \in DOMAIN f \cup {x} |-> IF y = x THEN v ELSE f[y]]

(* What stands at the indices I of s, and the elements of s in S, in the   *)
(* order of s.                                                             *)
Nth(I, k) == CHOOSE i \in I : Cardinality({j \in I : j < i}) = k - 1

Picked(s, I) == [k \in 1 .. Cardinality(I) |-> s[Nth(I, k)]]

Only(s, S) == Picked(s, {i \in DOMAIN s : s[i] \in S})

LostAlso(S) == [r \in Requests |-> IF r \in S THEN "lost" ELSE fate[r]]

-----------------------------------------------------------------------------
(* The broker, as operators on its record; sent is what a step sends to    *)
(* each peer.                                                              *)
NoMail == [p \in Peers |-> <<>>]

NewBroker == [known |-> [w \in {} |-> 0], line |-> <<>>, held |-> <<>>, sent |-> NoMail]

NewWorker == [liveness |-> MaxLiveness, late |-> FALSE]

Sends(s, p, m) == [s EXCEPT !.sent[p] = Append(@, m)]

(* Worker.register_heartbeat.  (A faulty form: what was lost is not        *)
(* regained.)                                                              *)
HeardKeeping(k) == [k EXCEPT !.late = FALSE]

Heard(k) == [liveness |-> IF k.liveness < MaxLiveness THEN k.liveness + 1 ELSE k.liveness,
             late |-> FALSE]

(* purge_workers and delete_worker                                         *)
Expired(s) == {w \in DOMAIN s.known : s.known[w].late /\ s.known[w].liveness = 0}

Reduced(k) == IF k.late THEN [liveness |-> k.liveness - 1, late |-> FALSE] ELSE k

Purge(s) ==
  LET gone == Expired(s)
      kept == DOMAIN s.known \ gone
  IN  [s EXCEPT !.known = [w \in kept |-> Reduced(s.known[w])],
                !.line  = Only(@, kept),
                !.sent  = [p \in Peers |-> IF p \in gone THEN Append(@[p], Msg("disconnect")) ELSE @[p]]]

(* dispatch: everything held goes round the workers of full liveness, who  *)
(* move to the end of the line as they are used.                           *)
Healthy(s) == Only(s.line, {w \in DOMAIN s.known : s.known[w].liveness = MaxLiveness})

(* Of those that take turns, the ones k requests reach, by their last turn.*)
Used(healthy, k) ==
  LET n == Len(healthy)
  IN  IF k <= n THEN SubSeq(healthy, 1, k)
      ELSE SubSeq(healthy, (k % n) + 1, n) \o SubSeq(healthy, 1, k % n)

(* The requests that are sent to p.                                        *)
Share(healthy, held, p) ==
  LET turns == {i \in DOMAIN held : healthy[1 + ((i - 1) % Len(healthy))] = p}
      mine  == Picked(held, turns)
  IN  [k \in DOMAIN mine |-> Carry("request", mine[k])]

(* (A faulty form: the requests stay held when they are sent.)             *)
DispatchKeeping(s) ==
  IF Healthy(s) = <<>> THEN s
  ELSE [s EXCEPT !.sent = [p \in Peers |-> @[p] \o Share(Healthy(s), s.held, p)]]

Dispatch(s) ==
  LET healthy == Healthy(s)
      used    == Used(healthy, Len(s.held))
  IN  IF healthy = <<>> THEN s
      ELSE [s EXCEPT !.held = <<>>,
                     !.line = Only(@, DOMAIN s.known \ ToSet(used)) \o used,
                     !.sent = [p \in Peers |-> @[p] \o Share(healthy, s.held, p)]]

(* process_client_message                                                  *)
FromClient(s, c, m) ==
  IF m.type = "request" THEN Dispatch(Purge([s EXCEPT !.held = Append(@, m.r)]))
  ELSE Sends(s, c, Msg("verified"))

(* process_worker_message: only a new worker is registered and answered; a *)
(* heartbeat of a worker that is not known is answered with a disconnect.  *)
(* (A faulty form: every verification request registers.)                  *)
RegisterAgain(s, w) ==
  Sends(Dispatch(Purge([s EXCEPT !.known = With(@, w, NewWorker), !.line = Append(@, w)])),
        w, Msg("verified"))

Register(s, w) ==
  IF w \in DOMAIN s.known THEN s
  ELSE Sends(Dispatch(Purge([s EXCEPT !.known = With(@, w, NewWorker), !.line = Append(@, w)])),
             w, Msg("verified"))

Heartbeat(s, w) ==
  IF w \in DOMAIN s.known THEN [s EXCEPT !.known[w] = Heard(@)]
  ELSE Sends(s, w, Msg("disconnect"))

FromWorker(s, w, m) ==
  CASE m.type = "verify"    -> Register(s, w)
    [] m.type = "heartbeat" -> Heartbeat(s, w)
    [] m.type = "reply"     -> Sends(s, ClientOf[m.r], m)

Process(s, p, m) == IF p \in Clients THEN FromClient(s, p, m) ELSE FromWorker(s, p, m)

-----------------------------------------------------------------------------
Init ==
  /\ alive = Brokers \cup Peers
  /\ mgr = [p \in Peers |-> NewManager]
  /\ ready = {}
  /\ broker = [b \in Brokers |-> NewBroker]
  /\ toB = [b \in Brokers |-> [p \in Peers |-> <<>>]]
  /\ fromB = [b \in Brokers |-> [p \in Peers |-> <<>>]]
  /\ out = [p \in Peers |-> <<>>]
  /\ origin = [w \in Workers |-> [r \in {} |-> None]]
  /\ inside = {}
  /\ fate = [r \in Requests |-> "new"]
  /\ runs = [r \in Requests |-> 0]
  /\ hurries = 0

(* Nothing is under way between p and the brokers that run.                *)
Quiet(p) ==
  \A b \in alive \cap Brokers :
    /\ toB[b][p] = <<>> /\ fromB[b][p] = <<>>
    /\ b \in Connected(mgr[p]) => <<p, b>> \in ready

InTime(quiet) ==
  \/ quiet /\ UNCHANGED hurries
  \/ ~quiet /\ hurries < MaxHurries /\ hurries' = hurries + 1

-----------------------------------------------------------------------------
(* A step of mediate: one message, or none when the poll runs out, then    *)
(* purge_workers.  The ROUTER socket drops what is for a peer it does not  *)
(* know.                                                                   *)
Delivers(b, s, taken) ==
  LET Knows(p) == <<p, b>> \in ready
      dropped == UNION {Carried(s.sent[p]) : p \in {q \in Peers : ~Knows(q)}}
  IN  /\ broker' = [broker EXCEPT ![b] = [s EXCEPT !.sent = NoMail]]
      /\ toB' = [toB EXCEPT ![b] = taken]
      /\ fromB' = [fromB EXCEPT ![b] =
           [p \in Peers |-> IF Knows(p) THEN fromB[b][p] \o s.sent[p] ELSE fromB[b][p]]]
      /\ fate' = LostAlso(dropped)
      /\ UNCHANGED <<alive, mgr, ready, out, origin, inside, runs>>

MediateMessage(b, p) ==
  /\ b \in alive /\ toB[b][p] # <<>>
  /\ \E s \in {Purge(Process(broker[b], p, Head(toB[b][p])))} :
       Delivers(b, s, [toB[b] EXCEPT ![p] = Tail(@)])
  /\ UNCHANGED hurries

MediateNothing(b) ==
  /\ b \in alive
  /\ \E w \in DOMAIN broker[b].known : broker[b].known[w].late
  /\ InTime(\A p \in Peers : toB[b][p] = <<>>)
  /\ \E s \in {Purge(broker[b])} : Delivers(b, s, toB[b])

(* The expiry of a worker passes.  While a worker sends heartbeats it does *)
(* so only if these are late.                                              *)
Beats(w, b) == w \in alive /\ b \in mgr[w].verified

Lapse(b, w) ==
  /\ b \in alive /\ w \in DOMAIN broker[b].known /\ ~broker[b].known[w].late
  /\ InTime(~Beats(w, b) /\ (w \in alive => Quiet(w)))
  /\ broker' = [broker EXCEPT ![b].known[w].late = TRUE]
  /\ UNCHANGED <<alive, mgr, ready, toB, fromB, out, origin, inside, fate, runs>>

-----------------------------------------------------------------------------
(* Closing the sockets of p to the brokers in S: what has arrived for p is *)
(* lost, what p has sent may be.  Answers of a worker whose origin is gone *)
(* will go another way.  The brokers in asked get a verification request.  *)
CloseSockets(p, S, asked) ==
  \E keep \in SUBSET {b \in S : toB[b][p] # <<>>} :
    LET lost == (UNION {Carried(fromB[b][p]) : b \in S}) \cup (UNION {Carried(toB[b][p]) : b \in S \ keep})
        Kept(b) == IF b \in S \ keep THEN <<>> ELSE toB[b][p]
        New(b)  == IF b \in asked THEN <<Msg("verify")>> ELSE <<>>
    IN  /\ ready' = ready \ {<<p, b>> : b \in S}
        /\ fromB' = [b \in Brokers |-> IF b \in S THEN [fromB[b] EXCEPT ![p] = <<>>] ELSE fromB[b]]
        /\ toB' = [b \in Brokers |-> [toB[b] EXCEPT ![p] = Kept(b) \o New(b)]]
        /\ fate' = LostAlso(lost)

Forgotten(p, S) ==
  [w \in Workers |-> IF w # p THEN origin[w]
                     ELSE [r \in DOMAIN origin[p] |-> IF origin[p][r] \in S THEN None ELSE origin[p][r]]]

(* The registration service tells of a broker that runs ...                *)
Announce(p, b) ==
  /\ {p, b} \subseteq alive /\ b \notin Connected(mgr[p])
  /\ mgr' = [mgr EXCEPT ![p] = Connect(@, b)]
  /\ UNCHANGED <<alive, ready, broker, toB, fromB, out, origin, inside, fate, runs, hurries>>

SocketReady(p, b) ==
  /\ {p, b} \subseteq alive /\ b \in Connected(mgr[p]) /\ <<p, b>> \notin ready
  /\ ready' = ready \cup {<<p, b>>}
  /\ UNCHANGED <<alive, mgr, broker, toB, fromB, out, origin, inside, fate, runs, hurries>>

(* ... and of one that has ended.                                          *)
Retract(p, b) ==
  /\ p \in alive /\ b \in Connected(mgr[p]) \ alive
  /\ mgr' = [mgr EXCEPT ![p] = Disconnect(@, b)]
  /\ CloseSockets(p, {b}, {})
  /\ origin' = Forgotten(p, {b})
  /\ UNCHANGED <<alive, broker, out, inside, runs, hurries>>

(* One turn of verify_brokers, once a second.                              *)
VerifyBrokers(p) ==
  /\ p \in alive
  /\ DOMAIN mgr[p].unverified # {} \/ mgr[p].wait > 0
  /\ InTime(Quiet(p))
  /\ mgr' = [mgr EXCEPT ![p] = AfterRequests(@)]
  /\ CloseSockets(p, Spent(mgr[p]), Asked(mgr[p]) \cap alive)
  /\ origin' = Forgotten(p, Hopeless(mgr[p]))
  /\ UNCHANGED <<alive, broker, out, inside, runs>>

(* MDPWorker.send_heartbeats, every 2.5 seconds.                           *)
SendHeartbeats(w) ==
  /\ w \in alive /\ mgr[w].verified # {}
  /\ InTime(Quiet(w))
  /\ toB' = [b \in Brokers |->
       IF b \in mgr[w].verified \cap alive
         THEN [toB[b] EXCEPT ![w] = Append(@, Msg("heartbeat"))] ELSE toB[b]]
  /\ UNCHANGED <<alive, mgr, ready, broker, fromB, out, origin, inside, fate, runs>>

-----------------------------------------------------------------------------
(* consume of a client                                                     *)
Submit(r) ==
  /\ fate[r] = "new"
  /\ fate' = [fate EXCEPT ![r] = "open"]
  /\ out' = [out EXCEPT ![ClientOf[r]] = Append(@, r)]
  /\ UNCHANGED <<alive, mgr, ready, broker, toB, fromB, origin, inside, runs, hurries>>

(* A turn of __consume_outbound_queue: without a verified broker the event *)
(* goes back, behind the others.  A worker answers through the broker the  *)
(* request came from, unless its connector is closed.                      *)
Way(p, r) ==
  IF p \in Workers /\ origin[p][r] # None THEN origin[p][r] ELSE NextBroker(mgr[p])

(* (A faulty form: the event does not go back.)                            *)
ConsumeDropping(p) ==
  /\ p \in alive /\ out[p] # <<>> /\ mgr[p].verified = {}
  /\ out' = [out EXCEPT ![p] = Tail(@)]
  /\ UNCHANGED <<alive, mgr, ready, broker, toB, fromB, origin, inside, fate, runs, hurries>>

(* (Left out: an event that cannot be pickled, which is dropped.)          *)
ConsumeOutbound(p) ==
  /\ p \in alive /\ out[p] # <<>>
  /\ LET r == Head(out[p])
     IN  IF mgr[p].verified = {}
           THEN out' = [out EXCEPT ![p] = Append(Tail(@), r)] /\ UNCHANGED <<mgr, toB, fate>>
           ELSE /\ out' = [out EXCEPT ![p] = Tail(@)]
                /\ mgr' = [mgr EXCEPT ![p] = Advance(@)]
                /\ IF Way(p, r) \in alive
                     THEN /\ toB' = [toB EXCEPT ![Way(p, r)][p] =
                                Append(@, Carry(IF p \in Clients THEN "request" ELSE "reply", r))]
                          /\ UNCHANGED fate
                     ELSE fate' = LostAlso({r}) /\ UNCHANGED toB
  /\ UNCHANGED <<alive, ready, broker, fromB, origin, inside, runs, hurries>>

(* __listen and process_inbound_message                                    *)
Inbound(p, b) ==
  /\ p \in alive /\ fromB[b][p] # <<>>
  /\ LET m == Head(fromB[b][p])
         read == [fromB EXCEPT ![b][p] = Tail(@)]
     IN  CASE m.type = "verified" ->
                /\ fromB' = read
                /\ mgr' = [mgr EXCEPT ![p] = Verify(@, b)]
                /\ UNCHANGED <<ready, toB, origin, inside, fate, runs>>
           [] m.type = "disconnect" ->
                /\ mgr' = [mgr EXCEPT ![p] = Disconnect(@, b)]
                /\ CloseSockets(p, {b}, {})
                /\ origin' = Forgotten(p, {b})
                /\ UNCHANGED <<inside, runs>>
           [] m.type = "request" ->
                /\ fromB' = read
                /\ origin' = [origin EXCEPT ![p] = With(@, m.r, b)]
                /\ inside' = inside \cup {<<p, m.r>>}
                /\ runs' = [runs EXCEPT ![m.r] = @ + 1]
                /\ UNCHANGED <<mgr, ready, toB, fate>>
           [] m.type = "reply" ->
                /\ fromB' = read
                /\ fate' = [fate EXCEPT ![m.r] = "answered"]
                /\ UNCHANGED <<mgr, ready, toB, origin, inside, runs>>
  /\ UNCHANGED <<alive, broker, out, hurries>>

(* The actors behind a worker send the event back to it.                   *)
Finish(w, r) ==
  /\ w \in alive /\ <<w, r>> \in inside
  /\ inside' = inside \ {<<w, r>>}
  /\ out' = [out EXCEPT ![w] = Append(@, r)]
  /\ UNCHANGED <<alive, mgr, ready, broker, toB, fromB, origin, fate, runs, hurries>>

-----------------------------------------------------------------------------
(* A process ends, and what it holds with it.                              *)
Held(x) ==
  IF x \in Brokers
    THEN ToSet(broker[x].held) \cup (UNION {Carried(toB[x][p]) : p \in Peers})
    ELSE {r \in Requests : <<x, r>> \in inside} \cup ToSet(out[x])
         \cup (UNION {Carried(fromB[b][x]) : b \in Brokers})

Crash(x) ==
  /\ x \in alive \cap (Brokers \cup Workers)
  /\ Cardinality((Brokers \cup Peers) \ alive) < MaxCrashes
  /\ alive' = alive \ {x}
  /\ fate' = LostAlso(Held(x))
  /\ broker' = [b \in Brokers |-> IF b = x THEN NewBroker ELSE broker[b]]
  /\ toB' = [b \in Brokers |-> IF b = x THEN [p \in Peers |-> <<>>] ELSE toB[b]]
  /\ fromB' = [b \in Brokers |-> [p \in Peers |-> IF p = x THEN <<>> ELSE fromB[b][p]]]
  /\ out' = [p \in Peers |-> IF p = x THEN <<>> ELSE out[p]]
  /\ inside' = {i \in inside : i[1] # x}
  /\ ready' = {c \in ready : x \notin {c[1], c[2]}}
  /\ UNCHANGED <<mgr, origin, runs, hurries>>

Step ==
  \/ \E b \in Brokers : \/ MediateNothing(b)
                        \/ \E p \in Peers : MediateMessage(b, p)
                        \/ \E w \in Workers : Lapse(b, w)
  \/ \E p \in Peers : \/ VerifyBrokers(p) \/ ConsumeOutbound(p)
                      \/ \E b \in Brokers : Announce(p, b) \/ SocketReady(p, b) \/ Retract(p, b) \/ Inbound(p, b)
  \/ \E w \in Workers : SendHeartbeats(w) \/ \E r \in Requests : Finish(w, r)

Next == Step \/ (\E r \in Requests : Submit(r)) \/ \E x \in Brokers \cup Workers : Crash(x)

(* Every greenlet of a process that runs is scheduled, messages arrive, and *)
(* a timer runs out in the end, however often messages are under way.      *)
Fairness ==
  /\ \A b \in Brokers :
       /\ SF_vars(MediateNothing(b))
       /\ \A p \in Peers : WF_vars(MediateMessage(b, p))
       /\ \A w \in Workers : SF_vars(~Beats(w, b) /\ Lapse(b, w))
  /\ \A p \in Peers :
       /\ SF_vars(VerifyBrokers(p)) /\ WF_vars(ConsumeOutbound(p))
       /\ \A b \in Brokers : /\ WF_vars(Announce(p, b)) /\ WF_vars(SocketReady(p, b))
                             /\ WF_vars(Retract(p, b)) /\ WF_vars(Inbound(p, b))
  /\ \A w \in Workers : SF_vars(SendHeartbeats(w)) /\ \A r \in Requests : WF_vars(Finish(w, r))

Spec == Init /\ [][Next]_vars /\ Fairness

-----------------------------------------------------------------------------
Fates == {"new", "open", "lost", "answered"}

(* A worker is in the line of a broker exactly when the broker knows it,   *)
(* and once.                                                               *)
TypeOK ==
  /\ alive \subseteq Brokers \cup Peers
  /\ mgr \in [Peers -> ManagerType(Brokers)]
  /\ ready \subseteq Peers \X Brokers
  /\ \A b \in Brokers :
       /\ \A w \in DOMAIN broker[b].known : broker[b].known[w] \in [liveness : 0 .. MaxLiveness, late : BOOLEAN]
       /\ ToSet(broker[b].line) = DOMAIN broker[b].known
       /\ Len(broker[b].line) = Cardinality(DOMAIN broker[b].known)
       /\ ToSet(broker[b].held) \subseteq Requests /\ broker[b].sent = NoMail
  /\ inside \subseteq Workers \X Requests
  /\ fate \in [Requests -> Fates] /\ runs \in [Requests -> Nat]
  /\ hurries \in 0 .. MaxHurries

(* Where a request is, on its way to a worker and back.                    *)
Places(r) ==
  (UNION {{<<"queue", p, i>> : i \in {j \in DOMAIN out[p] : out[p][j] = r}} : p \in Peers})
  \cup (UNION {{<<"held", b, i>> : i \in {j \in DOMAIN broker[b].held : broker[b].held[j] = r}} : b \in Brokers})
  \cup (UNION {{<<"to", c, i>> : i \in {j \in DOMAIN toB[c[1]][c[2]] : toB[c[1]][c[2]][j].r = r}} : c \in Brokers \X Peers})
  \cup (UNION {{<<"from", c, i>> : i \in {j \in DOMAIN fromB[c[1]][c[2]] : fromB[c[1]][c[2]][j].r = r}} : c \in Brokers \X Peers})
  \cup {<<"inside", i>> : i \in {j \in inside : j[2] = r}}

(* A request that is open is in one place, and nothing that has been       *)
(* answered or lost is still anywhere: no step of a broker, of a peer or   *)
(* of a failing connection doubles a request, or drops it unnoticed.       *)
InOnePlace ==
  \A r \in Requests : Cardinality(Places(r)) = IF fate[r] = "open" THEN 1 ELSE 0

(* No request is worked on twice, and none is answered that was not.       *)
RunAtMostOnce ==
  \A r \in Requests : runs[r] <= 1 /\ (fate[r] = "answered" => runs[r] = 1)

(* Brokers and workers serve each request as RequestService says: it is    *)
(* given to the actors of a worker at most once and answered only then,    *)
(* no failure loses one that has been answered or not yet been sent, and   *)
(* none that is lost or answered runs, or is answered, any more.           *)
Service == INSTANCE RequestService

ImplementsService == Service!Spec

(* Once processes stop ending, every worker that runs is in the end        *)
(* registered, at full liveness, with every broker that runs, whatever     *)
(* responses were dropped and heartbeats came late.                        *)
Registered(w, b) ==
  /\ b \in mgr[w].verified /\ w \in DOMAIN broker[b].known
  /\ broker[b].known[w].liveness = MaxLiveness

WorkersComeBack ==
  <>[](\A w \in Workers \cap alive, b \in Brokers \cap alive : Registered(w, b))

(* In the end nothing is under way: a request is answered or lost, unless  *)
(* a broker holds it for want of a worker, or no broker runs any more.     *)
RequestsSettle ==
  <>[](\A r \in Requests :
         fate[r] = "open" => \/ \E b \in alive \cap Brokers : r \in ToSet(broker[b].held)
                             \/ alive \cap Brokers = {})
=============================================================================
