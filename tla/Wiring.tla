------------------------------- MODULE Wiring -------------------------------
(***************************************************************************)
(* How a Director connects actors before it starts them, and what becomes  *)
(* of the log entries that are written meanwhile.                          *)
(*                                                                         *)
(* Every actor has four pools of named queues (inbound, outbound, error,   *)
(* logs). A connection makes a queue in a pool of the source and registers *)
(* it, with a consumer, at the destination.  Log entries are written from  *)
(* the first connection on, before any log actor is connected: until then  *)
(* they go to a placeholder queue, which the first addition to the pool    *)
(* dumps on the queue added.                                               *)
(*                                                                         *)
(* The network of pools is one record, "net":                              *)
(*   pool     per actor and scope, the queue of each name                  *)
(*   queues   what is on a queue, who consumes from it and what they took  *)
(*   said     how many log entries each actor has written                  *)
(*   outcome  "ok", or what stopped the Director: "stuck" at a put on a    *)
(*            full queue that nobody reads (the hub raises LoopExit there  *)
(*            if nothing else can run), "hung" in an endless dump          *)
(* An entry is <<actor, number>>; events are not sent before the start.    *)
(***************************************************************************)
EXTENDS Integers, Sequences, FiniteSets, Functions

CONSTANTS
  Actors,       \* the registered actors
  LogActor,     \* the actor of register_log_actor
  ErrorActor,   \* the actor of register_error_actor
  Size,         \* maxsize of every queue, 0 for no limit
  Calls,        \* the connections the program may ask for
  MaxCalls      \* bound on how many it makes before start

All == Actors \cup {LogActor, ErrorActor}

ASSUME WiringAssumption ==
  /\ Size \in Nat /\ MaxCalls \in Nat
  /\ LogActor # ErrorActor
  /\ LogActor \notin Actors /\ ErrorActor \notin Actors

VARIABLES
  net,       \* the pools and their queues
  calls,     \* how many connections have been made
  phase,     \* what the Director is doing
  todo,      \* the actors it has yet to deal with in this phase
  entering,  \* the actor that is running but has not written so yet
  started    \* the actors whose consumers may run

vars == <<net, calls, phase, todo, entering, started>>

NoName == ""
Placeholder == "placeholder"

(* A queue is known by the slot it was made for: a slot is filled once.    *)
Slot(a, scope, n) == [owner |-> a, scope |-> scope, name |-> n]

(* connect_error_queue and connect_log_queue prefix the inbound name.      *)
InboundName(scope, n) == <<scope, n>>

(* The log actor's inbox, where Director.start leads all log queues.       *)
Inbox == InboundName("logs", "inbox")

FreshQueue == [items |-> <<>>, readers |-> {}, taken |-> <<>>]

Named(f, n) == n \in DOMAIN f

(* A dictionary after f[n] = q.                                            *)
Assign(f, n, q) == [m \in DOMAIN f \cup {n} |-> IF m = n THEN q ELSE f[m]]

-----------------------------------------------------------------------------
(* Faulty forms of the operators below, against which the runs are tried.  *)

(* dump takes from the wrong end                                           *)
DumpReversed(w, from, to) ==
  LET batch == [i \in DOMAIN w.queues[from].items |->
                  w.queues[from].items[Len(w.queues[from].items) + 1 - i]]
  IN  [w EXCEPT !.queues[to].items = @ \o batch, !.queues[from].items = <<>>]

(* a queue that exists is taken for one that somebody reads                *)
RegisterUnread(w, b, n, q) == [w EXCEPT !.pool[b].inbound = Assign(@, n, q)]

(* start forgets to let the consumers run                                  *)
StartActorNotRun(a) ==
  /\ phase = "starting" /\ net.outcome = "ok" /\ entering = {} /\ a \in todo
  /\ a = LogActor => todo \cap Actors = {}
  /\ a = ErrorActor => todo = {ErrorActor}
  /\ entering' = {a}
  /\ UNCHANGED <<net, calls, phase, todo, started>>

-----------------------------------------------------------------------------
Room(w, q) == IF Size = 0 THEN Len(w.queues[q].items) + 1
                          ELSE Size - Len(w.queues[q].items)

(* Queue.dump: every item moves to the other queue.  Nobody reads yet, so  *)
(* a full destination makes the hub raise LoopExit in the put; dump        *)
(* swallows it, the item in hand is lost and the rest stays behind.  A     *)
(* queue dumped on itself is never empty.                                  *)
Dump(w, from, to) ==
  LET batch == w.queues[from].items
      fits  == IF Size = 0 \/ Len(batch) <= Room(w, to) THEN Len(batch) ELSE Room(w, to)
  IN  IF batch = <<>> THEN w
      ELSE IF from = to THEN [w EXCEPT !.outcome = "hung"]
      ELSE [w EXCEPT !.queues[to].items   = @ \o SubSeq(batch, 1, fits),
                     !.queues[from].items = SubSeq(batch, fits + 2, Len(batch))]

(* _InternalQueuePool.add of an existing queue: the placeholder, if it is  *)
(* still there, gives way to the first queue that is added.                *)
Add(w, a, scope, n, q) ==
  LET waiting == scope = "logs" /\ Named(w.pool[a].logs, Placeholder)
      dumped  == IF waiting THEN Dump(w, w.pool[a].logs[Placeholder], q) ELSE w
  IN  [dumped EXCEPT !.pool[a][scope] = Assign(Restrict(@, DOMAIN @ \ {Placeholder}), n, q)]

(* add without a queue makes one of that name.                             *)
AddNew(w, a, scope, n) ==
  Add([w EXCEPT !.queues = Assign(@, Slot(a, scope, n), FreshQueue)], a, scope, n, Slot(a, scope, n))

(* Actor.register_consumer                                                 *)
Register(w, b, n, q) == [w EXCEPT !.pool[b].inbound = Assign(@, n, q),
                                  !.queues[q].readers = @ \cup {b}]

(* Logger.log: the entry goes on every queue of the pool, once for each    *)
(* name the queue has there.  A put on a full queue does not return.       *)
Copies(w, a, q) == Cardinality({n \in DOMAIN w.pool[a].logs : w.pool[a].logs[n] = q})

FullFor(w, a) == {q \in Range(w.pool[a].logs) : Size # 0 /\ Copies(w, a, q) > Room(w, q)}

Log(w, a) ==
  LET entry == <<a, w.said[a] + 1>>
  IN  [w EXCEPT !.said[a]  = @ + 1,
                !.queues   = [q \in DOMAIN w.queues |->
                  IF q \in Range(w.pool[a].logs) \ FullFor(w, a)
                    THEN [w.queues[q] EXCEPT !.items = @ \o [i \in 1 .. Copies(w, a, q) |-> entry]]
                    ELSE w.queues[q]],
                !.outcome  = IF FullFor(w, a) = {} THEN w.outcome ELSE "stuck"]

(* Actor.__connect_queue past its checks.                                  *)
Link(w, scope, a, n, b, inName) ==
  LET known == w.pool[a][scope]
      inbox == w.pool[b].inbound
  IN  CASE ~Named(known, n) /\ ~Named(inbox, inName) ->
             Register(AddNew(w, a, scope, n), b, inName, Slot(a, scope, n))
        [] ~Named(known, n) /\ Named(inbox, inName) ->
             Add(w, a, scope, n, inbox[inName])
        [] Named(known, n) /\ ~Named(inbox, inName) ->
             Register(w, b, inName, known[n])
        [] OTHER ->
             Add(Dump(w, known[n], inbox[inName]), a, scope, inbox[inName].name, inbox[inName])

Connect(w, scope, a, n, b, inName) ==
  LET linked == Link(w, scope, a, n, b, inName)
  IN  IF linked.outcome = "ok" THEN Log(linked, a) ELSE linked

Connected(w, scope, a, n, b, inName) ==
  Named(w.pool[a][scope], n) \/ Named(w.pool[b].inbound, inName)

-----------------------------------------------------------------------------
Init ==
  /\ net = [pool    |-> [a \in All |->
                          [inbound |-> <<>>, outbound |-> <<>>, error |-> <<>>,
                           logs |-> [n \in {Placeholder} |-> Slot(a, "logs", n)]]],
            queues  |-> [q \in {Slot(a, "logs", Placeholder) : a \in All} |-> FreshQueue],
            said    |-> [a \in All |-> 0],
            outcome |-> "ok"]
  /\ calls = 0
  /\ phase = "connecting"
  /\ todo = {}
  /\ entering = {}
  /\ started = {}

(* Director.connect_queue and its two siblings: names that are not given   *)
(* are those of the other actor, the inbound one follows the outbound one. *)
(* A connection that exists raises QueueConnected and changes nothing.     *)
SourceName(c) == IF c.sourceQueue = NoName THEN c.destination ELSE c.sourceQueue

DestName(c) ==
  LET default == IF c.sourceQueue = NoName THEN c.source ELSE c.sourceQueue
  IN  InboundName(c.scope, IF c.destQueue = NoName THEN default ELSE c.destQueue)

(* Connections are between registered actors. The name of a placeholder is *)
(* a fresh uuid, so nothing else has it.                                   *)
ASSUME CallsAssumption ==
  /\ \A c \in Calls : /\ c.scope \in {"outbound", "error", "logs"}
                      /\ {c.source, c.destination} \subseteq All
                      /\ SourceName(c) # Placeholder
  /\ ErrorActor # Placeholder

ConnectQueue(c) ==
  /\ phase = "connecting" /\ net.outcome = "ok" /\ calls < MaxCalls
  /\ ~(c.check /\ Connected(net, c.scope, c.source, SourceName(c), c.destination, DestName(c)))
  /\ calls' = calls + 1
  /\ net' = Connect(net, c.scope, c.source, SourceName(c), c.destination, DestName(c))
  /\ UNCHANGED <<phase, todo, entering, started>>

(* Director.start: default connections first ...                           *)
StartDirector ==
  /\ phase = "connecting" /\ net.outcome = "ok"
  /\ phase' = "setup"
  /\ todo' = Actors
  /\ UNCHANGED <<net, calls, entering, started>>

(* (Faulty form of the default connections: a log connection that exists   *)
(* raises out of start.)                                                   *)
WithLogsChecked(w, a) ==
  IF Connected(w, "logs", a, "logs", LogActor, Inbox)
    THEN [w EXCEPT !.outcome = "stuck"]
    ELSE Connect(w, "logs", a, "logs", LogActor, Inbox)

(* ... the error actor for those without an error queue; whatever that     *)
(* raises is printed, a queue that is full or connected already included;  *)
WithErrors(w, a) ==
  LET inName == InboundName("error", a)
      linked == Connect(w, "error", a, ErrorActor, ErrorActor, inName)
  IN  IF DOMAIN w.pool[a].error # {} \/ Connected(w, "error", a, ErrorActor, ErrorActor, inName)
        THEN w
        ELSE [linked EXCEPT !.outcome = "ok"]

(* then, whether connected already or not, the log actor's inbox.          *)
WithLogs(w, a) == Connect(w, "logs", a, "logs", LogActor, Inbox)

SetupActor(a) ==
  /\ phase = "setup" /\ net.outcome = "ok" /\ a \in todo
  /\ net' = WithLogs(WithErrors(net, a), a)
  /\ todo' = todo \ {a}
  /\ UNCHANGED <<calls, phase, entering, started>>

(* The log actor's own log and the error actor's come last.                *)
SetupOwnLogs ==
  /\ phase = "setup" /\ net.outcome = "ok" /\ todo = {}
  /\ LET own == WithLogs(net, LogActor)
     IN  net' = IF own.outcome = "ok" THEN WithLogs(own, ErrorActor) ELSE own
  /\ phase' = "starting"
  /\ todo' = All
  /\ UNCHANGED <<calls, entering, started>>

(* Actor.start lets the consumers run, then writes an entry.  The          *)
(* registered actors are started first, the error actor last.              *)
StartActor(a) ==
  /\ phase = "starting" /\ net.outcome = "ok" /\ entering = {} /\ a \in todo
  /\ a = LogActor => todo \cap Actors = {}
  /\ a = ErrorActor => todo = {ErrorActor}
  /\ entering' = {a}
  /\ started' = started \cup {a}
  /\ UNCHANGED <<net, calls, phase, todo>>

(* On a full queue the entry waits for the reader, if one is running.      *)
StartLogged(a) ==
  /\ entering = {a} /\ net.outcome = "ok"
  /\ \A q \in FullFor(net, a) : net.queues[q].readers \cap started = {}
  /\ net' = Log(net, a)
  /\ entering' = {}
  /\ todo' = todo \ {a}
  /\ phase' = IF todo = {a} THEN "running" ELSE phase
  /\ UNCHANGED <<calls, started>>

(* A consumer of queue q takes what is at its head.                        *)
Take(b, q) ==
  /\ b \in started /\ b \in net.queues[q].readers
  /\ net.outcome # "hung" /\ net.queues[q].items # <<>>
  /\ net' = [net EXCEPT !.queues[q].items = Tail(@),
                        !.queues[q].taken = Append(@, Head(net.queues[q].items))]
  /\ UNCHANGED <<calls, phase, todo, entering, started>>

Starting == \/ \E a \in All : SetupActor(a) \/ StartActor(a) \/ StartLogged(a)
            \/ SetupOwnLogs

Taking == \E b \in All : \E q \in DOMAIN net.queues : Take(b, q)

Next == \/ \E c \in Calls : ConnectQueue(c)
        \/ StartDirector
        \/ Starting
        \/ Taking

Spec == Init /\ [][Next]_vars /\ WF_vars(Starting)
             /\ \A b \in All : WF_vars(\E q \in DOMAIN net.queues : Take(b, q))

-----------------------------------------------------------------------------
Entries == All \X Nat

TypeOK ==
  /\ net.outcome \in {"ok", "stuck", "hung"}
  /\ \A q \in DOMAIN net.queues :
       /\ net.queues[q].items \in Seq(Entries)
       /\ net.queues[q].readers \subseteq All
       /\ Size # 0 => Len(net.queues[q].items) <= Size
  /\ \A a \in All : \A scope \in {"inbound", "outbound", "error", "logs"} :
       Range(net.pool[a][scope]) \subseteq DOMAIN net.queues
  /\ phase \in {"connecting", "setup", "starting", "running"}
  /\ calls \in 0 .. MaxCalls
  /\ todo \subseteq All /\ entering \subseteq todo
  /\ started = IF phase \in {"starting", "running"} THEN (All \ todo) \cup entering ELSE {}

(* Whatever an actor can put on is consumed by an actor that has it among  *)
(* its inbound queues, whichever way and in whichever order the connection *)
(* was made; only the placeholder has no reader.                           *)
SentIsRead ==
  \A a \in All : \A scope \in {"outbound", "error", "logs"} :
    \A n \in DOMAIN net.pool[a][scope] \ {Placeholder} :
      LET q == net.pool[a][scope][n]
      IN  /\ net.queues[q].readers # {}
          /\ \A b \in net.queues[q].readers : q \in Range(net.pool[b].inbound)

(* A reader sees the entries of one actor in the order they were written,  *)
(* whatever dumps they went through.                                       *)
EntriesInOrder ==
  \A q \in DOMAIN net.queues :
    LET seen == net.queues[q].taken \o net.queues[q].items
    IN  \A i, j \in DOMAIN seen : i < j /\ seen[i][1] = seen[j][1] => seen[i][2] <= seen[j][2]

(* What that takes of the program: its log connections are checked, and an *)
(* actor that leads a log queue to the log actor's inbox itself calls it   *)
(* "logs" if it has any queue of that name. Otherwise the dump of a        *)
(* default connection may lay older entries behind younger ones.           *)
LogsByHand ==
  /\ \A c \in Calls : c.scope = "logs" => c.check
  /\ \A c, d \in Calls :
       /\ c.scope = "logs" /\ SourceName(c) = "logs"
       /\ d.scope = "logs" /\ d.source = c.source
       /\ d.destination = LogActor /\ DestName(d) = Inbox
       => SourceName(d) = "logs"

(* Director.start starts every actor, and then every entry written so far, *)
(* also before the start, reaches a reader.                                *)
StartStartsAll ==
  phase = "setup" ~>
    /\ phase = "running" /\ started = All
    /\ \A a \in All : \A i \in 1 .. net.said[a] :
         \E q \in DOMAIN net.queues : <<a, i>> \in Range(net.queues[q].taken)
=============================================================================
