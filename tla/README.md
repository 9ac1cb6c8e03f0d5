# A formal model of compysition

compysition is a Python framework in which *actors* exchange *events* over bounded
queues. Everything runs on gevent greenlets in one process; some actors talk to other
processes over ZeroMQ or UDP. These modules model its core in TLA+, check it with TLC on
small instances and prove part of it with TLAPS for all instances. Paths below are
relative to the repository, line numbers are those of the modelled commit.

## 1. Inventory

| Component | State | Operations | Interacts through |
|---|---|---|---|
| Queue, QueuePool (`queue.py`) | items, sleeping putters, the `has_content` event; per actor four pools of named queues | put, get, wait_until_content, wait_until_empty, dump; add, join | shared between one reader and many senders |
| Actor (`actor.py`) | run and loop events, one consumer greenlet per inbound queue, a greenlet per event | connect, start, stop, consume, send_event, send_error, rescue | queues |
| Director (`director.py`) | registered actors, log actor, error actor | connect_queue, connect_error_queue, connect_log_queue, start, stop | calls the actors |
| Logger (`logger.py`) | the actor's log pool | log | queues to the log actor |
| Event (`event.py`, `errors.py`) | id, meta id, data, error, free attributes | construction, conversion between kinds, deep copy on every further send | carried by the queues |
| EventJoin (`actors/eventjoin.py`) | an entry per event id with one report per inbound queue | consume, purge | queues, timer |
| HTTPServer (`actors/httpserver.py`) | responders: a response queue per outstanding event id | callback (request), consume (response) | WSGI greenlets, queues |
| EventRouter (`actors/eventrouter.py`) | filters, default outboxes | consume | queues |
| MDP broker (`actors/mdpbroker.py`) | services with held requests, workers with liveness | requests, replies, heartbeats, verification, purge | ZeroMQ |
| MDP client, worker (`actors/mdpactors.py`) | outbound queue, table of requests, brokers | send, listen, verify | ZeroMQ, queues |
| MDP registration (`actors/mdpregistrar.py`, `actors/util/mdpregistrar.py`) | known brokers with liveness; verified and unverified brokers | register, forward heartbeats, disconnect, verify, round robin | ZeroMQ |
| UDP election (`actors/util/udplib.py`) | peers with expiry, burned in, is_master | ping, receive, reap, determine master | UDP broadcasts |
| EventGenerator (`actors/eventgenerator.py`) | scheduler, interval | produce, delayed or gated by the election | timer, queues |
| EventDataAggregator, TCP, SMTP, ZeroMQ, REST, authentication, transformations, sinks | little or none | consume | queues, sockets, files |

What is hard in it, and what makes each part correct:

* **Queue.** A put may sleep until the hub serves it after a get, and others run in
  between. Correct: no wakeup is lost, the limit holds, each sender's events keep their
  order, everything is consumed in the end.
* **Actor.** An event in a consume that sleeps is on no queue; failures are retried a
  bounded number of times by way of the actor's own full queue; stop may come at any
  moment. Correct: an event object is always in exactly one place, failures reach the
  error queue after exactly the promised number of tries, duplicates come from rescue
  alone, `blocking_consume` keeps the order, full queues do not end in deadlock.
* **Director and Logger.** Connections may be made by either name in any order, log
  entries are written before anybody reads them and are moved between queues meanwhile.
  Correct: whatever is put on is read, entries are neither lost nor reordered, start
  ends with everything started.
* **EventJoin.** Reports of many ids interleave with sends that sleep and with a purger.
  Correct: joins are whole, no data is used twice, data is lost only as documented.
* **HTTPServer and routers.** An event comes back to the server several times, changed,
  with an error, or never, and every send and conversion makes a new one of it. Correct:
  at most one response per request, in a class the client accepts and with the status of
  the error; nobody waits for an answer that no event will bring.
* **MDP.** Sockets are closed with messages on them, responses are dropped, workers,
  brokers and the registration service end, and liveness is counted on three sides.
  Correct: a request is in one place and is worked on once; peers, brokers and workers
  find each other again; what has ended is forgotten.
* **UDP election.** Pings are lost and late. Correct: one master when pings arrive, and a
  second one only after a known length of silence.

Section 7 of this file and `hazards` in `PROJECT.json` say which of these are covered.

## 2. Modules

| Module | Models | Composes |
|---|---|---|
| `EventQueue` | one queue as operators on a record | |
| `EventChannel` | what a queue promises: a bounded first-in first-out channel | |
| `ActorQueue` | one queue with senders, hub, consumer and a join | `EventQueue`, implements `EventChannel` |
| `ActorNet` | actors that consume, send, fail, rescue and stop | `EventQueue`, one per queue of the network |
| `ActorNetOrder` | a history of what each queue accepted, for `WorkInOrder` | extends `ActorNet` |
| `MCActorNet`, `MCActorNetOrder` | instances of the two | |
| `Wiring`, `MCWiring` | connections, placeholders, default connections, start | |
| `EventJoin`, `MCEventJoin` | the joining actor with its purger | |
| `EventKinds` | the classes of events: what they store, conversion, copies, errors | |
| `EventFilters` | routers, their filters and their start, as operators | |
| `HttpGateway`, `MCHttpGateway` | an HTTP server, a router behind it and the actors behind the router | `EventKinds`, `EventFilters`, implements `ResponseTable` |
| `ResponseTable` | what a server promises: each request answered, refused or given up, once | |
| `BrokerManager` | what an MDP peer knows of brokers, as operators on a record | |
| `Majordomo`, `MCMajordomo` | MDP clients, brokers and workers, and the sockets between them | `BrokerManager`, one per client and worker, implements `RequestService` |
| `RequestService` | what brokers and workers promise: a request taken once, run at most once, answered or lost | |
| `Registration`, `MCRegistration` | the registration service between brokers and managers | `BrokerManager`, one per manager |
| `Election`, `MCElection` | the choice of a master over UDP | |
| `ActorQueueProofs`, `ActorNetProofs`, `WiringProofs`, `EventJoinProofs`, `HttpGatewayProofs`, `MajordomoProofs`, `RegistrationProofs`, `ElectionProofs` | proofs | extend the modules they are about |

### How the model corresponds to the code

gevent runs one greenlet at a time and switches only in blocking calls. A step of a model
is therefore what one greenlet does from one such call to the next; nothing else is atomic.
`map` in `PROJECT.json` gives the lines of every definition.

**EventQueue.** `Put` and `Get` are the two methods with what gevent's queue does inside
them. A put on a full queue leaves the greenlet in `putters`; a get that finds putters
schedules an unlock on the hub (`unlock`), whose turns are `Admit` and `EndUnlock`.
`content` is `has_content`. Line 112 of `queue.py` compares the bound method `qsize` with
0, so a get never clears `content`; only a get that fails (`GetEmpty`) does, and the
consumer passes once more through its loop. That this stale flag does no harm to a
consumer is what `NoLostWakeup` and `EverythingConsumed` show.

**ActorNet.** A *task* is an execution of `__do_consume`, or a greenlet outside any
consumer that sends a fresh event. It begins, sends along its list `todo`, sleeping where
a queue is full, and ends by returning, by refusing the event (`InvalidActorInput` and
`InvalidEventConversion`, which are logged and end it), or by raising; a refusal or a raise may
come after any of its sends (`Course`), and a raise leads to
the rescue's sleep and the put on the actor's own queue, or to the error queues. The
handler of `QueueFull` cannot run: every put of the framework blocks, and none has a timeout. What `consume` does with an event is
the environment's choice among `Behaviour[a]`. The consumer takes one event at a time and waits (`ConsumeInline`) or spawns a
task per event (`ConsumeAll`). `ConsumeAll` takes all events on the queue in one step:
the code's loop does not yield between them (spawn does not switch, and get does not
block). `Out` and `Err` are ports, the entries of an actor's pools: two ports may lead to one
queue (`Leads`), but no actor has a port twice. `copies` and `settled` are history
variables. An event object is told from all others by its id and by the legs it has come:
the port of each send and how often the sender had been rescued by then; a rescue changes
the object's counters in place, and the next send hands them down.

**Wiring.** A queue is known by the slot it was made for, so two names of one queue are
one queue. `Link` has the four cases of `__connect_queue`; the last dumps one queue on
another. A put on a full queue before anybody reads makes the hub raise `LoopExit` when
nothing else can run: in `dump` the bare `except` swallows it, and with it the entry in
hand; elsewhere the Director stops there (`outcome = "stuck"`). Actors are started in any
order, as they come out of a dictionary, log actor and error actor last. The actors have
no `pre_hook`, so that each writes one entry when it starts.

**EventJoin.** A part is one event on one inbound queue. `consume` runs without a break
up to its sends; `Complete` ends there and leaves a task in `sending`, whose sends and
final delete are steps of their own. Purging compares ages; here an entry becomes old at
some moment (`Age`) and the purger, at some later one, deletes all old entries.

**EventKinds.** A class is a data format and whether it is an HTTP class, which gives the
six event classes; subclassing is `Sub`. Data is abstracted to the forms that the
conversion methods tell apart, text to what a parser makes of it. `Stored` is the table of
conversion methods; `Convert` follows `Event.convert`, which keeps the bases that hold no
data so that an HTTP event stays one; `Copy` is `__getstate__` followed by `__setstate__`,
which every send does, and which sets the error once more.

**EventFilters.** A router is configured (`Router`, `SimpleRouter`, `MethodRouter`),
checked and completed by its `pre_hook` (`CanStart`, `WithDefaults`) and then sends an
event to `Deliveries`, a set of ways: each is the outbox with the place in the router's
lists that leads to it, so a queue that is listed twice gets two copies. `re.search` is the relation `Found`, and XPath or JSON lookup the
`nodes` of an event. The constructor's `next_filter` argument is dropped, as in the code
(`eventrouter.py:235` assigns the result of a setter that returns nothing); only
`SetNextFilter` makes a chain, and its outboxes are those of the first filter, not, as the docstring
at `eventrouter.py:212-215` has it, those of the next.

**HttpGateway.** `Request` is `HTTPServer.callback`: it makes the event or the error,
remembers a responder and sends; a refused event goes to the server's own first inbound
queue, and without one the request fails there (`RefuseBare`). The plug-in that checks
content types is applied when bottle makes a route's callback and not again (`cached`).
`Route` is a turn of the router, `Work` of an actor behind it, with the conversion to the
actor's input class that `__do_consume` makes. `consume` of the server is `Respond`, or
`Strand` when the conversion or the formatting raises after the responder was popped, or
`Unknown` when it was popped before. The queues between these actors are sets here: how
events wait in them is the subject of `ActorQueue` and `ActorNet`. A body is never empty:
an error without a body, status 204, is left out with the headers.

What an actor does with an event it takes is one of `Does`: send it on, with its status or as
"201 Created" (a `RESTTranslator`); send nothing, as a sink or an actor that waits for more; refuse
it, which ends at an entry in its log; or raise, which ends there too if its error queue leads
nowhere (`Outcome`). `Heard` tells the requests of which the server is sure to hear whatever the
actors do: those it refuses itself, those the router refuses with its errors connected, and those of
which at least one copy goes to an actor that `Reports`.

**BrokerManager, Majordomo.** Peers and brokers exchange messages over one pair of sockets
per broker (`toB`, `fromB`). Each greenlet's turn is an action: `mediate` (with the purge
at its end), `verify_brokers`, `send_heartbeats`, `__consume_outbound_queue`, the listener.
A ROUTER socket drops what is for a peer whose inbound socket it does not know yet
(`ready`); closing a connector loses what has arrived on it and may lose what was sent
(`CloseSockets`). What a broker sends in one turn is put together in `sent` and goes out at the
end of it (`Delivers`). `dispatch` hands what is held round the healthy workers (`Share`), who
move to the end of the line in the order of their last turns (`Used`); the loop's way of
doing this by taking out and appending is the same with one worker, one healthy worker or
several. An expiry that passes sets `late`, and the next purge reduces liveness.
A connector is tried `Attempts` times whether or not anything was sent, as in the code
(`mdpregistrar.py:299`), with the first attempt at the first call although the interval of
the verification manager is not over (`wait`).

**Registration.** `Receive` and `Idle` are turns of the service's loop, each with the
liveness check at its end, which takes one from every expired broker per turn, and not one
per missed heartbeat as the comment at `mdpregistrar.py:77` says. What is published goes
through `news`, from which an item may be missed.

**Election.** Time passes in intervals (`Tick`), in each of which every interface that is
not busy pings, reads its socket and takes a turn of `run`. `age` counts intervals since
a peer was heard, so that expiry, which the code has as a moment, happens within the
interval after the last. A ping that fails ends its greenlet, because its handler calls
`self.loop.stop`, which does not exist (`PingFails`).

## 3. Runs

| Run | Instance | Shows |
|---|---|---|
| `queue` | 3 producers, 2 puts each, 2 slots | streams intact, no lost wakeup, implements the channel, everything consumed |
| `net_service` | blocking front and worker, 3 one-slot queues, rescue once, stop | an event object is in one place; error and rescue accounting |
| `net_loop` | an event sent once to `a` and twice to `b`, whose errors and results lead to each other; `b` is blocking and has two outbound queues, `a` two error ports; one slot each | sends reach all ports or none; `b` works one by one and in order; full queues in both directions, everything settles |
| `wiring` | 2 actors, log and error actor, up to 2 of 10 connections | what is put on is read, entries stay in order, start ends |
| `wiring_explicit` | the default log connection made by hand | **violation**: start never ends |
| `join` | 3 inboxes (one sees an id twice), 2 ids (one cannot be joined), 2 outbound queues, purger | whole joins, no part twice, losses explained, entries leave |
| `gateway` | 2 requests of 10 shapes, 4 routers, 4 actors behind them that reply, raise, refuse or send nothing | implements the table of responders; answers in a class the client accepts, with the status of the error; a request the server is sure to hear of has an event on its way, and is answered if an answer can be given |
| `majordomo` | 1 broker, 1 worker, 1 request, liveness 2, a crash, a hurried timer | the worker is registered again whatever happens; the request settles |
| `majordomo_service` | 1 broker, 2 workers, 2 requests, a crash, a hurried timer | a request is in one place; implements the service that works on it at most once; line and table of workers agree |
| `registration` | 2 brokers, 1 manager, a lost answer, missed news, a broker that ends, a restart | the manager verifies exactly the brokers that run; none is forgotten by the service while a manager keeps it |
| `election` | 2 nodes, 4 lost pings or missed intervals, 1 death | two masters need silence; the masters settle unless a mute node runs on |
| `election_mute` | the same without lost pings or missed intervals | **violation**: a node whose ping loop has ended stays master beside another |

Each violation is a disagreement between the code and its own words; `findings` quotes both.
In `election_mute` the greater of two nodes fails once to send a ping. Its handler calls
`self.loop.stop` (`udplib.py:159`), there is no `loop`, and the greenlet ends; `run` goes on, hears
only a lesser node, and keeps the node a master, while the other reaps it and makes itself one.

### Divergences that no run is spent on

Modelling met more of them. The models do what the code does:

* `Queue.wait_until_empty` (`queue.py:132`) tests the negation of what it waits for, so it
  returns beside a queued event. Nothing in the package calls it.
* After `stop`, the consumer drains its queue without regard to `blocking_consume`
  (`actor.py:242`; `SerialConsume` excludes it), and a consumer asleep in
  `wait_until_content` does not notice `stop` until another event comes.
* An `EventJoin` with one inbound queue never sends, because the branch that makes an entry
  (`eventjoin.py:127-129`) does not look whether it is complete. Data that compares
  equal to False counts as not reported (`eventjoin.py:45`); the proofs name the
  assumption that there is none.
* The default queue of a `SimpleRouter` becomes a default outbox twice, so it gets two
  copies of an event that no filter matches (`SimpleRouter`, `WithDefaults`). The server
  answers the first and raises on the second (`ImplementsTable` holds).
* An answer of `{}` to a client that accepts XML, or the XML report of an exception that
  is none of the package's, raises after the responder was popped: the client is never
  answered (`Strand`).
* A status that an actor sets after an error is set back by the next copy (`WithError`).
* `changelog.rst:11` has a request with a content type that does not match answered with 415; the
  code checks only until a first request has passed (`Passes`).
* The docstring of `EventFilter` (`eventrouter.py:212-215`) against what becomes of `next_filter`
  (section 2), and the comments on liveness (`mdpregistrar.py:101`, `util/mdpregistrar.py:77`: one for
  each missed heartbeat) against `Checked`, which takes one in every turn.
* The log entries of an actor may meet out of order in the log actor's inbox. If the program
  leads a log queue of an actor into that inbox under another name than "logs", and has a queue
  "logs" of that actor elsewhere, the default connection dumps the older entries of the latter behind
  the younger ones of the former (`Link`, its last case); the same can happen with
  `check_existing=False`. `LogsByHand` excludes it, and the calls of the runs meet it. No
  doc or test promises the order, so this is not listed as a finding.
* A worker whose verification response was dropped is verified only after the broker has
  purged it; a heartbeat that makes a worker healthy does not dispatch what is held.

### Bounds, and why they are enough

* One slot per queue makes every put meet a full queue; two slots (`queue`) let a put
  overtake a sleeping putter, which takes a free slot beside a waiter, and leave a queue
  partly filled. Three producers let one sleep, one overtake and one arrive.
* Two events make two tasks of one actor meet. In `net_loop` the one event is sent three times
  and by way of the loop makes several more: enough to have one in `b`'s consumer, one in
  each slot and others asleep in puts, in both directions at once. That it is enough shows when `a` is made
  blocking as well: then TLC finds both consumers asleep in puts on each other's full queue. `MaxHops` bounds how
  many queues an event crosses; the service has no longer path, the loop goes round once.
* `MaxRescue = 1` has a first try, a rescue and a failure for good; further rounds repeat.
* `Size = 12` in `wiring` has room for the entries that two connections, their copies
  under two names and the start itself can leave on one queue. With less room entries are
  lost or the Director stops at a full queue (section 2); nothing in the code promises
  otherwise, and the default size 0 has no limit.
* In `join` the second report of an inbox comes before, during or after the send, and with
  three inboxes an entry is partly reported, whole or purged in between; two ids show
  that they do not mix.

* The shapes of `gateway` have each accepted and refused content type, key, queue and
  data that can and cannot be parsed or converted to what is accepted; the four routers
  are of each type, with defaults, chains, duplicates and discarding. Requests only meet
  in `responders`, the table of ids; two of them meet there.
* `majordomo` has liveness 2, so that a worker may be known and skipped, two attempts and
  two reconnects. Attempts, reconnects and liveness are 1 in `majordomo_service`, where
  the question is what happens to requests; two workers let one take over the line while
  the other is purged, two requests queue up behind each other. One crash covers a peer
  and a broker lost with what they hold. `MaxHurries` counts timers (of seconds) that
  overtake messages (of milliseconds): without a bound everything could always be late,
  and nothing need ever come back.
* In `registration` one broker ends beside one that runs; one loss of each kind is enough
  for the manager to need the next heartbeat or request.
* In `election` the burn-in is shorter than the expiry, as in the code. Four faults are one
  more than an expiry, enough to make a second master and to have it step down again. With the
  burn-in the shorter, the run does not tell a reap that is a little early from silence since the
  start; `MastersNeedSilence` holds for both orders of the two, and its invariant (`Unheard`) tells them apart.

`CHECK_DEADLOCK FALSE` stands in every configuration but that of `election`, where time
always passes: the other runs end when their events or faults are used up and everything
has been delivered, which is a legal end.

### Fairness

The hub runs every greenlet that is ready; hence weak fairness of each producer, consumer,
unlock and task step. A sleeping put is not ready and gets no fairness of its own: that it
is served in the end is a result. Starting is fair because a Director starts what it
connects; nobody has to stop or to join. In `EventJoin` sends end because the queues are
read (the result of `queue` and `net_loop`), time passes and the purger runs.

In `HttpGateway` whatever is on a queue is consumed; clients need not ask. What an actor does is its
own choice each time, with no fairness: an actor that may swallow or refuse may always do so. In `Majordomo`,
`Registration` and `Election` every loop of a process that runs turns (weak fairness of
messages, listeners, queues). Timers are disabled again and again by messages under way
(`InTime`) and run out in spite of that, hence strong fairness of `VerifyBrokers`,
`SendHeartbeats`, `MediateNothing` and `Register`. An expiry (`Lapse`, `Expire`) is fair
only for a process that sends no heartbeats: while it sends them, it need never expire.
Crashes, losses, missed news and restarts have no fairness and are bounded.

## 4. Proofs

Each theorem holds for every value of the constants that satisfies the named assumptions
of its module.

* `ActorQueueProofs`: `TypeCorrect`, `WakeupsNeverLost`, `QueueImplementsChannel` and
  `StreamsKept`. The invariant is `TypeOK` with `NoLostWakeup`, inductive together:
  `ItemsAnnounced` (an item means `content` is set), `PuttersServed` (a sleeping putter
  means no room or an unlock under way) and `WithinSize`. There is one lemma
  per operator of `EventQueue`, so the step proofs only name the operator each action applies. The
  refinement maps accept to the moment of placement on the queue, either by a put with room
  or by an unlock. `StreamsIntact` looks at everything put so far, in the order consumed,
  queued, asleep (`Flow`). It is not inductive: it does not say that a producer which may
  put is not asleep with an earlier event. With that (`Streams`), a put that overtakes
  sleepers never overtakes one of the same producer, and an unlock moves the first of the sleepers to the end of
  the queue, which is the same place in `Flow`.
* `ActorNetProofs`: `NetTypeCorrect` and `NetQueuesSound`, the same soundness for every
  queue of every network; and the accounting of events: `NetConservation`,
  `NetSendsComplete`, `NetErrorOnlyAfterRescues`, `NetDuplicatesOnlyFromRescue`. None of
  these is inductive, and they need each other: `Accounts` is the invariant. Its parts:
  there is one copy for each way of being made, each made of another by one send
  (`OneOfEach`, `MadeOfCopies`), which had been tried at least as often as the send says
  (`TriesGrow`), and only rescuers count (`CountedByRescuers`); what is on a queue, or asleep
  before it, was sent there and not sent on in its present try (`QueuedRight`); every copy
  is somewhere and in one place (`OnePlace`); a task has sent what it has no longer to send
  (`NotSentYet`, `AllOrNone`). The point is that a send makes an object that was not there
  before (`SentIsNew`): a second send through the same port would have to come after a
  rescue, whose counter is then part of the leg. There is one lemma for each kind of step
  (`TakeStep`, `AdmitStep`, `SendStep`, `RescueStep`, `RequeueStep`, `SettleStep`).
  `NetSerialConsume` has an invariant of its own on top (`SerialConsumers`): the tasks of such
  a queue are one at most, run inline, and only while the consumer is busy (`Serial`).
  `NetWorkInOrder` is about `ActorNetOrder`. It excepts what breaks the order on purpose:
  a rescue puts an event back behind later ones, a queue whose reader rescues accepts an event
  again, and after a stop what is left is worked on all at once. Every step is one of five kinds
  (`StepKind`): nothing moves, a consumer takes, a task sends, a rescue puts back, the hub
  admits. What is on a queue is the end of its record (`Ends`), so that a queue's events are
  taken in order of acceptance (`Taken`); the one task of an orderly queue is at work on the event taken
  last (`AtWork`); and nothing was made of what is still on the queue (`MadeOfTaken`, from
  `QueuedRight`). What a queue accepts, by a put or from a putter that slept meanwhile, was
  thus made of the last one taken (`NewIsOfTaken`), and comes after all that was made of earlier ones.
* `WiringProofs`: `WiringTypeCorrect`, `SentEventsAreRead` and `EntriesStayInOrder`, for any
  actors, any set of connections and any number of them. What each operator may do to the
  net is a relation (`Dumped`, `Added`, `Registered`, `Logged`, `Opened`, `Taken`), and
  `LinkDoes` shows that a connection is one of four combinations of them. `ReadsBut` is the
  invariant behind `SentIsRead`: readers of a queue and inbound pools agree, and what can be put on
  has a reader, but for the queue that a connection in progress has made; it also says that every
  queue stands where its slot says, so that a slot is never made twice. `EntriesInOrder` needs the
  whereabouts of every actor's entries (`LogInv`): those of an actor with a placeholder are there only
  (`Held`), other queues than the log actor's inbox have entries of their owner only (`Own`,
  `Leads`), and an actor that has not got its default connection has no entries in that inbox,
  unless the inbox is its own queue (`MainApart`). So what is dumped meets nothing by the same
  author (`Pour`), and what is written is the latest. The theorem has the hypothesis
  `LogsByHand` on the connections that the program asks for; without it the property is false
  (section 3), which the attempt to prove `MainApart` brought up.
* `EventJoinProofs`: `JoinsAreWhole`, `NoPartUsedTwice`, `LossNeedsPurge`,
  `NothingLostUnpurged`. `JoinInv` adds to the properties that parts lie in the place of
  their id and inbox (`EntriesPlaced`, `TasksWhole`), that a part used once has been
  joined (`UsedMeansJoined`) and lies, if it is still in an entry, in a complete one
  (`UsedInComplete`): so no incomplete entry holds a used part, and completing uses each
  part for the first time. `SendInv`, for the losses, adds that a send still has its
  entry unless its id was purged meanwhile (`EntryOfSend`), and that there is one such
  send per id (`OneSend`). The last two theorems assume that no data compares equal to
  False: such data is replaced by the next report.

* `ElectionProofs`: `ElectionTypeCorrect` and `MastersNeedSilence`. `AtMostOneMaster` speaks
  of ages of peers alone and is not inductive. `IInv` adds `Unheard`: a node that does not
  have another that runs among its peers has not heard it since it reaped it, for at least
  an expiry, or since one of the two started (`Elapsed`); and a node that has burned in
  has run for a burn-in. So a lower master, which has burned in and does not know the
  higher one, has an age for it of at least one of the two.
* `HttpGatewayProofs`: `GatewayTypeCorrect`, `OneAnswer`, `GatewayKeepsTable`, `AnswersFit` and `NobodyWaitsInVain`. `Fit` is an
  invariant of events, kept by `Copy`, `WithError` and every conversion that succeeds
  (`CopyFits`, `ErrorFits`, `ConvertFits`): the data is of its class's format and the status is that
  of the error, or 201 without one; actors that set another status are not modelled. `Waiting` says that a request which has not been made, or has a responder,
  has no answer yet. `PendingInFlight` is not inductive: an event on its way may be with an
  actor that swallows it. `Pending` says that of a request the server is sure to hear of, one is
  with the router, the server or an actor that reports; and `Travels` that until an actor has taken it
  an event is as callback made it, so that what `Reports` says of the actor applies to it
  (`ReportsOutcome`). `SentOn` is what a router or an actor does with an event, whatever its
  configuration: it sends any number of sound events for the same request, and one that is `Coming` if that
  one was and the server is sure to hear. The theorems
  hold for all routers and shapes; `Found` and the paths need no assumption. The type of what is in
  flight needs that routers have filters and lists of names, no more (`RouterAssumption`).
  The refinement of `ResponseTable` (`Tabled`) maps what waits to the ids with a responder: a
  callback refuses or waits, `Respond` answers, `Strand` gives up and every other step stutters.
  `AnsweredOnce` follows from either.
* `RegistrationProofs`: `ServiceRemembers` and `RegistrationTypeCorrect`. `NobodyForgotten` is inductive together with the
  shapes of the state (`Shapes`). A turn of the service adds its news at the end
  (`PublishTells`) and publishes the end of exactly the brokers it removes
  (`DisconnectsAll`), so the last news of a broker it does not know is never a heartbeat
  (`TurnKeeps`); a manager that takes news from the front does what they say
  (`UpdateKeeps`, with one lemma per operator of `BrokerManager`). In the type, that a
  manager waits only for answers of brokers it is connected to (`AskedConnected`) keeps the
  rest: without it `Verify` could bring in a broker the manager had given up.
* `MajordomoProofs`: `MajordomoTypeCorrect`, `RequestsInOnePlace`, `RequestsRunAtMostOnce` and
  `MajordomoServes`.
  Requests are at places (`Place`): the queue of a peer, held by a broker, on a socket in
  either direction, inside a worker. `Accounted` says of every request that an open one is
  at exactly one place and no other at any, and that it has been worked on exactly when its
  place is on the way back (`Done`); `Queues` that no sequence has a request twice and what
  kind of message each socket carries; `Origins` that a worker knows the origin of what it
  has. `RunAtMostOnce` is not inductive without these: what reaches a worker must not
  have been at one. Steps that move nothing, move one request or lose some are told apart once
  (`NoneMoves`, `OneMoves`, `SomeLost`), so that an action's proof only shows what it does to
  the loads of places. A turn of a broker is described by what it does to the
  broker's record (`Onward`: the requests held before are held or in what is sent, each
  once; `Handled` adds the message that came in), with lemmas for `Purge`,
  `Dispatch`, `Register` and the rest, and then by where the messages go (`DeliveryMoves`).
  That `Share` deals every held request to one worker rests on `Nth`: the members of a
  finite set ordered by an injective rank are numbered by how many are below each (`Ranked`), which
  needs counting but no induction. The same lemma shows that round robin always finds the broker
  it looks for (`NextBrokerIs`). The refinement of `RequestService` (`Serves`) needs all of this
  invariant: that a worker runs a request which is open and has not run, and that a reply is to one
  which is open and has (`InboundServes`), are facts about places; a crash, a closed socket or a
  dropped message loses what was there, and only what is open can be anywhere (`OpenLost`).

The assumptions are those of the modules, and say what the code gives: a pool is a
dictionary, so an actor has no port twice (`PortAssumption`); each broker
has one place among the keys of a dictionary (`Rank`); connections are between registered
actors, and nothing has the name of a placeholder, a fresh uuid (`CallsAssumption`); and peers and brokers have different
identities (`MajordomoAssumption`).

Only model-checked: all liveness (`EverythingConsumed`, `EverythingSettles`,
`WorkersComeBack`, `RequestsSettle` and the like), because the provers know neither fairness
nor `ENABLED`.

## 5. Plan

What is left, in this order:

1. A composition of `Majordomo` with `Registration`, in place of the environment
   (`Announce`, `Retract`) that now tells peers of brokers. The two share `BrokerManager`; their product
   is too large for the runs as they stand.
2. `EventDataAggregator`, as a variant of `EventJoin` without ids.

## 6. Not modelled

Log levels and wording, block diagrams, the text of data and of error reports, HTTP routes
(bottle's), headers (and with them `basicauth.py:53`, which appends to a dictionary and so raises), statuses other
than 201 that an actor sets by hand, events that cannot be pickled, pagination and sockets below the message are left out: no property is about them.
Stateless actors (REST translation, authentication, transformations, sinks) are
instances of the behaviours `ActorNet` gives an actor. `Director.stop` calls
`stop` of its actors one after the other, which `ActorNet` has as single steps; a second
`start` of a Director is left out. Every interface and peer of the MDP and UDP modules
starts once: a process that ends does not come back under its identity, but a broker or
worker may be absent from any moment on, and the registration service restarts.
The scheduler of `EventGenerator` is a library's, and what an EventGenerator does itself is
one send of a fresh event. TCP, SMTP and ZeroMQ actors are I/O around the flow of events.

## 7. Hazards

`PROJECT.json` lists them with their lines. Covered: sleeping and overtaking putters, the
stale `has_content`, partial sends, rescue through a full queue, full queues in both directions,
stop at any moment, order under `blocking_consume`, placeholder dumps, connections in any
order, purges and repeated reports during a join's sends, answers that come several times
or cannot be formatted, refused requests, dropped verification responses, requests on
sockets that are closed, liveness on both sides of a broker, attempts that count unsent
requests, a forgotten broker, lost pings and a ping loop that dies. A ring of actors that are all
blocking, or a blocking actor that rescues into its own full queue, does get stuck: the
consumer sleeps in a put only it could make room for. Nothing in the repository promises
otherwise, so no run is about it; `net_loop` has one blocking actor.

Without a property, each for the reason given with it: a consumer that outlives `stop` and the drain
that then ignores `blocking_consume`, data that compares equal to False in a join, requests that a
broker holds while a worker recovers, the workers' table of requests, which only grows, and the
interval dictionary that all EventGenerators share. Where a property covers a hazard in part, as it
does an answer that cannot be given (such a request is given up once, and its client waits), the
entry says so.
