------------------------------ MODULE ActorNet ------------------------------
(***************************************************************************)
(* Actors connected by queues: compysition.actor.Actor.                    *)
(*                                                                         *)
(* Each queue is read by the consumer greenlet of one actor.  A consumer   *)
(* hands every event it gets to __do_consume, in a greenlet of its own or, *)
(* when the actor has blocking_consume, inline.  Such an execution is a    *)
(* task.  What an actor's consume does with an event is a choice: send it  *)
(* to all outbound queues, send nothing, or refuse the event or raise      *)
(* after some of the sends.                                                *)
(*                                                                         *)
(* gevent switches greenlets only in blocking calls.  A step here is what  *)
(* a greenlet does between two of them: a task's step ends in a put (and   *)
(* the sleep(0) or the wait after it), in the rescue's sleep, or at its    *)
(* end.  Logging is left out.                                              *)
(***************************************************************************)
EXTENDS EventQueue, FiniteSets

CONSTANTS
  Actor, Queue,
  Reader,        \* Reader[q]: the actor whose consumer reads q
  Port,          \* the entries of the actors' outbound and error pools
  Leads,         \* Leads[p]: the queue of p; several ports may share one
  Out, Err,      \* outbound and error ports of an actor, in sending order
  Blocking,      \* actors built with blocking_consume=True
  Rescue,        \* actors built with rescue=True
  MaxRescue,
  Behaviour,     \* what the consume of an actor may do
  Event,         \* the events that greenlets outside the actors' consumers
  Entry,         \*   send (HTTP requests, generators), and the actor sending
  Stoppable,     \* actors somebody may stop
  MaxHops,       \* bound: an event that crossed so many queues goes no further
  NoQueue        \* the origin of such an event

Fate == {"send", "swallow", "reject", "raise"}

ASSUME NetAssumption ==
  /\ Reader \in [Queue -> Actor]
  /\ Leads \in [Port -> Queue]
  /\ Out \in [Actor -> Seq(Port)]
  /\ Err \in [Actor -> Seq(Port)]
  /\ Behaviour \in [Actor -> SUBSET Fate]
  /\ Entry \in [Event -> Actor]
  /\ Blocking \subseteq Actor /\ Rescue \subseteq Actor /\ Stoppable \subseteq Actor
  /\ MaxRescue \in Nat /\ MaxHops \in Nat
  /\ NoQueue \notin Queue

(* A pool is a dictionary, so an actor has each of its ports once.         *)
ASSUME PortAssumption ==
  \A a \in Actor :
    /\ \A i, j \in DOMAIN Out[a] : Out[a][i] = Out[a][j] => i = j
    /\ \A i, j \in DOMAIN Err[a] : Err[a][i] = Err[a][j] => i = j
    /\ \A i \in DOMAIN Out[a], j \in DOMAIN Err[a] : Out[a][i] # Err[a][j]

VARIABLES
  queue,         \* the queue records
  run,           \* run[a]: a has been started
  loop,          \* loop[a]: a has not been stopped
  consumer,      \* where the consumer greenlet of each queue is
  tasks,         \* executions of __do_consume, and senders of fresh events
  copies,        \* history: every event object made by a send, in its present form
  settled        \* history: what became of the events nobody works on any more

vars == <<queue, run, loop, consumer, tasks, copies, settled>>

(* An event object: where it came from, the sends that made it, and its    *)
(* rescue counters (the attributes "<actor>_rescue_num"), which deepcopy   *)
(* hands down.  A send is told from the next one of the same event by its  *)
(* port and by how often the sender had been rescued by then.              *)
Leg == [port : Port, tries : 0..MaxRescue]

Copy == [id : Event, via : Seq(Leg), tries : [Actor -> 0..MaxRescue]]

Fresh(e) == [id |-> e, via |-> <<>>, tries |-> [a \in Actor |-> 0]]

Sent(c, a, p) ==
  [c EXCEPT !.via = Append(@, [port |-> p, tries |-> c.tries[a]])]

Task == [actor  : Actor,
         origin : Queue \cup {NoQueue},
         event  : Copy,
         phase  : {"begin", "send", "parked", "asleep"},
         todo   : Seq(Port),                        \* sends still to make
         end    : {"return", "reject", "raise", "requeue"},   \* what comes then
         failed : BOOLEAN,                          \* sending to error queues
         inline : BOOLEAN]                          \* run by the consumer itself

NewTask(a, q, c, inline) ==
  [actor |-> a, origin |-> q, event |-> c, phase |-> "begin", todo |-> <<>>,
   end |-> "return", failed |-> FALSE, inline |-> inline]

SenderOf(e) == [NewTask(Entry[e], NoQueue, Fresh(e), FALSE)
                  EXCEPT !.phase = "send", !.todo = Out[Entry[e]]]

Settled == [event : Copy, actor : Actor, how : {"done", "rejected", "errored"}]

TypeOK ==
  /\ queue \in [Queue -> QueueType(Copy, Copy)]
  /\ run \in [Actor -> BOOLEAN]
  /\ loop \in [Actor -> BOOLEAN]
  /\ consumer \in [Queue -> {"begin", "wait", "busy", "drain", "exited"}]
  /\ tasks \in SUBSET Task
  /\ copies \in SUBSET Copy
  /\ settled \in SUBSET Settled

Init ==
  /\ queue = [q \in Queue |-> EmptyQueue]
  /\ run = [a \in Actor |-> FALSE]
  /\ loop = [a \in Actor |-> TRUE]
  /\ consumer = [q \in Queue |-> "begin"]
  /\ tasks = {SenderOf(e) : e \in Event}
  /\ copies = {Fresh(e) : e \in Event}
  /\ settled = {}

-----------------------------------------------------------------------------
(* Actor.start and Actor.stop.                                             *)
Start(a) ==
  /\ ~run[a]
  /\ run' = [run EXCEPT ![a] = TRUE]
  /\ UNCHANGED <<queue, loop, consumer, tasks, copies, settled>>

Stop(a) ==
  /\ a \in Stoppable
  /\ loop[a]
  /\ loop' = [loop EXCEPT ![a] = FALSE]
  /\ UNCHANGED <<queue, run, consumer, tasks, copies, settled>>

-----------------------------------------------------------------------------
(* The consumer greenlet of queue q.                                       *)

(* "while self.loop()": on to wait_until_content, or to the drain.         *)
NextTurn(a) == IF loop[a] THEN "wait" ELSE "drain"

Enter(q) ==
  /\ consumer[q] = "begin"
  /\ run[Reader[q]]
  /\ consumer' = [consumer EXCEPT ![q] = NextTurn(Reader[q])]
  /\ UNCHANGED <<queue, run, loop, tasks, copies, settled>>

(* Taking all events of a queue, each into a greenlet of its own.          *)
TasksFor(q) ==
  {NewTask(Reader[q], q, queue[q].items[i], FALSE) : i \in DOMAIN queue[q].items}

(* (Faulty forms: the putters are forgotten; the events stay.)             *)
EmptiedNoUnlock(r) == [r EXCEPT !.items = <<>>]

EmptiedPeek(r) == r

Emptied(r) == [r EXCEPT !.items = <<>>,
                        !.unlock = @ \/ (r.items # <<>> /\ r.putters # <<>>)]

(* Without blocking_consume nothing in the loop yields while events last:  *)
(* the consumer spawns a greenlet for each and stops at QueueEmpty, or,    *)
(* when the actor was stopped meanwhile, leaves the loop and drains.       *)
(* (Faulty form: it does the work itself, blocking_consume or not.)        *)
ConsumeItself(q) ==
  /\ consumer[q] = "wait"
  /\ Reader[q] \notin Blocking
  /\ queue[q].content
  /\ queue' = [queue EXCEPT ![q] = IF @.items = <<>> THEN GetEmpty(@) ELSE Get(@)]
  /\ tasks' = tasks \cup {NewTask(Reader[q], q, queue[q].items[i], TRUE) :
                             i \in DOMAIN queue[q].items \cap {1}}
  /\ consumer' = [consumer EXCEPT ![q] = IF queue[q].items = <<>> THEN "wait" ELSE "busy"]
  /\ UNCHANGED <<run, loop, copies, settled>>

ConsumeAll(q) ==
  LET a == Reader[q]
  IN  /\ consumer[q] = "wait"
      /\ a \notin Blocking
      /\ queue[q].content
      /\ queue' = [queue EXCEPT
                     ![q] = IF loop[a] \/ @.items = <<>> THEN GetEmpty(Emptied(@))
                                                         ELSE Emptied(@)]
      /\ tasks' = tasks \cup TasksFor(q)
      /\ consumer' = [consumer EXCEPT ![q] = IF loop[a] THEN "wait" ELSE "exited"]
      /\ UNCHANGED <<run, loop, copies, settled>>

(* With blocking_consume the consumer does one event's task itself and is  *)
(* busy until that task is over ...                                        *)
(* (Faulty form: blocking_consume is ignored.)                             *)
ConsumeSpawning(q) ==
  /\ consumer[q] = "wait"
  /\ Reader[q] \in Blocking
  /\ queue[q].content
  /\ queue[q].items # <<>>
  /\ queue' = [queue EXCEPT ![q] = Get(@)]
  /\ tasks' = tasks \cup {NewTask(Reader[q], q, Head(queue[q].items), FALSE)}
  /\ UNCHANGED <<run, loop, consumer, copies, settled>>

ConsumeInline(q) ==
  /\ consumer[q] = "wait"
  /\ Reader[q] \in Blocking
  /\ queue[q].content
  /\ queue[q].items # <<>>
  /\ queue' = [queue EXCEPT ![q] = Get(@)]
  /\ tasks' = tasks \cup {NewTask(Reader[q], q, Head(queue[q].items), TRUE)}
  /\ consumer' = [consumer EXCEPT ![q] = "busy"]
  /\ UNCHANGED <<run, loop, copies, settled>>

(* ... or finds the queue empty.                                           *)
ConsumeNothing(q) ==
  /\ consumer[q] = "wait"
  /\ Reader[q] \in Blocking
  /\ queue[q].content
  /\ queue[q].items = <<>>
  /\ queue' = [queue EXCEPT ![q] = GetEmpty(@)]
  /\ consumer' = [consumer EXCEPT ![q] = NextTurn(Reader[q])]
  /\ UNCHANGED <<run, loop, tasks, copies, settled>>

(* After the loop: a greenlet for every event left, blocking_consume or    *)
(* not, and the consumer is gone.                                          *)
Drain(q) ==
  /\ consumer[q] = "drain"
  /\ tasks' = tasks \cup TasksFor(q)
  /\ queue' = [queue EXCEPT ![q] = Emptied(@)]
  /\ consumer' = [consumer EXCEPT ![q] = "exited"]
  /\ UNCHANGED <<run, loop, copies, settled>>

-----------------------------------------------------------------------------
(* The hub serves the putters of queue q.  The one it wakes is a task that *)
(* goes on sending, or one whose last act was to put its event back.       *)
Resumed(t) == [t EXCEPT !.phase = "send"]

ConsumerAfter(t) ==
  IF t.inline THEN [consumer EXCEPT ![t.origin] = NextTurn(t.actor)] ELSE consumer

WakePutter(q) ==
  /\ CanAdmit(queue[q])
  /\ queue' = [queue EXCEPT ![q] = Admit(@)]
  /\ \E t \in tasks :
       /\ t.event = Head(queue[q].putters).by
       /\ t.phase = "parked"
       /\ IF t.end = "requeue"
            THEN tasks' = tasks \ {t} /\ consumer' = ConsumerAfter(t)
            ELSE tasks' = (tasks \ {t}) \cup {Resumed(t)} /\ UNCHANGED consumer
  /\ UNCHANGED <<run, loop, copies, settled>>

UnlockEnds(q) ==
  /\ CanEndUnlock(queue[q])
  /\ queue' = [queue EXCEPT ![q] = EndUnlock(@)]
  /\ UNCHANGED <<run, loop, consumer, tasks, copies, settled>>

-----------------------------------------------------------------------------
(* Task t.                                                                 *)

Becomes(t, u) == tasks' = (tasks \ {t}) \cup {u}

Settle(t, how) ==
  /\ tasks' = tasks \ {t}
  /\ consumer' = ConsumerAfter(t)
  /\ settled' = settled \cup {[event |-> t.event, actor |-> t.actor, how |-> how]}

(* The courses a task may take from here.  A new one calls the actor's     *)
(* consume, which sends the event to every outbound queue, to none, or     *)
(* after the first k sends refuses it (InvalidActorInput and               *)
(* InvalidEventConversion, which with k = 0 its caller may raise before    *)
(* consume is called) or raises anything else.                             *)
Course(t) ==
  LET a == t.actor
      u == [t EXCEPT !.phase = "send"]
      B == IF Len(t.event.via) < MaxHops THEN Behaviour[a] ELSE {"swallow"}
  IN  CASE t.phase = "send"  -> {t}
        [] t.phase = "begin" ->
             {[u EXCEPT !.todo = Out[a]] : f \in B \cap {"send"}}
               \cup {u : f \in B \cap {"swallow"}}
               \cup UNION {{[u EXCEPT !.todo = SubSeq(Out[a], 1, k), !.end = how] :
                             k \in 0..Len(Out[a])} : how \in B \cap {"reject", "raise"}}
        [] OTHER -> {}

(* consume has raised.  With rescue the event is tried again, max_rescue   *)
(* times; then, or without rescue, it goes to the error queues.            *)
Raised(t) == t.todo = <<>> /\ t.end = "raise"

(* (Faulty forms: no limit; one try too few.)                              *)
MayRescueForever(t) == t.actor \in Rescue

MayRescueLess(t) == t.actor \in Rescue /\ t.event.tries[t.actor] + 1 < MaxRescue

MayRescue(t) == t.actor \in Rescue /\ t.event.tries[t.actor] < MaxRescue

ToErrors(t) == [t EXCEPT !.todo = Err[t.actor], !.end = "return", !.failed = TRUE]

Plans(t) ==
  {IF Raised(u) /\ ~MayRescue(u) THEN ToErrors(u) ELSE u : u \in Course(t)}

(* _send: a deepcopy of the event on the next queue; the task sleeps while *)
(* that queue is full.  (Faulty form: only the first queue gets one.)      *)
SendOnce(t) ==
  \E u \in Plans(t) :
    LET q == Leads[Head(u.todo)]
        c == Sent(u.event, u.actor, Head(u.todo))
    IN  /\ u.todo # <<>>
        /\ queue' = [queue EXCEPT ![q] = Put(@, c, u.event)]
        /\ Becomes(t, [u EXCEPT !.todo = <<>>,
                                !.phase = IF HasRoom(queue[q]) THEN "send" ELSE "parked"])
        /\ copies' = copies \cup {c}
        /\ UNCHANGED <<run, loop, consumer, settled>>

Send(t) ==
  \E u \in Plans(t) :
    LET q == Leads[Head(u.todo)]
        c == Sent(u.event, u.actor, Head(u.todo))
    IN  /\ u.todo # <<>>
        /\ queue' = [queue EXCEPT ![q] = Put(@, c, u.event)]
        /\ Becomes(t, [u EXCEPT !.todo = Tail(@),
                                !.phase = IF HasRoom(queue[q]) THEN "send" ELSE "parked"])
        /\ copies' = copies \cup {c}
        /\ UNCHANGED <<run, loop, consumer, settled>>

(* Nothing more to send: the task is over. A refused event is dropped      *)
(* after a log entry.                                                      *)
Outcome(u) ==
  IF u.end = "reject" THEN "rejected" ELSE IF u.failed THEN "errored" ELSE "done"

Return(t) ==
  \E u \in Plans(t) :
    /\ u.todo = <<>>
    /\ u.end \in {"return", "reject"}
    /\ Settle(t, Outcome(u))
    /\ UNCHANGED <<queue, run, loop, copies>>

(* (Faulty form: the counter is kept under another actor's name.)          *)
StartRescueMiscount(t) ==
  \E u \in Plans(t) :
    LET c == [u.event EXCEPT !.tries =
                [a \in Actor |-> IF a = u.actor THEN @[a] ELSE @[a] + 1]]
    IN  /\ Raised(u)
        /\ Becomes(t, [u EXCEPT !.phase = "asleep", !.end = "requeue", !.event = c])
        /\ copies' = (copies \ {u.event}) \cup {c}
        /\ UNCHANGED <<queue, run, loop, consumer, settled>>

(* A rescue counts, sleeps ...                                             *)
StartRescue(t) ==
  \E u \in Plans(t) :
    LET c == [u.event EXCEPT !.tries[u.actor] = @ + 1]
    IN  /\ Raised(u)
        /\ Becomes(t, [u EXCEPT !.phase = "asleep", !.end = "requeue", !.event = c])
        /\ copies' = (copies \ {u.event}) \cup {c}
        /\ UNCHANGED <<queue, run, loop, consumer, settled>>

(* ... and puts the event back on the queue it came from, behind what is   *)
(* there by then.                                                          *)
EndRescue(t) ==
  /\ t.phase = "asleep"
  /\ queue' = [queue EXCEPT ![t.origin] = Put(@, t.event, t.event)]
  /\ IF HasRoom(queue[t.origin])
       THEN tasks' = tasks \ {t} /\ consumer' = ConsumerAfter(t)
       ELSE Becomes(t, [t EXCEPT !.phase = "parked"]) /\ UNCHANGED consumer
  /\ UNCHANGED <<run, loop, copies, settled>>

-----------------------------------------------------------------------------
Hub(q) == WakePutter(q) \/ UnlockEnds(q)

Consumer(q) ==
  Enter(q) \/ ConsumeAll(q) \/ ConsumeInline(q) \/ ConsumeNothing(q) \/ Drain(q)

TaskStep(t) ==
  Send(t) \/ Return(t) \/ StartRescue(t) \/ EndRescue(t)

Next ==
  \/ \E a \in Actor : Start(a) \/ Stop(a)
  \/ \E q \in Queue : Hub(q) \/ Consumer(q)
  \/ \E t \in tasks : TaskStep(t)

Spec == Init /\ [][Next]_vars

(* The hub runs every greenlet that can run, and started actors are what   *)
(* a director is for.  Nothing forces a stop.                              *)
Fairness ==
  /\ \A a \in Actor : WF_vars(Start(a))
  /\ \A q \in Queue : WF_vars(Hub(q)) /\ WF_vars(Consumer(q))
  /\ WF_vars(\E t \in tasks : TaskStep(t))

FairSpec == Spec /\ Fairness

-----------------------------------------------------------------------------
(* Where event object c is: slots of queues, greenlets waiting to put it,  *)
(* tasks (not one that merely waits to put it back), or settled.           *)
ItemSlots == UNION {{q} \X DOMAIN queue[q].items : q \in Queue}

PutterSlots == UNION {{q} \X DOMAIN queue[q].putters : q \in Queue}

OnQueues(c) == {s \in ItemSlots : queue[s[1]].items[s[2]] = c}

AtPutters(c) == {s \in PutterSlots : queue[s[1]].putters[s[2]].item = c}

InTasks(c) == {t \in tasks : t.event = c /\ ~(t.phase = "parked" /\ t.end = "requeue")}

IsSettled(c) == {s \in settled : s.event = c}

(* Actor a, not rescued again since, sent c through port p: the copy made  *)
(* then may have been rescued elsewhere.                                   *)
Reached(a, c, p) == \E d \in copies : d.id = c.id /\ d.via = Sent(c, a, p).via

(* The actor that made send i of those that made c.                        *)
SenderAt(c, i) ==
  IF i = 1 THEN Entry[c.id] ELSE Reader[Leads[c.via[i - 1].port]]

Route(c) == [i \in DOMAIN c.via |-> c.via[i].port]

(* The promises of every queue hold in the network too: whatever actors,   *)
(* rescues, stops and the hub do, no consumer sleeps beside an event and   *)
(* no putter beside a slot nobody will hand out.                           *)
QueuesSound == \A q \in Queue : QueueSound(queue[q])

(* Every event object ever made is in exactly one place: none is lost and  *)
(* none is worked on twice, through full queues, rescues and stops.        *)
Conservation ==
  \A c \in copies :
    Cardinality(OnQueues(c)) + Cardinality(AtPutters(c))
      + Cardinality(InTasks(c)) + Cardinality(IsSettled(c)) = 1

(* Sends through several ports are all made or none, unless consume        *)
(* refused the event or raised between them, and an event that failed for  *)
(* good is on its way through every error port of the actor, however long  *)
(* those queues were full.                                                 *)
SendsComplete ==
  \A s \in settled :
    LET a == s.actor
    IN  /\ s.how = "errored" => \A i \in DOMAIN Err[a] : Reached(a, s.event, Err[a][i])
        /\ s.how = "done" => \A i, j \in DOMAIN Out[a] :
             Reached(a, s.event, Out[a][i]) => Reached(a, s.event, Out[a][j])

(* An event goes to an error queue only when its actor does not rescue or  *)
(* has tried max_rescue times more: the counter survives the way back      *)
(* through the queue.                                                      *)
ErrorOnlyAfterRescues ==
  \A c \in copies :
    c.via # <<>> =>
      LET a == SenderAt(c, Len(c.via))
      IN  (\E i \in DOMAIN Err[a] : Err[a][i] = c.via[Len(c.via)].port)
            => c.tries[a] = IF a \in Rescue THEN MaxRescue ELSE 0

(* The same event travels the same way twice only when some actor on that  *)
(* way sent it, raised and was rescued: without rescue, at most once.      *)
DuplicatesOnlyFromRescue ==
  \A c, d \in copies :
    c.id = d.id /\ Route(c) = Route(d) /\ c # d
      => \E i \in DOMAIN c.via :
           c.via[i].tries # d.via[i].tries /\ SenderAt(c, i) \in Rescue

(* Nothing gets stuck while nobody stops an actor: all greenlets finish    *)
(* and all queues run empty.                                               *)
EverythingSettles ==
  <>[](tasks = {} /\ \A q \in Queue : queue[q].items = <<>> /\ queue[q].putters = <<>>)

(* blocking_consume is documented to execute consume and block until that  *)
(* consume is complete: one task a queue.  (A consumer that drains after   *)
(* stop spawns a task for every event left.)                               *)
SerialConsume ==
  \A q \in Queue :
    Reader[q] \in Blocking /\ loop[Reader[q]]
      => Cardinality({t \in tasks : t.origin = q}) <= 1
=============================================================================
