----------------------------- MODULE EventJoin ------------------------------
(***************************************************************************)
(* The EventJoin actor: it holds the data of events with one id until      *)
(* every inbound queue has reported, and sends the joined data on.         *)
(*                                                                         *)
(* A part is one event on one inbound queue.  consume runs without a break *)
(* up to its sends, and each send may sleep; consumes of other parts and   *)
(* the purger run meanwhile.  The entry of a joined id is deleted only     *)
(* after the last send, whatever entry the id has by then.                 *)
(***************************************************************************)
EXTENDS Integers, Functions

CONSTANTS
  Inboxes,   \* the inbound queues
  Outs,      \* the outbound queues
  Ids,       \* event ids
  Copies,    \* how many events of one id each inbox may see
  Falsy,     \* the inboxes whose data compares equal to False
  Unjoined,  \* the ids whose data cannot be joined
  Purging,   \* whether there is a purge interval
  NoPart     \* no report yet

Parts == UNION {[id : Ids, inbox : {i}, n : 1 .. Copies[i]] : i \in Inboxes}

ASSUME JoinAssumption ==
  /\ Copies \in [Inboxes -> Nat] /\ Falsy \subseteq Inboxes /\ Unjoined \subseteq Ids
  /\ Purging \in BOOLEAN /\ Inboxes # {}
  /\ NoPart \notin Parts

VARIABLES
  coming,     \* the parts that are still on their way
  events,     \* the entry of each id: its reports and whether it is old
  sending,    \* joins whose sends are not over: the parts, the outs left
  sent,       \* what has been put on which outbound queue
  fate,       \* history: what became of each part
  uses,       \* history: how many joins a part has taken part in
  overtaken   \* history: ids purged while their join was being sent

vars == <<coming, events, sending, sent, fate, uses, overtaken>>

Fates == {"coming", "waiting", "joined", "refused", "purged", "lost"}

PartsOf(got) == {got[i] : i \in Inboxes} \ {NoPart}

(* What becomes of the parts that wait in an entry which disappears.       *)
Gone(got, how) ==
  [p \in Parts |-> IF p \in PartsOf(got) /\ fate[p] = "waiting" THEN how ELSE fate[p]]

(* Inbox p.inbox has its report to make once its earlier parts have made   *)
(* theirs.                                                                 *)
Comes(p) ==
  /\ p \in coming
  /\ \A q \in coming : q.id = p.id /\ q.inbox = p.inbox => p.n <= q.n
  /\ coming' = coming \ {p}

(* A new entry for the id of p, with its first report.                     *)
WithEntry(p) ==
  [id \in DOMAIN events \cup {p.id} |->
    IF id = p.id
      THEN [got |-> [i \in Inboxes |-> IF i = p.inbox THEN p ELSE NoPart], old |-> FALSE]
      ELSE events[id]]

-----------------------------------------------------------------------------
(* Faulty forms, against which the runs are tried: any report counts ...   *)
CompletedAny(got) == \E i \in Inboxes : got[i] # NoPart

(* ... a refused report takes its entry away ...                           *)
RefuseClears(p) ==
  /\ Comes(p)
  /\ p.id \in DOMAIN events
  /\ events[p.id].got[p.inbox] # NoPart
  /\ events' = Restrict(events, DOMAIN events \ {p.id})
  /\ fate' = [Gone(events[p.id].got, "lost") EXCEPT ![p] = "refused"]
  /\ UNCHANGED <<sending, sent, uses, overtaken>>

(* ... the purger keeps the entries that are complete ...                  *)
ExpiredIncomplete ==
  {id \in DOMAIN events : events[id].old /\ \E i \in Inboxes : events[id].got[i] = NoPart}

(* ... only the first outbound queue is sent to ...                        *)
SendFirstOnly(t, o) ==
  /\ t \in sending /\ o \in t.left
  /\ sent' = sent \cup {[out |-> o, got |-> t.got]}
  /\ sending' = (sending \ {t}) \cup {[t EXCEPT !.left = {}]}
  /\ UNCHANGED <<coming, events, fate, uses, overtaken>>

(* ... and every report makes an entry.                                    *)
FirstReportAlways(p) ==
  /\ Comes(p)
  /\ events' = WithEntry(p)
  /\ fate' = [fate EXCEPT ![p] = "waiting"]
  /\ UNCHANGED <<sending, sent, uses, overtaken>>

-----------------------------------------------------------------------------
(* An inbox counts as reported when its data does not compare equal to     *)
(* False, which zero does as well.                                         *)
Reported(part) == part # NoPart /\ part.inbox \notin Falsy

(* MatchedEvent.all_inboxes_reported                                       *)
Completed(got) == \A i \in Inboxes : Reported(got[i])

Init ==
  /\ coming = Parts
  /\ events = [id \in {} |-> NoPart]
  /\ sending = {}
  /\ sent = {}
  /\ fate = [p \in Parts |-> "coming"]
  /\ uses = [p \in Parts |-> 0]
  /\ overtaken = {}

(* consume of an id without an entry makes one and reports.  Whether that  *)
(* completes it is not looked at.                                          *)
FirstReport(p) ==
  /\ Comes(p)
  /\ p.id \notin DOMAIN events
  /\ events' = WithEntry(p)
  /\ fate' = [fate EXCEPT ![p] = "waiting"]
  /\ UNCHANGED <<sending, sent, uses, overtaken>>

(* report_inbox of an inbox that has not reported; a report that did not   *)
(* count before is replaced.                                               *)
GotWith(p) == [events[p.id].got EXCEPT ![p.inbox] = p]

WithReport(p) ==
  LET before == events[p.id].got[p.inbox]
  IN  [q \in Parts |-> IF q = p THEN "waiting"
                       ELSE IF q = before /\ fate[q] = "waiting" THEN "lost"
                       ELSE fate[q]]

Report(p) ==
  /\ Comes(p)
  /\ p.id \in DOMAIN events
  /\ ~Reported(events[p.id].got[p.inbox])
  /\ ~Completed(GotWith(p)) \/ p.id \in Unjoined
  /\ events' = [events EXCEPT ![p.id].got = GotWith(p)]
  /\ fate' = WithReport(p)
  /\ UNCHANGED <<sending, sent, uses, overtaken>>

(* (A faulty form: a second report of an inbox replaces the first, and the *)
(* parts are joined again.)                                                *)
CompleteReplacing(p) ==
  /\ Comes(p)
  /\ p.id \in DOMAIN events
  /\ Completed(GotWith(p)) /\ p.id \notin Unjoined
  /\ events' = [events EXCEPT ![p.id].got = GotWith(p)]
  /\ sending' = sending \cup {[id |-> p.id, got |-> GotWith(p), left |-> Outs]}
  /\ uses' = [q \in Parts |-> IF q \in PartsOf(GotWith(p)) THEN uses[q] + 1 ELSE uses[q]]
  /\ fate' = [q \in Parts |-> IF q \in PartsOf(GotWith(p)) THEN "joined"
                              ELSE WithReport(p)[q]]
  /\ UNCHANGED <<sent, overtaken>>

(* The last report joins the parts and starts sending.  An id whose parts  *)
(* cannot be joined raises instead and stays as it is (Report above).      *)
Complete(p) ==
  /\ Comes(p)
  /\ p.id \in DOMAIN events
  /\ ~Reported(events[p.id].got[p.inbox])
  /\ Completed(GotWith(p)) /\ p.id \notin Unjoined
  /\ events' = [events EXCEPT ![p.id].got = GotWith(p)]
  /\ sending' = sending \cup {[id |-> p.id, got |-> GotWith(p), left |-> Outs]}
  /\ uses' = [q \in Parts |-> IF q \in PartsOf(GotWith(p)) THEN uses[q] + 1 ELSE uses[q]]
  /\ fate' = [q \in Parts |-> IF q \in PartsOf(GotWith(p)) THEN "joined"
                              ELSE WithReport(p)[q]]
  /\ UNCHANGED <<sent, overtaken>>

(* report_inbox raises for an inbox that has reported already.             *)
Refuse(p) ==
  /\ Comes(p)
  /\ p.id \in DOMAIN events
  /\ Reported(events[p.id].got[p.inbox])
  /\ fate' = [fate EXCEPT ![p] = "refused"]
  /\ UNCHANGED <<events, sending, sent, uses, overtaken>>

(* send_event puts the join on one outbound queue after the other, and may *)
(* sleep at each.                                                          *)
Send(t, o) ==
  /\ t \in sending /\ o \in t.left
  /\ sent' = sent \cup {[out |-> o, got |-> t.got]}
  /\ sending' = (sending \ {t}) \cup {[t EXCEPT !.left = @ \ {o}]}
  /\ UNCHANGED <<coming, events, fate, uses, overtaken>>

(* Then the id's entry is deleted; a KeyError, when it has been purged, is *)
(* logged.                                                                 *)
EndSend(t) ==
  /\ t \in sending /\ t.left = {}
  /\ sending' = sending \ {t}
  /\ fate' = IF t.id \in DOMAIN events THEN Gone(events[t.id].got, "lost") ELSE fate
  /\ events' = Restrict(events, DOMAIN events \ {t.id})
  /\ UNCHANGED <<coming, sent, uses, overtaken>>

(* The purge interval of an entry is over.                                 *)
Age(id) ==
  /\ Purging /\ id \in DOMAIN events /\ ~events[id].old
  /\ events' = [events EXCEPT ![id].old = TRUE]
  /\ UNCHANGED <<coming, sending, sent, fate, uses, overtaken>>

(* One turn of event_purger.                                               *)
Expired == {id \in DOMAIN events : events[id].old}

Purge ==
  /\ Purging /\ Expired # {}
  /\ fate' = [p \in Parts |-> IF p.id \in Expired THEN Gone(events[p.id].got, "purged")[p]
                              ELSE fate[p]]
  /\ overtaken' = overtaken \cup {id \in Expired : \E t \in sending : t.id = id}
  /\ events' = Restrict(events, DOMAIN events \ Expired)
  /\ UNCHANGED <<coming, sending, sent, uses>>

Consume(p) == FirstReport(p) \/ Report(p) \/ Complete(p) \/ Refuse(p)

Sending == \E t \in sending : EndSend(t) \/ \E o \in Outs : Send(t, o)

Aging == \E id \in Ids : Age(id)

Next == \/ \E p \in Parts : Consume(p)
        \/ Sending
        \/ Aging
        \/ Purge

(* Every greenlet runs again: consumers, sends that end because somebody   *)
(* reads, the purger; and time passes.                                     *)
Fairness == /\ \A p \in Parts : WF_vars(Consume(p))
            /\ WF_vars(Sending)
            /\ \A id \in Ids : WF_vars(Age(id))
            /\ WF_vars(Purge)

Spec == Init /\ [][Next]_vars /\ Fairness

-----------------------------------------------------------------------------
Gots == [Inboxes -> Parts \cup {NoPart}]

Tasks == [id : Ids, got : Gots, left : SUBSET Outs]

(* Every part that waits does so in the entry of its id.                   *)
TypeOK ==
  /\ coming \subseteq Parts
  /\ DOMAIN events \subseteq Ids
  /\ \A id \in DOMAIN events : events[id] \in [got : Gots, old : BOOLEAN]
  /\ sending \subseteq Tasks
  /\ sent \subseteq [out : Outs, got : Gots]
  /\ fate \in [Parts -> Fates] /\ uses \in [Parts -> Nat] /\ overtaken \subseteq Ids
  /\ \A p \in Parts :
       /\ fate[p] = "coming" <=> p \in coming
       /\ fate[p] = "waiting" => p.id \in DOMAIN events /\ p = events[p.id].got[p.inbox]

(* What is sent has a part of every inbox, all of one id, although reports *)
(* and sends of many ids run at once.                                      *)
JoinsWhole ==
  \A s \in sent : \E id \in Ids : \A i \in Inboxes :
    s.got[i] \in {p \in Parts : p.id = id /\ p.inbox = i}

(* No data is sent in two joins, not even when reports of a joined id keep *)
(* coming while its sends sleep.                                           *)
PartsUsedOnce == \A p \in Parts : uses[p] <= 1

(* Data that has been accepted disappears without being joined or purged   *)
(* only by the delete after a send during which the id was purged.         *)
LostOnlyToOvertakenSend ==
  \A p \in Parts : fate[p] = "lost" => p.id \in overtaken

(* Once all inboxes have reported an id, the join reaches every outbound   *)
(* queue, unless part of it was purged.                                    *)
Joined(id, o) == \E s \in sent : s.out = o /\ \E p \in PartsOf(s.got) : p.id = id

WholeIdsJoin ==
  \A id \in Ids \ Unjoined :
    <>( \/ \A o \in Outs : Joined(id, o)
        \/ \E p \in Parts : p.id = id /\ fate[p] = "purged" )

(* With a purge interval no entry stays for ever, whatever became of it.   *)
EntriesLeave == \A id \in Ids : []<>(id \notin DOMAIN events)
=============================================================================
