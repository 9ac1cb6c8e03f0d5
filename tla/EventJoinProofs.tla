-------------------------- MODULE EventJoinProofs ---------------------------
(***************************************************************************)
(* Proofs about EventJoin for all inboxes, outbound queues, ids and copies,*)
(* with and without a purge interval.                                      *)
(*                                                                         *)
(* That no part is used twice needs to know where used parts may be: in an *)
(* entry they keep company only with reported parts, so that no further    *)
(* report can complete the entry again.                                    *)
(***************************************************************************)
EXTENDS EventJoin, TLAPS

(* What an entry holds has come, from the inbox it is noted for.           *)
EntriesPlaced ==
  \A id \in DOMAIN events : \A i \in Inboxes :
    LET part == events[id].got[i]
    IN  part # NoPart => part.id = id /\ part.inbox = i /\ part \notin coming

(* What is being sent was complete when the sends began.                   *)
TasksWhole ==
  \A t \in sending : \A i \in Inboxes :
    Reported(t.got[i]) /\ t.got[i].id = t.id /\ t.got[i].inbox = i

UsedMeansJoined ==
  \A p \in Parts : uses[p] <= 1 /\ (uses[p] = 1 => fate[p] = "joined")

(* A used part is left in a complete entry only.                           *)
UsedInComplete ==
  \A id \in DOMAIN events : \A i \in Inboxes :
    LET part == events[id].got[i]
    IN  part # NoPart /\ fate[part] = "joined" => Completed(events[id].got)

JoinInv == /\ TypeOK /\ JoinsWhole
           /\ EntriesPlaced /\ TasksWhole /\ UsedMeansJoined /\ UsedInComplete

-----------------------------------------------------------------------------
(* The reports of an entry with one more are reports again.                *)
LEMMA GotWithType ==
  ASSUME TypeOK, NEW p \in Parts, p.id \in DOMAIN events
  PROVE  /\ GotWith(p) \in Gots
         /\ GotWith(p)[p.inbox] = p
         /\ \A i \in Inboxes : i # p.inbox => GotWith(p)[i] = events[p.id].got[i]
<1>1. events[p.id].got \in Gots
  BY DEF TypeOK
<1>2. p.inbox \in Inboxes
  BY DEF Parts
<1>3. QED
  BY <1>1, <1>2 DEF GotWith, Gots

(* The invariant holds before any part has come.                           *)
LEMMA InitJoinInv == Init => JoinInv
<1> SUFFICES ASSUME Init PROVE JoinInv
  OBVIOUS
<1>1. TypeOK
  BY DEF Init, TypeOK, Fates
<1>2. QED
  BY <1>1 DEF Init, JoinInv, JoinsWhole, EntriesPlaced, TasksWhole, UsedMeansJoined, UsedInComplete

(* The type is kept by every step.                                         *)
LEMMA StepType == JoinInv /\ [Next]_vars => TypeOK'
<1> SUFFICES ASSUME JoinInv, [Next]_vars PROVE TypeOK'
  OBVIOUS
<1>0. TypeOK /\ EntriesPlaced
  BY DEF JoinInv
<1>1. ASSUME NEW p \in Parts, FirstReport(p) PROVE TypeOK'
  <2>1. WithEntry(p)[p.id] \in [got : Gots, old : BOOLEAN]
    BY DEF WithEntry, Gots
  <2>2. \A id \in DOMAIN events' : events'[id] \in [got : Gots, old : BOOLEAN]
    BY <1>0, <1>1, <2>1 DEF FirstReport, WithEntry, TypeOK
  <2>3. DOMAIN events' \subseteq Ids
    BY <1>0, <1>1 DEF FirstReport, WithEntry, TypeOK, Parts
  <2>4. ASSUME NEW q \in Parts
        PROVE  /\ fate'[q] = "coming" <=> q \in coming'
               /\ fate'[q] = "waiting" => q.id \in DOMAIN events' /\ q = events'[q.id].got[q.inbox]
    BY <1>0, <1>1 DEF FirstReport, WithEntry, TypeOK, Comes, Parts
  <2>5. fate' \in [Parts -> Fates] /\ coming' \subseteq Parts
    BY <1>0, <1>1 DEF FirstReport, TypeOK, Fates, Comes
  <2>6. QED
    BY <1>0, <1>1, <2>2, <2>3, <2>4, <2>5 DEF FirstReport, TypeOK
<1>2. ASSUME NEW p \in Parts, Report(p) PROVE TypeOK'
  <2>1. p.id \in DOMAIN events
    BY <1>2 DEF Report
  <2>2. \A id \in DOMAIN events' : events'[id] \in [got : Gots, old : BOOLEAN]
    BY <1>0, <1>2, <2>1, GotWithType DEF Report, TypeOK
  <2>3. DOMAIN events' = DOMAIN events
    BY <1>2 DEF Report
  <2>4. ASSUME NEW q \in Parts
        PROVE  /\ fate'[q] = "coming" <=> q \in coming'
               /\ fate'[q] = "waiting" => q.id \in DOMAIN events' /\ q = events'[q.id].got[q.inbox]
    <3>1. fate'[q] = "coming" <=> q \in coming'
      BY <1>0, <1>2 DEF Report, WithReport, TypeOK, Comes
    <3>2. CASE q = p
      BY <1>0, <1>2, <2>1, <3>1, <3>2, GotWithType DEF Report, TypeOK
    <3>3. CASE q # p
      <4>1. CASE fate'[q] = "waiting"
        <5>1. fate[q] = "waiting" /\ q # events[p.id].got[p.inbox]
          BY <1>2, <3>3, <4>1 DEF Report, WithReport
        <5>2. q.id \in DOMAIN events /\ q = events[q.id].got[q.inbox] /\ q.inbox \in Inboxes
          BY <1>0, <5>1 DEF TypeOK, Parts
        <5>3. q.id = p.id => q.inbox # p.inbox
          BY <5>1, <5>2
        <5>4. QED
          BY <1>0, <1>2, <2>1, <3>1, <5>2, <5>3, GotWithType DEF Report, TypeOK
      <4>2. QED
        BY <3>1, <4>1
    <3>4. QED
      BY <3>2, <3>3
  <2>5. fate' \in [Parts -> Fates] /\ coming' \subseteq Parts
    BY <1>0, <1>2 DEF Report, WithReport, TypeOK, Fates, Comes
  <2>6. QED
    BY <1>0, <1>2, <2>2, <2>3, <2>4, <2>5 DEF Report, TypeOK
<1>3. ASSUME NEW p \in Parts, Complete(p) PROVE TypeOK'
  <2>1. p.id \in DOMAIN events /\ p.id \in Ids
    BY <1>3 DEF Complete, Parts
  <2>2. \A id \in DOMAIN events' : events'[id] \in [got : Gots, old : BOOLEAN]
    BY <1>0, <1>3, <2>1, GotWithType DEF Complete, TypeOK
  <2>3. DOMAIN events' = DOMAIN events
    BY <1>3 DEF Complete
  <2>4. ASSUME NEW q \in Parts
        PROVE  /\ fate'[q] = "coming" <=> q \in coming'
               /\ fate'[q] = "waiting" => q.id \in DOMAIN events' /\ q = events'[q.id].got[q.inbox]
    <3>1. CASE q \in PartsOf(GotWith(p))
      <4>1. PICK i \in Inboxes : q = GotWith(p)[i]
        BY <3>1 DEF PartsOf
      <4>2. q = p \/ q \notin coming
        <5>1. CASE i = p.inbox
          BY <1>0, <2>1, <4>1, <5>1, GotWithType
        <5>2. CASE i # p.inbox
          BY <1>0, <2>1, <3>1, <4>1, <5>2, GotWithType DEF EntriesPlaced, PartsOf
        <5>3. QED
          BY <5>1, <5>2
      <4>3. QED
        BY <1>0, <1>3, <3>1, <4>2 DEF Complete, Comes
    <3>2. CASE q \notin PartsOf(GotWith(p))
      <4>1. q # p
        BY <1>0, <2>1, <3>2, GotWithType, JoinAssumption DEF PartsOf, Parts
      <4>2. fate'[q] = "coming" <=> q \in coming'
        BY <1>0, <1>3, <3>2, <4>1 DEF Complete, WithReport, TypeOK, Comes
      <4>3. CASE fate'[q] = "waiting"
        <5>1. fate[q] = "waiting" /\ q # events[p.id].got[p.inbox]
          BY <1>3, <3>2, <4>1, <4>3 DEF Complete, WithReport
        <5>2. q.id \in DOMAIN events /\ q = events[q.id].got[q.inbox] /\ q.inbox \in Inboxes
          BY <1>0, <5>1 DEF TypeOK, Parts
        <5>3. q.id = p.id => q.inbox # p.inbox
          BY <5>1, <5>2
        <5>4. QED
          BY <1>0, <1>3, <2>1, <4>2, <5>2, <5>3, GotWithType DEF Complete, TypeOK
      <4>4. QED
        BY <4>2, <4>3
    <3>3. QED
      BY <3>1, <3>2
  <2>5. fate' \in [Parts -> Fates] /\ coming' \subseteq Parts
    BY <1>0, <1>3 DEF Complete, WithReport, TypeOK, Fates, Comes
  <2>6. uses' \in [Parts -> Nat]
    BY <1>0, <1>3 DEF Complete, TypeOK
  <2>7. sending' \subseteq Tasks
    BY <1>0, <1>3, <2>1, GotWithType DEF Complete, TypeOK, Tasks
  <2>8. QED
    BY <1>0, <1>3, <2>2, <2>3, <2>4, <2>5, <2>6, <2>7 DEF Complete, TypeOK
<1>4. ASSUME NEW p \in Parts, Refuse(p) PROVE TypeOK'
  BY <1>0, <1>4 DEF Refuse, TypeOK, Comes, Fates
<1>5. ASSUME NEW t \in sending, EndSend(t) PROVE TypeOK'
  <2>1. t \in Tasks /\ t.id \in Ids
    BY <1>0 DEF TypeOK, Tasks
  <2>2. DOMAIN events' = DOMAIN events \ {t.id} /\ \A id \in DOMAIN events' : events'[id] = events[id]
    BY <1>5 DEF EndSend, Restrict
  <2>3. ASSUME NEW q \in Parts
        PROVE  /\ fate'[q] = "coming" <=> q \in coming'
               /\ fate'[q] = "waiting" => q.id \in DOMAIN events' /\ q = events'[q.id].got[q.inbox]
    <3>1. fate'[q] = fate[q] \/ (fate[q] = "waiting" /\ fate'[q] = "lost")
      BY <1>0, <1>5 DEF EndSend, Gone, TypeOK
    <3>2. CASE fate'[q] = "waiting"
      <4>1. fate[q] = "waiting" /\ q.id \in DOMAIN events /\ q = events[q.id].got[q.inbox]
        BY <1>0, <3>1, <3>2 DEF TypeOK
      <4>2. q.id = t.id => q \in PartsOf(events[t.id].got)
        BY <4>1, JoinAssumption DEF PartsOf, Parts
      <4>3. q.id # t.id
        BY <1>5, <3>2, <4>1, <4>2 DEF EndSend, Gone
      <4>4. QED
        BY <1>0, <1>5, <2>2, <3>1, <4>1, <4>3 DEF EndSend, TypeOK
    <3>3. QED
      BY <1>0, <1>5, <3>1, <3>2 DEF EndSend, TypeOK
  <2>4. fate' \in [Parts -> Fates]
    BY <1>0, <1>5 DEF EndSend, Gone, TypeOK, Fates
  <2>5. QED
    BY <1>0, <1>5, <2>2, <2>3, <2>4 DEF EndSend, TypeOK
<1>6. ASSUME NEW t \in sending, NEW o \in Outs, Send(t, o) PROVE TypeOK'
  <2>1. [t EXCEPT !.left = @ \ {o}] \in Tasks /\ [out |-> o, got |-> t.got] \in [out : Outs, got : Gots]
    BY <1>0 DEF TypeOK, Tasks
  <2>2. QED
    BY <1>0, <1>6, <2>1 DEF Send, TypeOK
<1>7. ASSUME NEW id \in Ids, Age(id) PROVE TypeOK'
  <2>1. DOMAIN events' = DOMAIN events
        /\ \A i \in DOMAIN events : events'[i] \in [got : Gots, old : BOOLEAN]
        /\ \A k \in DOMAIN events : events'[k].got = events[k].got
    BY <1>0, <1>7 DEF Age, TypeOK
  <2>2. QED
    BY <1>0, <1>7, <2>1 DEF Age, TypeOK
<1>8. CASE Purge
  <2>1. DOMAIN events' = DOMAIN events \ Expired /\ \A id \in DOMAIN events' : events'[id] = events[id]
    BY <1>8 DEF Purge, Restrict
  <2>2. ASSUME NEW q \in Parts
        PROVE  /\ fate'[q] = "coming" <=> q \in coming'
               /\ fate'[q] = "waiting" => q.id \in DOMAIN events' /\ q = events'[q.id].got[q.inbox]
    <3>1. fate'[q] = fate[q] \/ (fate[q] = "waiting" /\ fate'[q] = "purged")
      BY <1>0, <1>8 DEF Purge, Gone, TypeOK
    <3>2. CASE fate'[q] = "waiting"
      <4>1. fate[q] = "waiting" /\ q.id \in DOMAIN events /\ q = events[q.id].got[q.inbox]
        BY <1>0, <3>1, <3>2 DEF TypeOK
      <4>2. q \in PartsOf(events[q.id].got)
        BY <4>1, JoinAssumption DEF PartsOf, Parts
      <4>3. q.id \notin Expired
        BY <1>8, <3>2, <4>1, <4>2 DEF Purge, Gone
      <4>4. QED
        BY <1>0, <1>8, <2>1, <3>1, <4>1, <4>3 DEF Purge, TypeOK
    <3>3. QED
      BY <1>0, <1>8, <3>1, <3>2 DEF Purge, TypeOK
  <2>3. fate' \in [Parts -> Fates]
    BY <1>0, <1>8 DEF Purge, Gone, TypeOK, Fates
  <2>4. overtaken' \subseteq Ids
    BY <1>0, <1>8 DEF Purge, Expired, TypeOK
  <2>5. QED
    BY <1>0, <1>8, <2>1, <2>2, <2>3, <2>4 DEF Purge, TypeOK
<1>9. CASE UNCHANGED vars
  BY <1>0, <1>9 DEF vars, TypeOK
<1>10. QED
  BY <1>1, <1>2, <1>3, <1>4, <1>5, <1>6, <1>7, <1>8, <1>9 DEF Next, Consume, Sending, Aging

(* An entry that is not complete holds no used part, so completing it uses *)
(* every part for the first time.                                          *)
LEMMA FirstUse ==
  ASSUME JoinInv, NEW p \in Parts, p \in coming, p.id \in DOMAIN events,
         ~Reported(events[p.id].got[p.inbox]),
         NEW q \in PartsOf(GotWith(p)) \cap Parts
  PROVE  uses[q] = 0 /\ fate[q] # "joined"
<1>1. p.inbox \in Inboxes /\ ~Completed(events[p.id].got)
  BY DEF Completed, Parts
<1>2. PICK i \in Inboxes : q = GotWith(p)[i] /\ q # NoPart
  BY DEF PartsOf
<1>3. CASE i = p.inbox
  <2>1. q = p /\ fate[q] = "coming"
    BY <1>2, <1>3, GotWithType DEF JoinInv, TypeOK
  <2>2. QED
    BY <2>1 DEF JoinInv, UsedMeansJoined, TypeOK
<1>4. CASE i # p.inbox
  <2>1. q = events[p.id].got[i]
    BY <1>2, <1>4, GotWithType DEF JoinInv
  <2>2. fate[q] # "joined"
    BY <1>1, <1>2, <2>1 DEF JoinInv, UsedInComplete
  <2>3. QED
    BY <2>2 DEF JoinInv, UsedMeansJoined, TypeOK
<1>5. QED
  BY <1>3, <1>4

(* The other parts of the invariant are kept by every step.                *)
LEMMA StepJoinInv == JoinInv /\ [Next]_vars => JoinInv'
<1> SUFFICES ASSUME JoinInv, [Next]_vars PROVE JoinInv'
  OBVIOUS
<1>0. TypeOK /\ JoinsWhole /\ EntriesPlaced /\ TasksWhole /\ UsedMeansJoined /\ UsedInComplete
  BY DEF JoinInv
<1>t. TypeOK'
  BY StepType
<1>1. ASSUME NEW p \in Parts, FirstReport(p) PROVE JoinInv'
  <2>1. UNCHANGED <<sending, sent, uses>>
    BY <1>1 DEF FirstReport
  <2>2. JoinsWhole' /\ TasksWhole'
    BY <1>0, <2>1 DEF JoinsWhole, TasksWhole
  <2>3. fate[p] = "coming" /\ \A q \in Parts : fate'[q] = IF q = p THEN "waiting" ELSE fate[q]
    BY <1>0, <1>1 DEF FirstReport, Comes, TypeOK
  <2>4. UsedMeansJoined'
    BY <1>0, <2>1, <2>3 DEF UsedMeansJoined
  <2>5. EntriesPlaced'
    BY <1>0, <1>1 DEF FirstReport, WithEntry, Comes, EntriesPlaced, Parts
  <2>6. UsedInComplete'
    <3> SUFFICES ASSUME NEW id \in DOMAIN events', NEW i \in Inboxes,
                        events'[id].got[i] # NoPart, fate'[events'[id].got[i]] = "joined"
                 PROVE  Completed(events'[id].got)
      BY DEF UsedInComplete, Completed, Reported
    <3>1. CASE id = p.id
      <4>1. events'[id].got[i] = p
        BY <1>1, <3>1 DEF FirstReport, WithEntry
      <4>2. QED
        BY <2>3, <4>1
    <3>2. CASE id # p.id
      <4>1. id \in DOMAIN events /\ events'[id] = events[id]
        BY <1>1, <3>2 DEF FirstReport, WithEntry
      <4>2. events[id].got[i] \in Parts
        BY <1>0, <4>1 DEF TypeOK, Gots
      <4>3. QED
        BY <1>0, <2>3, <4>1, <4>2 DEF UsedInComplete
    <3>3. QED
      BY <3>1, <3>2
  <2>7. QED
    BY <1>t, <2>2, <2>4, <2>5, <2>6 DEF JoinInv
<1>2. ASSUME NEW p \in Parts, Report(p) PROVE JoinInv'
  <2>1. UNCHANGED <<sending, sent, uses>> /\ p.id \in DOMAIN events
    BY <1>2 DEF Report
  <2>2. JoinsWhole' /\ TasksWhole'
    BY <1>0, <2>1 DEF JoinsWhole, TasksWhole
  <2>3. \A q \in Parts : fate[q] = "joined" <=> fate'[q] = "joined"
    BY <1>0, <1>2 DEF Report, WithReport, Comes, TypeOK
  <2>4. UsedMeansJoined'
    BY <1>0, <2>1, <2>3 DEF UsedMeansJoined
  <2>e. \A id \in DOMAIN events : /\ id \in DOMAIN events'
                                  /\ events'[id].got = IF id = p.id THEN GotWith(p) ELSE events[id].got
    BY <1>0, <1>2 DEF Report, TypeOK
  <2>d. DOMAIN events' = DOMAIN events
    BY <1>2 DEF Report
  <2>5. EntriesPlaced'
    <3> SUFFICES ASSUME NEW id \in DOMAIN events, NEW i \in Inboxes, events'[id].got[i] # NoPart
                 PROVE  /\ events'[id].got[i].id = id /\ events'[id].got[i].inbox = i
                        /\ events'[id].got[i] \notin coming'
      BY <2>d DEF EntriesPlaced
    <3>1. CASE id = p.id /\ i = p.inbox
      <4>1. events'[id].got[i] = p
        BY <1>0, <2>1, <2>e, <3>1, GotWithType
      <4>2. coming' = coming \ {p}
        BY <1>2 DEF Report, Comes
      <4>3. QED
        BY <3>1, <4>1, <4>2
    <3>2. CASE ~(id = p.id /\ i = p.inbox)
      <4>1. events'[id].got[i] = events[id].got[i]
        BY <1>0, <2>1, <2>e, <3>2, GotWithType
      <4>2. QED
        BY <1>0, <1>2, <4>1 DEF Report, Comes, EntriesPlaced
    <3>3. QED
      BY <3>1, <3>2
  <2>6. UsedInComplete'
    <3> SUFFICES ASSUME NEW id \in DOMAIN events, NEW i \in Inboxes,
                        events'[id].got[i] # NoPart, fate'[events'[id].got[i]] = "joined"
                 PROVE  Completed(events'[id].got)
      BY <2>d DEF UsedInComplete, Completed, Reported
    <3>1. CASE id = p.id
      <4>1. events'[id].got[i] \in PartsOf(GotWith(p)) \cap Parts
        BY <1>0, <2>1, <2>e, <3>1, GotWithType DEF PartsOf, Gots
      <4>2. fate[events'[id].got[i]] # "joined"
        BY <1>0, <1>2, <2>1, <4>1, FirstUse DEF Report, Comes
      <4>3. QED
        BY <2>3, <4>1, <4>2
    <3>2. CASE id # p.id
      <4>1. events'[id].got = events[id].got /\ events[id].got[i] \in Parts
        BY <1>0, <2>e, <3>2 DEF TypeOK, Gots
      <4>2. QED
        BY <1>0, <2>3, <4>1 DEF UsedInComplete
    <3>3. QED
      BY <3>1, <3>2
  <2>7. QED
    BY <1>t, <2>2, <2>4, <2>5, <2>6 DEF JoinInv
<1>3. ASSUME NEW p \in Parts, Complete(p) PROVE JoinInv'
  <2>1. UNCHANGED sent /\ p.id \in DOMAIN events /\ p \in coming
    BY <1>3 DEF Complete, Comes
  <2>2. JoinsWhole'
    BY <1>0, <2>1 DEF JoinsWhole
  <2>e. \A id \in DOMAIN events : /\ id \in DOMAIN events'
                                  /\ events'[id].got = IF id = p.id THEN GotWith(p) ELSE events[id].got
    BY <1>0, <1>3 DEF Complete, TypeOK
  <2>d. DOMAIN events' = DOMAIN events /\ Completed(GotWith(p))
    BY <1>3 DEF Complete
  <2>f. \A q \in Parts : fate'[q] = "joined" <=> fate[q] = "joined" \/ q \in PartsOf(GotWith(p))
    BY <1>0, <1>3 DEF Complete, WithReport, Comes, TypeOK
  <2>3. ASSUME NEW q \in PartsOf(GotWith(p)) \cap Parts PROVE uses[q] = 0
    BY <1>3, <2>1, FirstUse DEF Complete
  <2>4. UsedMeansJoined'
    <3> SUFFICES ASSUME NEW q \in Parts PROVE uses'[q] <= 1 /\ (uses'[q] = 1 => fate'[q] = "joined")
      BY DEF UsedMeansJoined
    <3>1. uses'[q] = IF q \in PartsOf(GotWith(p)) THEN uses[q] + 1 ELSE uses[q]
      BY <1>3 DEF Complete
    <3>2. QED
      BY <1>0, <2>3, <2>f, <3>1 DEF UsedMeansJoined
  <2>5. EntriesPlaced'
    <3> SUFFICES ASSUME NEW id \in DOMAIN events, NEW i \in Inboxes, events'[id].got[i] # NoPart
                 PROVE  /\ events'[id].got[i].id = id /\ events'[id].got[i].inbox = i
                        /\ events'[id].got[i] \notin coming'
      BY <2>d DEF EntriesPlaced
    <3>1. CASE id = p.id /\ i = p.inbox
      <4>1. events'[id].got[i] = p
        BY <1>0, <2>1, <2>e, <3>1, GotWithType
      <4>2. coming' = coming \ {p}
        BY <1>3 DEF Complete, Comes
      <4>3. QED
        BY <3>1, <4>1, <4>2
    <3>2. CASE ~(id = p.id /\ i = p.inbox)
      <4>1. events'[id].got[i] = events[id].got[i]
        BY <1>0, <2>1, <2>e, <3>2, GotWithType
      <4>2. QED
        BY <1>0, <1>3, <4>1 DEF Complete, Comes, EntriesPlaced
    <3>3. QED
      BY <3>1, <3>2
  <2>6. UsedInComplete'
    <3> SUFFICES ASSUME NEW id \in DOMAIN events, id # p.id, NEW i \in Inboxes,
                        events'[id].got[i] # NoPart, fate'[events'[id].got[i]] = "joined"
                 PROVE  Completed(events'[id].got)
      BY <2>d, <2>e DEF UsedInComplete, Completed, Reported
    <3>1. events'[id].got = events[id].got /\ events[id].got[i] \in Parts
      BY <1>0, <2>e DEF TypeOK, Gots
    <3>2. events[id].got[i].id = id
      BY <1>0, <3>1 DEF EntriesPlaced
    <3>3. events[id].got[i] \notin PartsOf(GotWith(p))
      <4> SUFFICES ASSUME NEW j \in Inboxes, GotWith(p)[j] # NoPart PROVE GotWith(p)[j].id = p.id
        BY <3>1, <3>2 DEF PartsOf
      <4>1. CASE j = p.inbox
        BY <1>0, <2>1, <4>1, GotWithType
      <4>2. CASE j # p.inbox
        BY <1>0, <2>1, <4>2, GotWithType DEF EntriesPlaced
      <4>3. QED
        BY <4>1, <4>2
    <3>4. QED
      BY <1>0, <2>f, <3>1, <3>3 DEF UsedInComplete
  <2>7. TasksWhole'
    <3>1. ASSUME NEW i \in Inboxes
          PROVE Reported(GotWith(p)[i]) /\ GotWith(p)[i].id = p.id /\ GotWith(p)[i].inbox = i
      <4>1. Reported(GotWith(p)[i]) /\ GotWith(p)[i] # NoPart
        BY <2>d DEF Completed, Reported
      <4>2. CASE i = p.inbox
        BY <1>0, <2>1, <4>1, <4>2, GotWithType
      <4>3. CASE i # p.inbox
        BY <1>0, <2>1, <4>1, <4>3, GotWithType DEF EntriesPlaced
      <4>4. QED
        BY <4>2, <4>3
    <3>2. sending' = sending \cup {[id |-> p.id, got |-> GotWith(p), left |-> Outs]}
      BY <1>3 DEF Complete
    <3>3. QED
      BY <1>0, <3>1, <3>2 DEF TasksWhole
  <2>8. QED
    BY <1>t, <2>2, <2>4, <2>5, <2>6, <2>7 DEF JoinInv
<1>4. ASSUME NEW p \in Parts, Refuse(p) PROVE JoinInv'
  <2>1. \A q \in Parts : fate[q] = "joined" <=> fate'[q] = "joined"
    BY <1>0, <1>4 DEF Refuse, Comes, TypeOK
  <2>2. \A id \in DOMAIN events, i \in Inboxes : events[id].got[i] \in Parts \cup {NoPart}
    BY <1>0 DEF TypeOK, Gots
  <2>3. UsedInComplete'
    BY <1>0, <1>4, <2>1, <2>2 DEF Refuse, UsedInComplete, Completed, Reported
  <2>4. EntriesPlaced'
    BY <1>0, <1>4 DEF Refuse, Comes, EntriesPlaced
  <2>5. QED
    BY <1>0, <1>4, <1>t, <2>1, <2>3, <2>4 DEF Refuse, JoinInv, JoinsWhole, TasksWhole, UsedMeansJoined
<1>5. ASSUME NEW t \in sending, EndSend(t) PROVE JoinInv'
  <2>1. DOMAIN events' \subseteq DOMAIN events /\ \A id \in DOMAIN events' : events'[id] = events[id]
    BY <1>5 DEF EndSend, Restrict
  <2>2. \A q \in Parts : fate[q] = "joined" <=> fate'[q] = "joined"
    BY <1>0, <1>5 DEF EndSend, Gone, TypeOK
  <2>3. \A id \in DOMAIN events, i \in Inboxes : events[id].got[i] \in Parts \cup {NoPart}
    BY <1>0 DEF TypeOK, Gots
  <2>4. UsedInComplete' /\ EntriesPlaced'
    <3>1. UsedInComplete'
      BY <1>0, <2>1, <2>2, <2>3 DEF UsedInComplete, Completed, Reported
    <3>2. EntriesPlaced'
      <4>1. coming' = coming
        BY <1>5 DEF EndSend
      <4>2. QED
        BY <1>0, <2>1, <4>1 DEF EntriesPlaced
    <3>3. QED
      BY <3>1, <3>2
  <2>5. QED
    BY <1>0, <1>5, <1>t, <2>2, <2>4 DEF EndSend, JoinInv, JoinsWhole, TasksWhole, UsedMeansJoined
<1>6. ASSUME NEW t \in sending, NEW o \in Outs, Send(t, o) PROVE JoinInv'
  <2>1. [t EXCEPT !.left = @ \ {o}].id = t.id /\ [t EXCEPT !.left = @ \ {o}].got = t.got
    BY <1>0 DEF TypeOK, Tasks
  <2>2. TasksWhole'
    <3>1. \A u \in sending' : \E v \in sending : u.id = v.id /\ u.got = v.got
      BY <1>6, <2>1 DEF Send
    <3>2. QED
      BY <1>0, <3>1 DEF TasksWhole, Reported
  <2>3. JoinsWhole'
    <3>1. t.id \in Ids /\ \A i \in Inboxes : t.got[i] \in {p \in Parts : p.id = t.id /\ p.inbox = i}
      BY <1>0 DEF TasksWhole, TypeOK, Tasks, Gots, Reported
    <3>2. QED
      BY <1>0, <1>6, <3>1 DEF Send, JoinsWhole
  <2>4. QED
    BY <1>0, <1>6, <1>t, <2>2, <2>3
    DEF Send, JoinInv, EntriesPlaced, UsedMeansJoined, UsedInComplete, Completed, Reported
<1>7. ASSUME NEW id \in Ids, Age(id) PROVE JoinInv'
  <2>1. DOMAIN events' = DOMAIN events
        /\ \A i \in DOMAIN events : events'[i].got = events[i].got
    BY <1>0, <1>7 DEF Age, TypeOK
  <2>2. QED
    BY <1>0, <1>7, <1>t, <2>1
    DEF Age, JoinInv, JoinsWhole, TasksWhole, EntriesPlaced, UsedMeansJoined, UsedInComplete, Completed, Reported
<1>8. CASE Purge
  <2>1. DOMAIN events' \subseteq DOMAIN events /\ \A id \in DOMAIN events' : events'[id] = events[id]
    BY <1>8 DEF Purge, Restrict
  <2>2. \A q \in Parts : fate[q] = "joined" <=> fate'[q] = "joined"
    BY <1>0, <1>8 DEF Purge, Gone, TypeOK
  <2>3. \A id \in DOMAIN events, i \in Inboxes : events[id].got[i] \in Parts \cup {NoPart}
    BY <1>0 DEF TypeOK, Gots
  <2>4. UsedInComplete' /\ EntriesPlaced'
    <3>1. UsedInComplete'
      BY <1>0, <2>1, <2>2, <2>3 DEF UsedInComplete, Completed, Reported
    <3>2. EntriesPlaced'
      <4>1. coming' = coming
        BY <1>8 DEF Purge
      <4>2. QED
        BY <1>0, <2>1, <4>1 DEF EntriesPlaced
    <3>3. QED
      BY <3>1, <3>2
  <2>5. QED
    BY <1>0, <1>8, <1>t, <2>2, <2>4 DEF Purge, JoinInv, JoinsWhole, TasksWhole, UsedMeansJoined
<1>9. CASE UNCHANGED vars
  BY <1>0, <1>9, <1>t
  DEF vars, JoinInv, JoinsWhole, TasksWhole, EntriesPlaced, UsedMeansJoined, UsedInComplete, Completed, Reported
<1>10. QED
  BY <1>1, <1>2, <1>3, <1>4, <1>5, <1>6, <1>7, <1>8, <1>9 DEF Next, Consume, Sending, Aging

(* The inductive invariant holds throughout.                               *)
LEMMA JoinInvHolds == Spec => []JoinInv
<1>1. QED
  BY InitJoinInv, StepJoinInv, PTL DEF Spec

-----------------------------------------------------------------------------
(* Every part that waits does so in the entry of its id, at any time.      *)
THEOREM JoinTypeCorrect == Spec => []TypeOK
<1>1. JoinInv => TypeOK
  BY DEF JoinInv
<1>2. QED
  BY <1>1, JoinInvHolds, PTL

(* What EventJoin sends has exactly one part of every inbound queue, all   *)
(* of one id.                                                              *)
THEOREM JoinsAreWhole == Spec => []JoinsWhole
<1>1. JoinInv => JoinsWhole
  BY DEF JoinInv
<1>2. QED
  BY <1>1, JoinInvHolds, PTL

(* No data is sent in two joins, whatever sleeps, repeats and is purged.   *)
THEOREM NoPartUsedTwice == Spec => []PartsUsedOnce
<1>1. JoinInv => PartsUsedOnce
  BY DEF JoinInv, UsedMeansJoined, PartsUsedOnce
<1>2. QED
  BY <1>1, JoinInvHolds, PTL

-----------------------------------------------------------------------------
(* Where accepted data may get lost.  Until its id is purged, a join that  *)
(* is being sent is the only one of its id and its entry is still there,   *)
(* so that the delete at the end finds nothing but used parts.             *)
EntryOfSend ==
  \A t \in sending :
    t.id \in overtaken \/ (t.id \in DOMAIN events /\ events[t.id].got = t.got)

OneSend ==
  \A t, u \in sending : t.id = u.id => t = u \/ t.id \in overtaken

TasksJoined ==
  \A t \in sending : \A i \in Inboxes : fate[t.got[i]] = "joined"

SendInv == EntryOfSend /\ OneSend /\ TasksJoined /\ LostOnlyToOvertakenSend

(* A report is accepted only for an id without a send that still has its   *)
(* entry.                                                                  *)
LEMMA AcceptedMeansOvertaken ==
  ASSUME JoinInv, SendInv, NEW p \in Parts,
         p.id \notin DOMAIN events \/ ~Reported(events[p.id].got[p.inbox]),
         NEW t \in sending, t.id = p.id
  PROVE  t.id \in overtaken
<1>1. p.inbox \in Inboxes
  BY DEF Parts
<1>2. Reported(t.got[p.inbox])
  BY <1>1 DEF JoinInv, TasksWhole
<1>3. QED
  BY <1>2 DEF SendInv, EntryOfSend

(* Without data that compares equal to False no report is replaced.        *)
LEMMA NothingReplaced ==
  ASSUME Falsy = {}, JoinInv, NEW p \in Parts, p \in coming, p.id \in DOMAIN events,
         ~Reported(events[p.id].got[p.inbox]), NEW q \in Parts
  PROVE  WithReport(p)[q] = IF q = p THEN "waiting" ELSE fate[q]
<1>1. events[p.id].got[p.inbox] = NoPart
  BY DEF Reported
<1>2. QED
  BY <1>1, JoinAssumption DEF WithReport

(* What a task sends are parts, so their fates are kept as parts' are.     *)
LEMMA TaskParts ==
  ASSUME JoinInv, NEW t \in sending, NEW i \in Inboxes
  PROVE  t.got[i] \in Parts /\ t \in Tasks
<1>1. t \in Tasks /\ t.got[i] # NoPart
  BY DEF JoinInv, TypeOK, TasksWhole, Reported
<1>2. QED
  BY <1>1 DEF Tasks, Gots

(* Both facts are kept by every step.                                      *)
LEMMA StepSendInv ==
  ASSUME Falsy = {}
  PROVE  JoinInv /\ SendInv /\ [Next]_vars => SendInv'
<1> SUFFICES ASSUME JoinInv, SendInv, [Next]_vars PROVE SendInv'
  OBVIOUS
<1>0. TypeOK /\ EntryOfSend /\ OneSend /\ TasksJoined /\ LostOnlyToOvertakenSend
  BY DEF JoinInv, SendInv
<1>1. ASSUME NEW p \in Parts, FirstReport(p) PROVE SendInv'
  <2>1. UNCHANGED <<sending, overtaken>> /\ p.id \notin DOMAIN events /\ p \in coming
    BY <1>1 DEF FirstReport, Comes
  <2>2. \A q \in Parts : fate'[q] = IF q = p THEN "waiting" ELSE fate[q]
    BY <1>0, <1>1 DEF FirstReport, TypeOK
  <2>3. fate[p] = "coming"
    BY <1>0, <2>1 DEF TypeOK
  <2>4. EntryOfSend'
    <3>1. \A id \in DOMAIN events : id \in DOMAIN events' /\ events'[id] = events[id]
      BY <1>1, <2>1 DEF FirstReport, WithEntry
    <3>2. QED
      BY <1>0, <2>1, <3>1 DEF EntryOfSend
  <2>5. TasksJoined'
    BY <1>0, <2>1, <2>2, <2>3, TaskParts DEF TasksJoined
  <2>6. QED
    BY <1>0, <2>1, <2>2, <2>4, <2>5 DEF SendInv, OneSend, LostOnlyToOvertakenSend
<1>2. ASSUME NEW p \in Parts, Report(p) PROVE SendInv'
  <2>1. /\ UNCHANGED <<sending, overtaken>> /\ p.id \in DOMAIN events /\ p \in coming
        /\ ~Reported(events[p.id].got[p.inbox])
    BY <1>2 DEF Report, Comes
  <2>2. \A q \in Parts : fate'[q] = IF q = p THEN "waiting" ELSE fate[q]
    BY <1>2, <2>1, NothingReplaced DEF Report
  <2>3. fate[p] = "coming"
    BY <1>0, <2>1 DEF TypeOK
  <2>4. EntryOfSend'
    <3>1. \A id \in DOMAIN events : id # p.id => id \in DOMAIN events' /\ events'[id] = events[id]
      BY <1>2 DEF Report
    <3>2. \A t \in sending : t.id = p.id => t.id \in overtaken
      BY <2>1, AcceptedMeansOvertaken
    <3>3. QED
      BY <1>0, <2>1, <3>1, <3>2 DEF EntryOfSend
  <2>5. TasksJoined'
    BY <1>0, <2>1, <2>2, <2>3, TaskParts DEF TasksJoined
  <2>6. QED
    BY <1>0, <2>1, <2>2, <2>4, <2>5 DEF SendInv, OneSend, LostOnlyToOvertakenSend
<1>3. ASSUME NEW p \in Parts, Complete(p) PROVE SendInv'
  <2> DEFINE new == [id |-> p.id, got |-> GotWith(p), left |-> Outs]
  <2>1. /\ UNCHANGED overtaken /\ p.id \in DOMAIN events /\ p \in coming
        /\ ~Reported(events[p.id].got[p.inbox]) /\ Completed(GotWith(p))
    BY <1>3 DEF Complete, Comes
  <2>2. \A q \in Parts : fate'[q] = IF q \in PartsOf(GotWith(p)) THEN "joined"
                                    ELSE IF q = p THEN "waiting" ELSE fate[q]
    BY <1>3, <2>1, NothingReplaced DEF Complete
  <2>3. sending' = sending \cup {new}
    BY <1>3 DEF Complete
  <2>4. \A t \in sending : t.id = p.id => t.id \in overtaken
    BY <2>1, AcceptedMeansOvertaken
  <2>5. EntryOfSend'
    <3>1. \A id \in DOMAIN events : /\ id \in DOMAIN events'
                                    /\ events'[id].got = IF id = p.id THEN GotWith(p) ELSE events[id].got
      BY <1>0, <1>3 DEF Complete, TypeOK
    <3>2. QED
      BY <1>0, <2>1, <2>3, <2>4, <3>1 DEF EntryOfSend
  <2>6. OneSend'
    BY <1>0, <2>1, <2>3, <2>4 DEF OneSend
  <2>7. TasksJoined'
    <3>1. \A i \in Inboxes : GotWith(p)[i] \in PartsOf(GotWith(p)) \cap Parts
      BY <1>0, <2>1, GotWithType DEF Completed, Reported, PartsOf, Gots
    <3>2. fate[p] = "coming"
      BY <1>0, <2>1 DEF TypeOK
    <3>3. QED
      BY <1>0, <2>2, <2>3, <3>1, <3>2, TaskParts DEF TasksJoined
  <2>8. LostOnlyToOvertakenSend'
    BY <1>0, <2>1, <2>2 DEF LostOnlyToOvertakenSend
  <2>9. QED
    BY <2>5, <2>6, <2>7, <2>8 DEF SendInv
<1>4. ASSUME NEW p \in Parts, Refuse(p) PROVE SendInv'
  <2>1. UNCHANGED <<events, sending, overtaken>> /\ fate[p] = "coming"
    BY <1>0, <1>4 DEF Refuse, Comes, TypeOK
  <2>2. \A q \in Parts : fate'[q] = IF q = p THEN "refused" ELSE fate[q]
    BY <1>0, <1>4 DEF Refuse, TypeOK
  <2>3. TasksJoined'
    BY <1>0, <2>1, <2>2, TaskParts DEF TasksJoined
  <2>4. QED
    BY <1>0, <2>1, <2>2, <2>3 DEF SendInv, EntryOfSend, OneSend, LostOnlyToOvertakenSend
<1>5. ASSUME NEW t \in sending, EndSend(t) PROVE SendInv'
  <2>1. sending' = sending \ {t} /\ UNCHANGED overtaken
    BY <1>5 DEF EndSend
  <2>2. DOMAIN events' = DOMAIN events \ {t.id} /\ \A id \in DOMAIN events' : events'[id] = events[id]
    BY <1>5 DEF EndSend, Restrict
  <2>3. \A q \in Parts : \/ fate'[q] = fate[q]
                         \/ /\ fate[q] = "waiting" /\ fate'[q] = "lost"
                            /\ t.id \in DOMAIN events /\ q \in PartsOf(events[t.id].got)
    BY <1>0, <1>5 DEF EndSend, Gone, TypeOK
  <2>4. EntryOfSend' /\ OneSend'
    BY <1>0, <2>1, <2>2 DEF EntryOfSend, OneSend
  <2>5. TasksJoined'
    BY <1>0, <2>1, <2>3, TaskParts DEF TasksJoined
  <2>6. LostOnlyToOvertakenSend'
    <3> SUFFICES ASSUME NEW q \in Parts, fate'[q] = "lost", fate'[q] # fate[q]
                 PROVE  q.id \in overtaken
      BY <1>0, <2>1 DEF LostOnlyToOvertakenSend
    <3>1. PICK i \in Inboxes : t.id \in DOMAIN events /\ q = events[t.id].got[i] /\ q # NoPart
      BY <2>3 DEF PartsOf
    <3>2. q.id = t.id /\ fate[q] = "waiting"
      BY <2>3, <3>1 DEF JoinInv, EntriesPlaced
    <3>3. events[t.id].got # t.got
      BY <1>0, <3>1, <3>2 DEF TasksJoined
    <3>4. QED
      BY <1>0, <3>2, <3>3 DEF EntryOfSend
  <2>7. QED
    BY <2>4, <2>5, <2>6 DEF SendInv
<1>6. ASSUME NEW t \in sending, NEW o \in Outs, Send(t, o) PROVE SendInv'
  <2> DEFINE rest == [t EXCEPT !.left = @ \ {o}]
  <2>1. rest.id = t.id /\ rest.got = t.got
    BY <1>0 DEF TypeOK, Tasks
  <2>2. sending' = (sending \ {t}) \cup {rest} /\ UNCHANGED <<events, fate, overtaken>>
    BY <1>6 DEF Send
  <2> HIDE DEF rest
  <2>3. EntryOfSend' /\ OneSend' /\ TasksJoined'
    BY <1>0, <2>1, <2>2 DEF EntryOfSend, OneSend, TasksJoined
  <2>4. QED
    BY <1>0, <2>2, <2>3 DEF SendInv, LostOnlyToOvertakenSend
<1>7. ASSUME NEW id \in Ids, Age(id) PROVE SendInv'
  <2>1. DOMAIN events' = DOMAIN events
        /\ \A i \in DOMAIN events : events'[i].got = events[i].got
    BY <1>0, <1>7 DEF Age, TypeOK
  <2>2. UNCHANGED <<sending, fate, overtaken>>
    BY <1>7 DEF Age
  <2>3. QED
    BY <1>0, <2>1, <2>2 DEF SendInv, EntryOfSend, OneSend, TasksJoined, LostOnlyToOvertakenSend
<1>8. CASE Purge
  <2>1. DOMAIN events' = DOMAIN events \ Expired /\ \A id \in DOMAIN events' : events'[id] = events[id]
    BY <1>8 DEF Purge, Restrict
  <2>2. \A q \in Parts : fate'[q] = fate[q] \/ (fate[q] = "waiting" /\ fate'[q] = "purged")
    BY <1>0, <1>8 DEF Purge, Gone, TypeOK
  <2>3. UNCHANGED sending /\ overtaken \subseteq overtaken'
        /\ \A t \in sending : t.id \in Expired => t.id \in overtaken'
    BY <1>8 DEF Purge
  <2>4. EntryOfSend' /\ OneSend'
    BY <1>0, <2>1, <2>3 DEF EntryOfSend, OneSend
  <2>5. TasksJoined'
    BY <1>0, <2>2, <2>3, TaskParts DEF TasksJoined
  <2>6. QED
    BY <1>0, <2>2, <2>3, <2>4, <2>5 DEF SendInv, LostOnlyToOvertakenSend
<1>9. CASE UNCHANGED vars
  BY <1>0, <1>9 DEF vars, SendInv, EntryOfSend, OneSend, TasksJoined, LostOnlyToOvertakenSend
<1>10. QED
  BY <1>1, <1>2, <1>3, <1>4, <1>5, <1>6, <1>7, <1>8, <1>9 DEF Next, Consume, Sending, Aging

(* Data that has been accepted, and does not compare equal to False, is    *)
(* lost only to the delete after a send that took longer than the purge    *)
(* interval.                                                               *)
THEOREM LossNeedsPurge ==
  ASSUME Falsy = {}
  PROVE  Spec => []LostOnlyToOvertakenSend
<1>1. Init => SendInv
  BY DEF Init, SendInv, EntryOfSend, OneSend, TasksJoined, LostOnlyToOvertakenSend
<1>2. JoinInv /\ SendInv /\ [Next]_vars => SendInv'
  BY StepSendInv
<1>3. SendInv => LostOnlyToOvertakenSend
  BY DEF SendInv
<1>4. QED
  BY <1>1, <1>2, <1>3, JoinInvHolds, PTL DEF Spec

NothingLost == \A p \in Parts : fate[p] # "lost"

(* Without a purge interval, which is the default, such data is never lost.*)
THEOREM NothingLostUnpurged ==
  ASSUME Falsy = {}, ~Purging
  PROVE  Spec => []NothingLost
<1> DEFINE NoneOvertaken == overtaken = {}
<1>1. Init => NoneOvertaken
  BY DEF Init
<1>2. NoneOvertaken /\ [Next]_vars => NoneOvertaken'
  BY DEF Next, Consume, FirstReport, Report, Complete, Refuse, Sending, Send, EndSend,
         Aging, Age, Purge, vars
<1>3. LostOnlyToOvertakenSend /\ NoneOvertaken => NothingLost
  BY DEF LostOnlyToOvertakenSend, NothingLost
<1>4. QED
  BY <1>1, <1>2, <1>3, LossNeedsPurge, PTL DEF Spec
=============================================================================
