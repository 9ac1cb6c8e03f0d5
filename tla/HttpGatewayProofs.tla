------------------------- MODULE HttpGatewayProofs --------------------------
(***************************************************************************)
(* Proofs about HttpGateway for all requests, routers, actors and events.  *)
(*                                                                         *)
(* Three facts carry the proofs. About events: creating, copying and       *)
(* converting one, and giving it an error, keeps its data in the format of *)
(* its class and its status that of its error (Fit). About requests: one   *)
(* that has a responder, or has not been made, has no answer yet. About    *)
(* both: of the events of a request that the server is sure to hear of,    *)
(* one is with the router, with the server or with an actor that reports   *)
(* (Pending), and until an actor has it an event is the one of callback.   *)
(***************************************************************************)
EXTENDS HttpGateway, TLAPS

Fit(e) ==
  /\ e \in Event /\ Sound(e)
  /\ e.class.http
  /\ e.status = HttpCode[e.error] \/ (e.error = "none" /\ e.status = 201)

(* Every error has its status.                                             *)
LEMMA CodeIsNat == \A x \in Errors : HttpCode[x] \in Nat
BY DEF HttpCode

(* An event is the record of its four parts.                               *)
LEMMA EventIsRecord ==
  ASSUME NEW e, Fit(e)
  PROVE  /\ e = [class |-> e.class, data |-> e.data, error |-> e.error, status |-> e.status]
         /\ e.class \in Class /\ e.class.http /\ e.data \in Forms /\ e.error \in Errors
BY DEF Fit, Event

(* The data of an event can be stored again in its own class.              *)
LEMMA CopyFits ==
  ASSUME NEW e, Fit(e)
  PROVE  Fit(Copy(e)) /\ Copy(e) = e
<1> USE DEF Fit
<1>1. e = [class |-> e.class, data |-> e.data, error |-> e.error, status |-> e.status]
      /\ e.class \in Class /\ e.data \in Forms /\ e.error \in Errors
  BY EventIsRecord
<1>2. Stored(e.class.format, Written(e)) = e.data
  <2>1. CASE e.class.format = "any"
    BY <2>1 DEF Stored, Written
  <2>2. CASE e.class.format = "xml"
    BY <2>2 DEF Stored, Written, Sound
  <2>3. CASE e.class.format = "json"
    BY <2>3 DEF Stored, Written, Sound
  <2>4. QED
    BY <1>1, <2>1, <2>2, <2>3 DEF Class
<1>3. Copy(e) = e
  <2>1. CASE e.error = "none"
    BY <1>1, <1>2, <2>1 DEF Copy, WithError, Event
  <2>2. CASE e.error # "none"
    <3>1. e.status = HttpCode[e.error]
      BY <2>2
    <3>2. QED
      BY <1>1, <1>2, <2>2, <3>1 DEF Copy, WithError, Event
  <2>3. QED
    BY <2>1, <2>2
<1>4. QED
  BY <1>3

(* An error brings its status.                                             *)
LEMMA ErrorFits ==
  ASSUME NEW e, Fit(e), NEW x \in Errors, x # "none"
  PROVE  Fit(WithError(e, x)) /\ WithError(e, x).error = x
<1>1. WithError(e, x) = [class |-> e.class, data |-> e.data, error |-> x, status |-> HttpCode[x]]
  <2> DEFINE c == e.class  d == e.data  r == e.error  t == e.status
  <2>1. e = [class |-> c, data |-> d, error |-> r, status |-> t] /\ c.http
    BY EventIsRecord
  <2> HIDE DEF c, d, r, t
  <2>2. e.class = c
    BY <2>1
  <2>3. WithError(e, x) = [e EXCEPT !.error = x, !.status = HttpCode[x]]
    BY <2>1, <2>2 DEF WithError
  <2>4. WithError(e, x) = [[class |-> c, data |-> d, error |-> r, status |-> t]
                             EXCEPT !.error = x, !.status = HttpCode[x]]
    BY <2>1, <2>3
  <2>5. QED
    BY <2>4 DEF c, d
<1>2. QED
  BY <1>1, CodeIsNat DEF Fit, Event, Sound

(* What a class stores is sound, or it stores nothing.                     *)
LEMMA StoredSound ==
  ASSUME NEW c \in Class, NEW form \in Forms, Stored(c.format, form) \in Forms
  PROVE  /\ c.format = "xml" => Stored(c.format, form) = "tree"
         /\ c.format = "json" => Stored(c.format, form) \in {"json", "emptyjson", "scalar"}
BY DEF Stored, Forms, Texts, Invalid, Class

(* A conversion keeps an HTTP event one, with its error and its status.    *)
LEMMA ConvertFits ==
  ASSUME NEW e, Fit(e), NEW to \in Class, Converts(e, to)
  PROVE  /\ Fit(Convert(e, to)) /\ Convert(e, to).error = e.error
         /\ Sub(Convert(e, to).class, to)
<1>1. Converted(e.class, to) \in Class /\ Converted(e.class, to).http
      /\ Sub(Converted(e.class, to), to)
  BY DEF Converted, Class, Fit, Event, Sub
<1>2. /\ Convert(e, to) = [class |-> Converted(e.class, to), data |-> ConvertedData(e, to),
                           error |-> e.error, status |-> e.status]
      /\ e.data \in Forms
  <2>1. e = [class |-> e.class, data |-> e.data, error |-> e.error, status |-> e.status]
        /\ e.data \in Forms
    BY EventIsRecord
  <2>2. Convert(e, to) =
          [[class |-> e.class, data |-> e.data, error |-> e.error, status |-> e.status]
             EXCEPT !.class = Converted(e.class, to), !.data = ConvertedData(e, to)]
    BY <2>1, Zenon DEF Convert
  <2>3. QED
    BY <2>1, <2>2
<1>3. ConvertedData(e, to) \in Forms /\ ConvertedData(e, to) = Stored(Converted(e.class, to).format, e.data)
  BY DEF Converts, ConvertedData
<1>4. QED
  BY <1>1, <1>2, <1>3, StoredSound DEF Fit, Event, Sound

(* The event of a request is refused with its error, or carries its data.  *)
LEMMA EventOfFits ==
  ASSUME NEW s \in Shapes
  PROVE  Fit(EventOf(s)) /\ EventOf(s).error = Refusal(s)
<1>1. s.form \in Forms /\ "none" \in Forms
  BY GatewayAssumption DEF Forms, Texts
<1>2. WantedClass(s) \in Class /\ WantedClass(s).http
  BY DEF WantedClass, ClassOf, ClassOfKey, Json, Html, Plain, Class
<1>3. Refusal(s) \in {"none", "ResourceNotFound", "MalformedEventData", Invalid}
  BY DEF Refusal
<1>4. CASE Refusal(s) = "none"
  <2>1. Stored(WantedClass(s).format, s.form) \in Forms
    <3>1. Stored(WantedClass(s).format, s.form) # Invalid
      BY <1>4 DEF Refusal, Invalid
    <3>2. QED
      BY <1>1, <1>2, <3>1 DEF Stored, Forms, Texts
  <2>2. EventOf(s) = [class |-> WantedClass(s), data |-> Stored(WantedClass(s).format, s.form),
                      error |-> "none", status |-> 200]
    BY <1>4 DEF EventOf, NewEvent
  <2>3. HttpCode["none"] = 200 /\ "none" \in Errors
    BY DEF HttpCode, Errors
  <2>4. QED
    BY <1>1, <1>2, <1>4, <2>1, <2>2, <2>3, StoredSound DEF Fit, Event, Sound
<1>5. CASE Refusal(s) # "none"
  <2>1. Stored(WantedClass(s).format, "none") \in Forms
    BY <1>2 DEF Stored, Forms, Texts, Class
  <2>2. NewEvent(WantedClass(s), "none") =
          [class |-> WantedClass(s), data |-> Stored(WantedClass(s).format, "none"),
           error |-> "none", status |-> 200]
    BY DEF NewEvent
  <2>3. HttpCode["none"] = 200 /\ "none" \in Errors
    BY DEF HttpCode, Errors
  <2>4. Fit(NewEvent(WantedClass(s), "none"))
    BY <1>1, <1>2, <2>1, <2>2, <2>3, StoredSound DEF Fit, Event, Sound
  <2>5. Refusal(s) \in Errors
    BY <1>3 DEF Errors, Invalid
  <2>6. QED
    BY <1>5, <2>4, <2>5, ErrorFits DEF EventOf
<1>6. QED
  BY <1>4, <1>5

-----------------------------------------------------------------------------
(* A started router sends to queues of its pool only.                      *)
Places == {"router", "server"} \cup ToSet(Backends)

Ways(W) == \A w \in W : w.place \in Nat \X Nat /\ w.outbox \in ToSet(Backends)

RouterStarted ==
  /\ Ways(router.defaults)
  /\ \A i \in DOMAIN router.filters : Ways(Boxes(router, i))

(* pre_hook completes a router it does not refuse.                         *)
LEMMA DefaultsStarted ==
  ASSUME NEW r \in Routers, CanStart(r, Backends), router = WithDefaults(r, Backends)
  PROVE  RouterStarted
<1> DEFINE W == IF r.whitelist THEN {}
                ELSE Preset(r) \cup UNION {{Way(i, j, Backends[j]) : j \in Unfiltered(r, Backends, i)} :
                                          i \in DOMAIN r.patterns}
<1>1. Ways(Preset(r))
  BY RouterAssumption DEF Ways, Preset, Way, ToSet
<1>2. ASSUME NEW i \in DOMAIN r.patterns PROVE Ways({Way(i, j, Backends[j]) : j \in Unfiltered(r, Backends, i)})
  <2>1. i \in Nat /\ \A j \in Unfiltered(r, Backends, i) : j \in Nat /\ Backends[j] \in ToSet(Backends)
    BY RouterAssumption DEF Unfiltered, ToSet
  <2>2. \A j \in Unfiltered(r, Backends, i) : /\ Way(i, j, Backends[j]).place \in Nat \X Nat
                                             /\ Way(i, j, Backends[j]).outbox \in ToSet(Backends)
    BY <2>1 DEF Way
  <2>3. QED
    BY <2>2 DEF Ways
<1>3. Ways(W)
  BY <1>1, <1>2 DEF Ways
<1>4. router.defaults = W /\ router.filters = r.filters
  <2>1. router = [r EXCEPT !.defaults = W] /\ "filters" \in DOMAIN r /\ "defaults" \in DOMAIN r
    BY RouterAssumption DEF WithDefaults
  <2> HIDE DEF W
  <2>2. QED
    BY <2>1
<1> HIDE DEF W
<1>5. ASSUME NEW i \in DOMAIN r.filters PROVE Ways(Boxes(router, i))
  <2>1. ToSet(r.filters[i].outs) \subseteq ToSet(Backends) /\ DOMAIN r.filters[i].outs \subseteq Nat /\ i \in Nat
    BY RouterAssumption DEF CanStart
  <2>2. Boxes(router, i) = {Way(i, j, r.filters[i].outs[j]) : j \in DOMAIN r.filters[i].outs}
    BY <1>4 DEF Boxes
  <2>3. QED
    BY <2>1, <2>2 DEF Ways, Way, ToSet
<1>6. QED
  BY <1>3, <1>4, <1>5 DEF RouterStarted

(* Whatever it sends goes there.                                           *)
LEMMA DeliveriesGo == ASSUME RouterStarted, NEW attrs PROVE Ways(Deliveries(router, attrs))
BY DEF RouterStarted, Deliveries, Ways, Matching

-----------------------------------------------------------------------------
StateType ==
  /\ shape \in [Requests -> Shapes \cup {None}]
  /\ DOMAIN responders \subseteq Requests
  /\ answer = [r \in Requests |-> answer[r]]
  /\ answers \in [Requests -> Nat]

(* A request that has not been made, or has a responder, has no answer.    *)
Waiting ==
  \A r \in Requests :
    /\ shape[r] = None => r \notin DOMAIN responders /\ answer[r] = None
    /\ answers[r] <= 1
    /\ shape[r] = None \/ r \in DOMAIN responders => answers[r] = 0

(* An event on a queue belongs to a request that was made; that of a       *)
(* refused one only ever goes back to the server, and until an actor has   *)
(* it, it is as callback made it.                                          *)
Travels(m) ==
  /\ m.id \in Requests /\ shape[m.id] \in Shapes
  /\ Fit(m.e)
  /\ Refusal(shape[m.id]) # "none" => m.at = "server" /\ m.e.error = Refusal(shape[m.id])
  /\ m.at # "server" => m.e = EventOf(shape[m.id])

NetSound == \A m \in net : Travels(m)

(* The requests that the server is sure to hear of, and the actors that    *)
(* see to it: router and wiring do not change once all is started.         *)
Hears == {s \in Shapes : Heard(s)}

Reporting == {p \in ToSet(Backends) \X Shapes : Reports(p[1], p[2])}

Coming(m) == m.at \in {"router", "server"} \/ <<m.at, shape[m.id]>> \in Reporting

Pending ==
  \A r \in DOMAIN responders : shape[r] \in Hears => \E m \in net : m.id = r /\ Coming(m)

IInv == RouterStarted /\ StateType /\ Waiting /\ NetSound /\ AnswerFits /\ Pending

(* Neither changes, nor what is on its way to come.                        *)
LEMMA WiringKept ==
  ASSUME UNCHANGED <<router, inbound>> PROVE Hears' = Hears /\ Reporting' = Reporting
<1>1. \A b, s : Reports(b, s)' <=> Reports(b, s)
  BY DEF Reports
<1>2. \A s : Heard(s)' <=> Heard(s)
  BY DEF Heard, Reports
<1>3. QED
  BY <1>1, <1>2 DEF Hears, Reporting

(* Nothing has been asked.                                                 *)
LEMMA InitIInv == Init => IInv
<1> SUFFICES ASSUME Init PROVE IInv
  OBVIOUS
<1>1. RouterStarted
  BY DefaultsStarted DEF Init
<1>2. StateType /\ Waiting /\ NetSound /\ AnswerFits /\ Pending
  BY DEF Init, StateType, Waiting, NetSound, AnswerFits, Pending
<1>3. QED
  BY <1>1, <1>2 DEF IInv

-----------------------------------------------------------------------------
(* The answers bottle gives itself.                                        *)
LEMMA BareKeeps ==
  ASSUME IInv, NEW r \in Requests, NEW s \in Shapes, Unsupported(r, s) \/ RefuseBare(r, s)
  PROVE  IInv'
<1> USE DEF IInv
<1>1. /\ shape[r] = None /\ shape' = [shape EXCEPT ![r] = s]
      /\ answers' = [answers EXCEPT ![r] = @ + 1]
      /\ \E k : answer' = [answer EXCEPT ![r] = Bare(k)]
      /\ UNCHANGED <<router, inbound, responders, net>>
  BY DEF Unsupported, RefuseBare, Answered
<1>2. PICK k : answer' = [answer EXCEPT ![r] = Bare(k)]
  BY <1>1
<1>3. s # None /\ r \notin DOMAIN responders /\ answers[r] = 0
  BY <1>1, GatewayAssumption DEF Waiting
<1>4. StateType'
  BY <1>1, <1>2 DEF StateType
<1>5. Waiting'
  BY <1>1, <1>2, <1>3 DEF Waiting, StateType
<1>6. NetSound'
  <2> SUFFICES ASSUME NEW m \in net PROVE Travels(m)'
    BY <1>1 DEF NetSound
  <2>1. Travels(m) /\ m.id # r
    BY <1>1, GatewayAssumption DEF NetSound, Travels
  <2>2. shape'[m.id] = shape[m.id]
    BY <1>1, <2>1 DEF StateType, Travels
  <2>3. QED
    BY <2>1, <2>2 DEF Travels
<1>7. AnswerFits'
  <2> SUFFICES ASSUME NEW q \in Requests, answer'[q] # None /\ answer'[q].class # None
               PROVE  q # r
    BY <1>1, <1>2 DEF AnswerFits, StateType
  <2>1. Bare(k).class = None
    BY DEF Bare
  <2>2. answer'[r] = Bare(k)
    BY <1>2 DEF StateType
  <2>3. QED
    BY <2>1, <2>2
<1>8. Pending'
  <2>1. Hears' = Hears /\ Reporting' = Reporting
    BY <1>1, WiringKept
  <2> SUFFICES ASSUME NEW q \in DOMAIN responders, shape'[q] \in Hears
               PROVE  \E m \in net : m.id = q /\ Coming(m)'
    BY <1>1, <2>1 DEF Pending
  <2>2. q # r /\ shape'[q] = shape[q]
    BY <1>1, <1>3 DEF StateType
  <2>3. PICK m \in net : m.id = q /\ Coming(m)
    BY <2>2 DEF Pending
  <2>4. Coming(m)'
    BY <2>1, <2>2, <2>3 DEF Coming
  <2>5. QED
    BY <2>3, <2>4
<1>9. RouterStarted'
  BY <1>1 DEF RouterStarted, Boxes
<1>10. QED
  BY <1>4, <1>5, <1>6, <1>7, <1>8, <1>9

(* callback: the event that is sent will come for the new responder.       *)
LEMMA RequestKeeps ==
  ASSUME IInv, NEW r \in Requests, NEW s \in Shapes, Request(r, s) PROVE IInv'
<1> USE DEF IInv
<1> DEFINE where == IF Refusal(s) = "none" THEN "router" ELSE "server"
           new   == [id |-> r, e |-> Copy(EventOf(s)), n |-> <<0, 0>>, at |-> where]
<1>1. /\ shape[r] = None /\ shape' = [shape EXCEPT ![r] = s]
      /\ responders' = [x \in DOMAIN responders \cup {r} |-> IF x = r THEN WantedClass(s) ELSE responders[x]]
      /\ net' = net \cup {new}
      /\ UNCHANGED <<router, inbound, answer, answers>>
  BY DEF Request
<1>2. s # None /\ r \notin DOMAIN responders /\ answers[r] = 0 /\ answer[r] = None
  BY <1>1, GatewayAssumption DEF Waiting
<1>3. StateType' /\ shape'[r] = s /\ \A q \in Requests \ {r} : shape'[q] = shape[q]
  BY <1>1 DEF StateType
<1>4. Waiting'
  BY <1>1, <1>2, <1>3 DEF Waiting
<1>5. NetSound'
  <2>1. Travels(new)'
    <3>1. Fit(Copy(EventOf(s))) /\ Copy(EventOf(s)) = EventOf(s) /\ EventOf(s).error = Refusal(s)
      BY EventOfFits, CopyFits
    <3>2. QED
      BY <1>3, <3>1 DEF Travels
  <2>2. ASSUME NEW m \in net PROVE Travels(m)'
    <3>1. Travels(m) /\ m.id # r
      BY <1>1, GatewayAssumption DEF NetSound, Travels
    <3>2. QED
      BY <1>3, <3>1 DEF Travels
  <2>3. QED
    BY <1>1, <2>1, <2>2 DEF NetSound
<1>6. AnswerFits'
  BY <1>1, <1>2, <1>3 DEF AnswerFits
<1>7. Pending'
  <2>1. Hears' = Hears /\ Reporting' = Reporting
    BY <1>1, WiringKept
  <2>2. new.id = r /\ Coming(new)'
    BY DEF Coming
  <2> HIDE DEF new
  <2> SUFFICES ASSUME NEW q \in DOMAIN responders, shape'[q] \in Hears
               PROVE  \E m \in net : m.id = q /\ Coming(m)'
    BY <1>1, <2>1, <2>2 DEF Pending
  <2>3. q # r /\ shape'[q] = shape[q]
    BY <1>2, <1>3 DEF StateType
  <2>4. PICK m \in net : m.id = q /\ Coming(m)
    BY <2>3 DEF Pending
  <2>5. Coming(m)'
    BY <2>1, <2>3, <2>4 DEF Coming
  <2>6. QED
    BY <2>4, <2>5
<1>8. RouterStarted'
  BY <1>1 DEF RouterStarted, Boxes
<1>9. QED
  BY <1>3, <1>4, <1>5, <1>6, <1>7, <1>8

-----------------------------------------------------------------------------
(* An event is sent on, once, several times or not at all; one that comes  *)
(* for a request the server is sure to hear of does not end there.         *)
Others == UNCHANGED <<router, inbound, cached, shape, responders, answer, answers>>

SentTo(m, to) ==
  /\ \A x \in to : x.id = m.id /\ Travels(x)
  /\ shape[m.id] \in Hears /\ Coming(m) => \E x \in to : Coming(x)
  /\ net' = (net \ {m}) \cup to

SentOn(m) == \E to : SentTo(m, to)

(* The copy that is sent of a sound event is sound.                        *)
LEMMA SentTravels ==
  ASSUME NEW m, Travels(m), Refusal(shape[m.id]) = "none", NEW e, Fit(e), NEW n, NEW at,
         at = "server" \/ e = EventOf(shape[m.id])
  PROVE  /\ Sent(m, e, n, at).id = m.id /\ Sent(m, e, n, at).at = at
         /\ Travels(Sent(m, e, n, at))
<1>1. Fit(Copy(e)) /\ Copy(e) = e
  BY CopyFits
<1>2. QED
  BY <1>1 DEF Sent, Travels

(* What an actor or a router has for the server comes back to it, if       *)
(* anything leads there.                                                   *)
LEMMA ReturnSends ==
  ASSUME NEW m \in net, Travels(m), Refusal(shape[m.id]) = "none",
         NEW events, \A e \in events : Fit(e), Return(m, events),
         shape[m.id] \in Hears /\ Coming(m) => inbound /\ events # {}
  PROVE  SentOn(m)
<1> DEFINE to == IF inbound THEN {Sent(m, e, m.n, "server") : e \in events} ELSE {}
<1>1. ASSUME NEW e \in events
      PROVE  /\ Sent(m, e, m.n, "server").id = m.id /\ Travels(Sent(m, e, m.n, "server"))
             /\ Coming(Sent(m, e, m.n, "server"))
  BY SentTravels DEF Coming
<1>2. \A x \in to : x.id = m.id /\ Travels(x) /\ Coming(x)
  BY <1>1
<1>3. inbound /\ events # {} => to # {}
  OBVIOUS
<1>4. net' = (net \ {m}) \cup to
  BY DEF Return, Move
<1> HIDE DEF to
<1>5. QED
  BY <1>2, <1>3, <1>4 DEF SentTo, SentOn

(* An event that an actor or router raises with is sound with its error.   *)
LEMMA RaisedFits ==
  ASSUME NEW at, NEW e, Fit(e), NEW x \in Errors, x # "none", NEW y \in Raised(at, e, x)
  PROVE  Fit(y)
BY ErrorFits DEF Raised

(* What comes of an event that an actor takes is sound.                    *)
LEMMA OutcomeFits ==
  ASSUME NEW b \in ToSet(Backends), NEW e, Fit(e), e.error = "none", NEW how \in Does[b],
         NEW x \in Outcome(b, e, how)
  PROVE  Fit(x)
<1>1. Input[b] \in Class /\ how \in Quiet \cup (Errors \ {"none"})
  BY GatewayAssumption
<1>2. Invalid \in Errors /\ Invalid # "none"
  BY DEF Errors, Invalid
<1>3. CASE ~Takes(b, e)
  BY <1>2, <1>3, RaisedFits DEF Outcome
<1>4. CASE Takes(b, e)
  <2> DEFINE t == Taken(b, e)
  <2>1. Fit(t) /\ t.error = "none"
    BY <1>1, <1>4, ConvertFits DEF Taken, Takes
  <2>2. x \in Result(b, t, how)
    BY <1>4 DEF Outcome
  <2> HIDE DEF t
  <2>3. CASE how = "reply"
    BY <2>1, <2>2, <2>3 DEF Result
  <2>4. CASE how = "created"
    <3>1. x = [t EXCEPT !.status = 201]
      BY <2>2, <2>4 DEF Result
    <3>2. t = [class |-> t.class, data |-> t.data, error |-> t.error, status |-> t.status]
          /\ t.class \in Class /\ t.class.http /\ t.data \in Forms /\ t.error \in Errors
      BY <2>1, EventIsRecord
    <3>3. x = [class |-> t.class, data |-> t.data, error |-> t.error, status |-> 201]
      BY <3>1, <3>2
    <3>4. QED
      BY <2>1, <3>2, <3>3 DEF Fit, Event, Sound
  <2>5. CASE how \in {"swallow", "refuse"}
    BY <2>2, <2>5 DEF Result
  <2>6. CASE how \notin Quiet
    <3>1. x \in Raised(b, t, how)
      BY <2>2, <2>6 DEF Result, Quiet
    <3>2. QED
      BY <1>1, <2>1, <2>6, <3>1, RaisedFits
  <2>7. QED
    BY <2>3, <2>4, <2>5, <2>6 DEF Quiet
<1>5. QED
  BY <1>3, <1>4

(* What a router does with an event.                                       *)
LEMMA RouteSends == ASSUME IInv, NEW m \in net, Route(m) PROVE SentOn(m)
<1> DEFINE s == shape[m.id]
           D == Deliveries(router, Attrs(s))
           copies == {Sent(m, m.e, w.place, w.outbox) : w \in D}
<1>1. Travels(m) /\ Refusal(s) = "none" /\ Fit(m.e) /\ m.e = EventOf(s) /\ s \in Shapes
  BY DEF Route, IInv, NetSound, Travels
<1>2. CASE Refuses(router, Attrs(s))
  <2> DEFINE events == Raised("router", m.e, "EventCommandNotAllowed")
  <2>1. Return(m, events)
    BY <1>2 DEF Route
  <2>2. \A e \in events : Fit(e)
    BY <1>1, RaisedFits DEF Errors
  <2>3. s \in Hears => inbound /\ events # {}
    BY <1>1, <1>2 DEF Hears, Heard, Raised
  <2> HIDE DEF events
  <2>4. QED
    BY <1>1, <2>1, <2>2, <2>3, ReturnSends
<1>3. CASE ~Refuses(router, Attrs(s))
  <2>1. net' = (net \ {m}) \cup copies
    BY <1>3 DEF Route, Move
  <2>2. ASSUME NEW w \in D
        PROVE  /\ Sent(m, m.e, w.place, w.outbox).id = m.id /\ Travels(Sent(m, m.e, w.place, w.outbox))
               /\ Sent(m, m.e, w.place, w.outbox).at = w.outbox
    BY <1>1, SentTravels
  <2>3. ASSUME s \in Hears PROVE \E x \in copies : Coming(x)
    <3>1. PICK w \in D : Reports(w.outbox, s)
      BY <1>1, <1>3, <2>3 DEF Hears, Heard
    <3>2. w.outbox \in ToSet(Backends)
      BY DeliveriesGo DEF IInv, Ways
    <3>3. Coming(Sent(m, m.e, w.place, w.outbox))
      BY <1>1, <2>2, <3>1, <3>2 DEF Coming, Reporting
    <3>4. QED
      BY <3>3
  <2>4. \A x \in copies : x.id = m.id /\ Travels(x)
    BY <2>2
  <2> HIDE DEF copies
  <2>5. QED
    BY <2>1, <2>3, <2>4 DEF SentTo, SentOn
<1>4. QED
  BY <1>2, <1>3

(* An actor that reports has something for the server.                     *)
LEMMA ReportsOutcome ==
  ASSUME NEW b \in ToSet(Backends), NEW s, Reports(b, s), NEW how \in Does[b]
  PROVE  inbound /\ Outcome(b, EventOf(s), how) # {}
<1> DEFINE e == EventOf(s)
<1>1. how \in Quiet \cup (Errors \ {"none"})
  BY GatewayAssumption
<1>2. CASE ~Takes(b, e)
  BY <1>2 DEF Reports, Outcome, Raised
<1>3. CASE Takes(b, e)
  <2>1. Outcome(b, e, how) = Result(b, Taken(b, e), how) /\ how \notin {"swallow", "refuse"} /\ inbound
    BY <1>3 DEF Outcome, Reports
  <2>2. CASE how \in {"reply", "created"}
    BY <2>1, <2>2 DEF Result
  <2>3. CASE how \notin Quiet
    <3>1. b \in ErrorsBack
      BY <1>1, <2>3 DEF Reports
    <3>2. Outcome(b, e, how) = Raised(b, Taken(b, e), how)
      BY <2>1, <2>3 DEF Result, Quiet
    <3>3. QED
      BY <2>1, <3>1, <3>2 DEF Raised
  <2>4. QED
    BY <2>1, <2>2, <2>3 DEF Quiet
<1>4. QED
  BY <1>2, <1>3

(* What an actor behind the router does with an event.                     *)
LEMMA WorkSends == ASSUME IInv, NEW m \in net, NEW how, Work(m, how) PROVE SentOn(m)
<1>1. /\ m.at \in ToSet(Backends) /\ m.at \notin {"router", "server"} /\ how \in Does[m.at]
      /\ Return(m, Outcome(m.at, m.e, how))
  BY GatewayAssumption DEF Work
<1>2. /\ Travels(m) /\ Refusal(shape[m.id]) = "none" /\ Fit(m.e)
      /\ shape[m.id] \in Shapes /\ m.e = EventOf(shape[m.id])
  BY <1>1 DEF IInv, NetSound, Travels
<1>3. m.e.error = "none"
  BY <1>2, EventOfFits
<1>4. \A e \in Outcome(m.at, m.e, how) : Fit(e)
  BY <1>1, <1>2, <1>3, OutcomeFits
<1>5. Coming(m) => inbound /\ Outcome(m.at, m.e, how) # {}
  <2> SUFFICES ASSUME Coming(m) PROVE inbound /\ Outcome(m.at, m.e, how) # {}
    OBVIOUS
  <2>1. Reports(m.at, shape[m.id])
    BY <1>1 DEF Coming, Reporting
  <2>2. QED
    BY <1>1, <1>2, <2>1, ReportsOutcome
<1>6. QED
  BY <1>1, <1>2, <1>4, <1>5, ReturnSends

(* What a send disturbs is what is on the queues.                          *)
LEMMA SentOnKeeps == ASSUME IInv, NEW m \in net, SentOn(m), Others PROVE IInv'
<1> USE DEF IInv, Others
<1>1. PICK to : SentTo(m, to)
  BY DEF SentOn
<1>2. StateType' /\ Waiting' /\ AnswerFits' /\ RouterStarted'
  BY DEF StateType, Waiting, AnswerFits, RouterStarted, Boxes
<1>3. NetSound'
  BY <1>1 DEF SentTo, NetSound, Travels
<1>4. Pending'
  <2>1. Hears' = Hears /\ Reporting' = Reporting
    BY WiringKept
  <2> SUFFICES ASSUME NEW r \in DOMAIN responders, shape[r] \in Hears
               PROVE  \E x \in net' : x.id = r /\ Coming(x)'
    BY <2>1 DEF Pending
  <2>2. PICK x \in net : x.id = r /\ Coming(x)
    BY DEF Pending
  <2>3. CASE x # m
    BY <1>1, <2>1, <2>2, <2>3 DEF SentTo, Coming
  <2>4. CASE x = m
    BY <1>1, <2>1, <2>2, <2>4 DEF SentTo, Coming
  <2>5. QED
    BY <2>3, <2>4
<1>5. QED
  BY <1>2, <1>3, <1>4

-----------------------------------------------------------------------------
(* An event leaves the net at the server, for a request that has no        *)
(* responder, or none any longer.                                          *)
LEMMA LeavesKeeps ==
  ASSUME IInv, NEW m \in net, net' = net \ {m},
         DOMAIN responders' = DOMAIN responders \ {m.id},
         UNCHANGED <<router, inbound, shape>>
  PROVE  NetSound' /\ Pending' /\ RouterStarted'
<1>1. NetSound' /\ RouterStarted'
  BY DEF IInv, NetSound, Travels, RouterStarted, Boxes
<1>2. Hears' = Hears /\ Reporting' = Reporting
  BY WiringKept
<1>3. Pending'
  BY <1>2 DEF IInv, Pending, Coming
<1>4. QED
  BY <1>1, <1>3

(* When the answer cannot be given, nothing else changes.                  *)
LEMMA StrandKeeps == ASSUME IInv, NEW m \in net, Strand(m) PROVE IInv'
<1> USE DEF IInv
<1>1. /\ net' = net \ {m} /\ DOMAIN responders' = DOMAIN responders \ {m.id}
      /\ UNCHANGED <<router, inbound, shape, answer, answers>>
  BY DEF Strand, Move, Restrict
<1>2. StateType' /\ Waiting' /\ AnswerFits'
  BY <1>1 DEF StateType, Waiting, AnswerFits
<1>3. QED
  BY <1>1, <1>2, LeavesKeeps

(* An event of an id without a responder changes no answer.                *)
LEMMA UnknownKeeps == ASSUME IInv, NEW m \in net, Unknown(m) PROVE IInv'
<1> USE DEF IInv
<1>1. /\ net' = net \ {m} /\ DOMAIN responders' = DOMAIN responders \ {m.id}
      /\ UNCHANGED <<router, inbound, shape, responders, answer, answers>>
  BY DEF Unknown, Move
<1>2. StateType' /\ Waiting' /\ AnswerFits'
  BY <1>1 DEF StateType, Waiting, AnswerFits
<1>3. QED
  BY <1>1, <1>2, LeavesKeeps

(* Every refusal has a status of the client's fault.                       *)
LEMMA RefusalCode ==
  ASSUME NEW s, Refusal(s) # "none" PROVE HttpCode[Refusal(s)] \in 400 .. 499
<1>1. Refusal(s) \in {"ResourceNotFound", "MalformedEventData", "InvalidEventDataModification"}
  BY DEF Refusal, Invalid
<1>2. /\ HttpCode["ResourceNotFound"] = 404 /\ HttpCode["MalformedEventData"] = 400
      /\ HttpCode["InvalidEventDataModification"] = 400
  BY DEF HttpCode, Errors
<1>3. QED
  BY <1>1, <1>2

(* The event in the accepted class is sound and keeps its error.           *)
LEMMA AcceptedFits ==
  ASSUME NEW e, Fit(e), NEW s, CanAnswer(e, s)
  PROVE  /\ Fit(Accepted(e, s)) /\ Accepted(e, s).error = e.error
         /\ Sub(Accepted(e, s).class, ClassOf(s.accept))
<1>1. ClassOf(s.accept) \in Class
  BY DEF ClassOf, Html, Json, Plain, Class
<1>2. QED
  BY <1>1, ConvertFits DEF Accepted, CanAnswer

(* The body is in the format of the class.                                 *)
LEMMA BodyFits ==
  ASSUME NEW e, Fit(e), e.class.format \in {"xml", "json"} PROVE Body(e) = e.class.format
<1>1. CASE e.class.format = "xml"
  <2>1. e.data = "tree"
    BY <1>1 DEF Fit, Sound
  <2>2. CASE e.error = "none"
    BY <1>1, <2>1, <2>2 DEF Body, Texts
  <2>3. CASE e.error # "none"
    BY <1>1, <2>1, <2>3 DEF Body
  <2>4. QED
    BY <2>2, <2>3
<1>2. CASE e.class.format = "json"
  BY <1>2 DEF Body, Fit, Sound
<1>3. QED
  BY <1>1, <1>2

(* The answer fits the event it is made of; its responder is gone.         *)
LEMMA RespondKeeps == ASSUME IInv, NEW m \in net, Respond(m) PROVE IInv'
<1> USE DEF IInv
<1> DEFINE s == shape[m.id]
           e == Accepted(m.e, s)
           a == AnswerOf(e)
<1>1. /\ Travels(m) /\ m.id \in Requests /\ m.id \in DOMAIN responders /\ CanAnswer(m.e, s)
      /\ answers[m.id] = 0 /\ s # None
  BY GatewayAssumption DEF NetSound, Travels, Respond, Waiting
<1>2. /\ answer' = [answer EXCEPT ![m.id] = a]
      /\ answers' = [answers EXCEPT ![m.id] = @ + 1]
      /\ net' = net \ {m}
      /\ DOMAIN responders' = DOMAIN responders \ {m.id}
      /\ UNCHANGED <<router, inbound, cached, shape>>
  BY DEF Respond, Answered, Move, Restrict
<1>3. /\ Sub(a.class, ClassOf(s.accept))
      /\ a.class.format \in {"xml", "json"} => a.body = a.class.format
      /\ a.status = HttpCode[a.error] \/ (a.error = "none" /\ a.status = 201)
      /\ Refusal(s) # "none" => a.status \in 400 .. 499
  <2>1. Fit(e) /\ e.error = m.e.error /\ Sub(e.class, ClassOf(s.accept))
    BY <1>1, AcceptedFits DEF Travels
  <2>2. e.class.format \in {"xml", "json"} => Body(e) = e.class.format
    BY <2>1, BodyFits
  <2>3. Refusal(s) # "none" => m.e.error # "none" /\ HttpCode[m.e.error] \in 400 .. 499
    BY <1>1, RefusalCode DEF Travels
  <2>4. e.status = HttpCode[e.error] \/ (e.error = "none" /\ e.status = 201)
    BY <2>1 DEF Fit
  <2> HIDE DEF e
  <2>5. a.class = e.class /\ a.status = e.status /\ a.error = e.error /\ a.body = Body(e)
    BY DEF AnswerOf
  <2>6. QED
    BY <2>1, <2>2, <2>3, <2>4, <2>5
<1> HIDE DEF a
<1>4. StateType'
  BY <1>1, <1>2 DEF StateType
<1>5. answers'[m.id] = 1 /\ answer'[m.id] = a
      /\ \A r \in Requests \ {m.id} : answers'[r] = answers[r] /\ answer'[r] = answer[r]
  BY <1>1, <1>2 DEF StateType
<1>6. Waiting'
  BY <1>1, <1>2, <1>5 DEF Waiting
<1>7. AnswerFits'
  BY <1>2, <1>3, <1>5 DEF AnswerFits
<1>8. QED
  BY <1>2, <1>4, <1>6, <1>7, LeavesKeeps

(* Every step keeps the invariant.                                         *)
LEMMA StepIInv == ASSUME IInv, [Next]_vars PROVE IInv'
<1>1. CASE UNCHANGED vars
  <2>1. Hears' = Hears /\ Reporting' = Reporting
    BY <1>1, WiringKept DEF vars
  <2>2. RouterStarted' /\ StateType' /\ Waiting' /\ AnswerFits'
    <3>1. RouterStarted'
      BY <1>1 DEF vars, IInv, RouterStarted, Boxes
    <3>2. StateType' /\ Waiting'
      BY <1>1 DEF vars, IInv, StateType, Waiting
    <3>3. AnswerFits'
      BY <1>1 DEF vars, IInv, AnswerFits
    <3>4. QED
      BY <3>1, <3>2, <3>3
  <2>3. NetSound' /\ Pending'
    BY <1>1, <2>1 DEF vars, IInv, NetSound, Travels, Pending, Coming
  <2>4. QED
    BY <2>2, <2>3 DEF IInv
<1>2. ASSUME NEW r \in Requests, Callback(r) PROVE IInv'
  BY <1>2, BareKeeps, RequestKeeps DEF Callback
<1>3. ASSUME NEW m \in net, Route(m) PROVE IInv'
  BY <1>3, RouteSends, SentOnKeeps DEF Route, Others
<1>4. ASSUME NEW m \in net, NEW how, Work(m, how) PROVE IInv'
  BY <1>4, WorkSends, SentOnKeeps DEF Work, Others
<1>5. ASSUME NEW m \in net, Unknown(m) PROVE IInv'
  BY <1>5, UnknownKeeps
<1>6. ASSUME NEW m \in net, Respond(m) PROVE IInv'
  BY <1>6, RespondKeeps
<1>7. ASSUME NEW m \in net, Strand(m) PROVE IInv'
  BY <1>7, StrandKeeps
<1>8. QED
  BY <1>1, <1>2, <1>3, <1>4, <1>5, <1>6, <1>7 DEF Next, Consume

(* The invariant holds in every state.                                     *)
LEMMA Invariance == Spec => []IInv
<1>1. QED
  BY InitIInv, StepIInv, PTL DEF Spec

(* A client gets one answer, however many copies of the event a router     *)
(* made and whatever comes back of them.                                   *)
THEOREM OneAnswer == Spec => []AnsweredOnce
<1>1. IInv => AnsweredOnce
  BY DEF IInv, Waiting, AnsweredOnce
<1>2. QED
  BY <1>1, Invariance, PTL

(* The answer is in the class the client accepts, with a body in its       *)
(* format, and has the status of the error that the event came back with,  *)
(* or without one that of success or creation.                             *)
THEOREM AnswersFit == Spec => []AnswerFits
<1>1. IInv => AnswerFits
  BY DEF IInv
<1>2. QED
  BY <1>1, Invariance, PTL

(* Where router and actors make sure that the server hears of a request    *)
(* (one event of it goes to an actor that sends on or raises with its      *)
(* errors connected, whatever becomes of the others), a responder never    *)
(* waits without an event of it on its way.                                *)
THEOREM NobodyWaitsInVain == Spec => []PendingInFlight
<1>1. IInv => PendingInFlight
  <2> SUFFICES ASSUME IInv, NEW r \in DOMAIN responders, Heard(shape[r]) PROVE \E m \in net : m.id = r
    BY DEF PendingInFlight
  <2>1. shape[r] \in Shapes
    BY DEF IInv, StateType, Waiting
  <2>2. QED
    BY <2>1 DEF IInv, Pending, Hears
<1>2. QED
  BY <1>1, Invariance, PTL

-----------------------------------------------------------------------------
(* The refinement of ResponseTable: every step keeps the table as it says, *)
(* or leaves it alone.                                                     *)
Tabled == Table!Next \/ UNCHANGED <<shape, responders, answer, answers>>

(* An answer is the first of its client, and no other client gets one.     *)
LEMMA AnsweredGets ==
  ASSUME IInv, NEW r \in Requests, answers[r] = 0, NEW a, Answered(r, a) PROVE Table!Gets(r)
<1>1. answer = [q \in Requests |-> answer[q]] /\ answers \in [Requests -> Nat]
  BY DEF IInv, StateType
<1>2. answer' = [answer EXCEPT ![r] = a] /\ answers' = [answers EXCEPT ![r] = 1]
  BY <1>1 DEF Answered
<1>3. answer'[r] = a
  BY <1>1, <1>2
<1>4. QED
  BY <1>2, <1>3 DEF Table!Gets

(* callback refuses a request that has not been made, or lets it wait.     *)
LEMMA CallbackTabled ==
  ASSUME IInv, NEW r \in Requests, Callback(r) PROVE Tabled
<1> DEFINE made == {q \in Requests : shape[q] # None}
<1>1. PICK s \in Shapes : Unsupported(r, s) \/ RefuseBare(r, s) \/ Request(r, s)
  BY DEF Callback
<1>2. shape[r] = None /\ shape' = [shape EXCEPT ![r] = s] /\ s # None
  BY <1>1, GatewayAssumption DEF Unsupported, RefuseBare, Request
<1>3. answers[r] = 0 /\ r \notin DOMAIN responders
  BY <1>2 DEF IInv, Waiting
<1>4. r \notin made /\ made' = made \cup {r}
  BY <1>2 DEF IInv, StateType
<1>5. Table!Make(r)
  BY <1>4 DEF Table!Make
<1>6. CASE Unsupported(r, s) \/ RefuseBare(r, s)
  <2>1. responders' = responders /\ \E k : Answered(r, Bare(k))
    BY <1>6 DEF Unsupported, RefuseBare
  <2>2. Table!Gets(r)
    BY <1>3, <2>1, AnsweredGets
  <2>3. Table!Refuse(r)
    BY <1>5, <2>1, <2>2 DEF Table!Refuse
  <2>4. QED
    BY <2>3 DEF Tabled, Table!Next
<1>7. CASE Request(r, s)
  <2>1. DOMAIN responders' = DOMAIN responders \cup {r} /\ UNCHANGED <<answer, answers>>
    BY <1>7 DEF Request
  <2>2. Table!Wait(r)
    BY <1>5, <2>1 DEF Table!Wait
  <2>3. QED
    BY <2>2 DEF Tabled, Table!Next
<1>8. QED
  BY <1>1, <1>6, <1>7

(* consume takes a request that waits out of the table, and answers it or  *)
(* gives it up.                                                            *)
LEMMA ConsumeTabled ==
  ASSUME IInv, NEW m \in net, Respond(m) \/ Strand(m) PROVE Tabled
<1>1. m.id \in Requests /\ m.id \in DOMAIN responders /\ answers[m.id] = 0
  BY DEF Respond, Strand, IInv, NetSound, Travels, Waiting
<1>2. DOMAIN responders' = DOMAIN responders \ {m.id} /\ shape' = shape
  BY DEF Respond, Strand, Restrict
<1>3. Table!Leave(m.id)
  BY <1>1, <1>2 DEF Table!Leave
<1>4. CASE Respond(m)
  <2>1. \E a : Answered(m.id, a)
    BY <1>4 DEF Respond
  <2>2. Table!Gets(m.id)
    BY <1>1, <2>1, AnsweredGets
  <2>3. QED
    BY <1>1, <1>3, <2>2 DEF Tabled, Table!Next, Table!Answer
<1>5. CASE Strand(m)
  <2>1. UNCHANGED <<answer, answers>>
    BY <1>5 DEF Strand
  <2>2. QED
    BY <1>1, <1>3, <2>1 DEF Tabled, Table!Next, Table!GiveUp
<1>6. QED
  BY <1>4, <1>5

(* What happens between the two does not touch the table.                  *)
LEMMA StepTabled == ASSUME IInv, [Next]_vars PROVE Tabled
<1>1. CASE UNCHANGED vars
  BY <1>1 DEF vars, Tabled
<1>2. ASSUME NEW r \in Requests, Callback(r) PROVE Tabled
  BY <1>2, CallbackTabled
<1>3. ASSUME NEW m \in net, NEW how, Route(m) \/ Work(m, how) \/ Unknown(m) PROVE Tabled
  BY <1>3 DEF Route, Work, Unknown, Tabled
<1>4. ASSUME NEW m \in net, Respond(m) \/ Strand(m) PROVE Tabled
  BY <1>4, ConsumeTabled
<1>5. QED
  BY <1>1, <1>2, <1>3, <1>4 DEF Next, Consume

(* The server implements the table: each request is made once, refused at  *)
(* once or waiting until it is answered or given up; no copy of an event,  *)
(* early or late, gives a client a second answer or replaces its first.    *)
THEOREM GatewayKeepsTable == Spec => ImplementsTable
<1>1. Init => Table!Init
  BY DEF Init, Table!Init
<1>2. IInv /\ [Next]_vars => [Table!Next]_(Table!table)
  BY StepTabled DEF Tabled, Table!table
<1>3. QED
  BY <1>1, <1>2, Invariance, PTL DEF Spec, ImplementsTable, Table!Spec

-----------------------------------------------------------------------------
(* What is on the queues is of the right type, with the rest of the state. *)
Typing ==
  /\ inbound \in BOOLEAN /\ cached \in BOOLEAN
  /\ DOMAIN responders \subseteq Requests /\ Range(responders) \subseteq Class
  /\ net \subseteq Message

(* A copy that is sent of a sound event to a queue there is,               *)
LEMMA SentMessage ==
  ASSUME NEW m \in Message, NEW e, Fit(e), NEW n \in Nat \X Nat, NEW at \in Places
  PROVE  Sent(m, e, n, at) \in Message
<1>1. Copy(e) \in Event
  BY CopyFits DEF Fit
<1>2. QED
  BY <1>1 DEF Sent, Message, Places

(* and so is what comes back to the server.                                *)
LEMMA ReturnMessages ==
  ASSUME net \subseteq Message, NEW m \in net, NEW events, \A e \in events : Fit(e), Return(m, events)
  PROVE  net' \subseteq Message
<1>1. m \in Message /\ m.n \in Nat \X Nat /\ "server" \in Places
  BY DEF Message, Places
<1>2. \A e \in events : Sent(m, e, m.n, "server") \in Message
  BY <1>1, SentMessage
<1>3. QED
  BY <1>2 DEF Return, Move

(* What a router sends.                                                    *)
LEMMA RouteMessages == ASSUME IInv, Typing, NEW m \in net, Route(m) PROVE net' \subseteq Message
<1> DEFINE D == Deliveries(router, Attrs(shape[m.id]))
           copies == {Sent(m, m.e, w.place, w.outbox) : w \in D}
           events == Raised("router", m.e, "EventCommandNotAllowed")
<1>1. net \subseteq Message /\ Fit(m.e)
  BY DEF Typing, IInv, NetSound, Travels
<1>2. \A e \in events : Fit(e)
  BY <1>1, RaisedFits DEF Errors
<1>3. copies \subseteq Message
  <2>1. Ways(D)
    BY DeliveriesGo DEF IInv
  <2> HIDE DEF D
  <2>2. ASSUME NEW w \in D PROVE Sent(m, m.e, w.place, w.outbox) \in Message
    <3>1. w.place \in Nat \X Nat /\ w.outbox \in Places
      BY <2>1 DEF Ways, Places
    <3>2. QED
      BY <1>1, <3>1, SentMessage
  <2>3. QED
    BY <2>2
<1>4. Return(m, events) \/ Move(m, copies)
  BY DEF Route
<1> HIDE DEF copies, events
<1>5. QED
  BY <1>1, <1>2, <1>3, <1>4, ReturnMessages DEF Move

(* What an actor behind it sends.                                          *)
LEMMA WorkMessages == ASSUME IInv, Typing, NEW m \in net, NEW how, Work(m, how) PROVE net' \subseteq Message
<1>1. /\ m.at \in ToSet(Backends) /\ m.at # "server" /\ how \in Does[m.at]
      /\ Return(m, Outcome(m.at, m.e, how))
  BY GatewayAssumption DEF Work
<1>2. Fit(m.e) /\ m.e.error = "none"
  BY <1>1, EventOfFits DEF IInv, NetSound, Travels
<1>3. \A e \in Outcome(m.at, m.e, how) : Fit(e)
  BY <1>1, <1>2, OutcomeFits
<1>4. QED
  BY <1>1, <1>3, ReturnMessages DEF Typing

(* The class that a responder has.                                         *)
LEMMA RequestTyped ==
  ASSUME Typing, NEW r \in Requests, NEW s \in Shapes, Request(r, s) PROVE Typing'
<1> DEFINE new == [id |-> r, e |-> Copy(EventOf(s)), n |-> <<0, 0>>,
                   at |-> IF Refusal(s) = "none" THEN "router" ELSE "server"]
<1>1. /\ responders' = [x \in DOMAIN responders \cup {r} |-> IF x = r THEN WantedClass(s) ELSE responders[x]]
      /\ net' = net \cup {new} /\ cached' = TRUE
      /\ UNCHANGED <<router, inbound>>
  BY DEF Request
<1>2. new \in Message
  <2>1. Copy(EventOf(s)) \in Event
    BY EventOfFits, CopyFits DEF Fit
  <2>2. QED
    BY <2>1 DEF Message
<1>3. WantedClass(s) \in Class
  BY DEF WantedClass, ClassOf, ClassOfKey, Json, Html, Plain, Class
<1>4. DOMAIN responders' \subseteq Requests /\ Range(responders') \subseteq Class
  <2> DEFINE c == WantedClass(s)
  <2>1. /\ DOMAIN responders' = DOMAIN responders \cup {r}
        /\ \A x \in DOMAIN responders \cup {r} : responders'[x] = IF x = r THEN c ELSE responders[x]
    BY <1>1
  <2> HIDE DEF c
  <2>2. c \in Class
    BY <1>3 DEF c
  <2>3. QED
    BY <2>1, <2>2 DEF Typing, Range
<1> HIDE DEF new
<1>5. QED
  BY <1>1, <1>2, <1>4 DEF Typing

(* Every step keeps the types.                                             *)
LEMMA StepTyping == ASSUME IInv, Typing, [Next]_vars PROVE Typing'
<1>1. CASE UNCHANGED vars
  BY <1>1 DEF vars, Typing
<1>2. ASSUME NEW r \in Requests, NEW s \in Shapes, Unsupported(r, s) \/ RefuseBare(r, s) PROVE Typing'
  <2>1. UNCHANGED <<router, inbound, responders, net>> /\ cached' \in {cached, TRUE}
    BY <1>2 DEF Unsupported, RefuseBare
  <2>2. QED
    BY <2>1 DEF Typing
<1>3. ASSUME NEW r \in Requests, Callback(r) PROVE Typing'
  BY <1>2, <1>3, RequestTyped DEF Callback
<1>4. ASSUME NEW m \in net, net' \subseteq Message, UNCHANGED <<router, inbound, cached, responders>>
      PROVE  Typing'
  BY <1>4 DEF Typing
<1>5. ASSUME NEW m \in net, Route(m) PROVE Typing'
  BY <1>4, <1>5, RouteMessages DEF Route
<1>6. ASSUME NEW m \in net, NEW how, Work(m, how) PROVE Typing'
  BY <1>4, <1>6, WorkMessages DEF Work
<1>7. ASSUME NEW m \in net, Unknown(m) \/ Respond(m) \/ Strand(m) PROVE Typing'
  <2>1. /\ net' = net \ {m} /\ UNCHANGED <<router, inbound, cached>>
        /\ responders' = responders \/ responders' = Restrict(responders, DOMAIN responders \ {m.id})
    BY <1>7 DEF Unknown, Respond, Strand, Move
  <2>2. DOMAIN responders' \subseteq Requests /\ Range(responders') \subseteq Class
    BY <2>1 DEF Typing, Range, Restrict
  <2>3. QED
    BY <2>1, <2>2 DEF Typing
<1>8. QED
  BY <1>1, <1>3, <1>5, <1>6, <1>7 DEF Next, Consume

(* The types hold in every state: what is on the queues is an event of a   *)
(* request that was made, with data in the format of its class, on a queue *)
(* that the configured router or the server has.                           *)
THEOREM GatewayTypeCorrect == Spec => []TypeOK
<1>1. Init => Typing
  BY DEF Init, Typing, Range
<1>2. IInv /\ Typing /\ [Next]_vars => Typing'
  BY StepTyping
<1>3. IInv /\ Typing => TypeOK
  BY GatewayAssumption DEF IInv, StateType, NetSound, Travels, Fit, Typing, TypeOK
<1>4. QED
  BY <1>1, <1>2, <1>3, Invariance, PTL DEF Spec
=============================================================================
