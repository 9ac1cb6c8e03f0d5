---------------------------- MODULE HttpGateway -----------------------------
(***************************************************************************)
(* An HTTPServer, the router behind it, and the actors behind the router,  *)
(* which send their results (and, where connected, their errors) back to   *)
(* the server.                                                             *)
(*                                                                         *)
(* callback makes an event of a request, remembers a response queue under  *)
(* the event's id and sends the event; consume takes an event that comes   *)
(* back and answers the request its id stands for.  Between the two the    *)
(* event is copied by every send, and may be converted, duplicated,        *)
(* refused or discarded.                                                   *)
(***************************************************************************)
EXTENDS EventKinds, EventFilters, TLC

CONSTANTS
  Requests,     \* the requests clients make
  Shapes,       \* what a request may look like
  Outbound,     \* the server's outbound queues, all of them read by the router
  Routers,      \* the configurations the router may have
  Backends,     \* the router's outbound queues, in order, one actor behind each
  Input,        \* the class an actor takes
  Does,         \* what an actor may do: one of Quiet, or the error it raises
  ErrorsBack,   \* the actors (and the router) whose error queue the server reads
  None          \* no answer, or no responder

Html == [format |-> "xml", http |-> TRUE]
Json == [format |-> "json", http |-> TRUE]
Plain == [format |-> "any", http |-> TRUE]

(* Without raising an actor may send the event on, with the status it has  *)
(* or, like a RESTTranslator, as "201 Created"; send nothing; or refuse    *)
(* it, by InvalidActorInput or InvalidEventConversion.                     *)
Quiet == {"reply", "created", "swallow", "refuse"}

FormType == "application/x-www-form-urlencoded"

ASSUME GatewayAssumption ==
  /\ None \notin Shapes
  /\ \A s \in Shapes : s.form \in Texts \cup {"none"}
  /\ {"router", "server"} \cap ToSet(Backends) = {}
  /\ \A b \in ToSet(Backends) :
       Input[b] \in Class /\ Does[b] \subseteq Quiet \cup (Errors \ {"none"})

(* Filters name their outboxes in a list, and what a subclass sets as a    *)
(* default outbox is a queue of its pool.                                  *)
ASSUME RouterAssumption ==
  /\ DOMAIN Backends \subseteq Nat
  /\ \A r \in Routers :
       /\ {"filters", "defaults"} \subseteq DOMAIN r
       /\ DOMAIN r.filters \subseteq Nat /\ DOMAIN r.patterns \subseteq Nat
       /\ DOMAIN r.defaults \subseteq Nat /\ ToSet(r.defaults) \subseteq ToSet(Backends)
       /\ \A i \in DOMAIN r.filters : DOMAIN r.filters[i].outs \subseteq Nat

VARIABLES
  router,      \* the router as configured and started
  inbound,     \* whether anything is connected to the server's inbound side
  cached,      \* the route's callback has been made, with its plugins applied
  shape,       \* what each request looks like, None before it is made
  responders,  \* the class of the event of each id that awaits its answer
  net,         \* the events on the queues
  answer,      \* what each client has got
  answers      \* history: how often it has

vars == <<router, inbound, cached, shape, responders, net, answer, answers>>

-----------------------------------------------------------------------------
(* CONTENT_TYPE_MAP, X_WWW_FORM_URLENCODED_KEY_MAP, and the classes that   *)
(* the plugin lets pass.                                                   *)
ClassOf(type) ==
  CASE type \in {"*/*", "text/plain"} -> Plain
    [] type \in {"text/html", "text/xml", "application/xml", "application/xml+schema"} -> Html
    [] OTHER -> Json

ClassOfKey(key) == CASE key = "XML" -> Html [] key = "JSON" -> Json [] OTHER -> Plain

ValidTypes == {"text/xml", "application/xml", "text/plain", "text/html",
               "application/json", FormType}

(* callback, the event: its class and data, or the error it is refused     *)
(* with; a refused event has no data.                                      *)
WantedClass(s) ==
  IF s.queue \notin Outbound \/ (s.ctype = FormType /\ s.key = None) THEN Json
  ELSE IF s.ctype = FormType THEN ClassOfKey(s.key)
  ELSE ClassOf(s.ctype)

Refusal(s) ==
  CASE s.queue \notin Outbound -> "ResourceNotFound"
    [] s.queue \in Outbound /\ s.ctype = FormType /\ s.key = None -> "MalformedEventData"
    [] OTHER -> IF Stored(WantedClass(s).format, s.form) = Invalid THEN Invalid ELSE "none"

EventOf(s) ==
  IF Refusal(s) = "none" THEN NewEvent(WantedClass(s), s.form)
  ELSE WithError(NewEvent(WantedClass(s), "none"), Refusal(s))

(* What filters may look at.                                               *)
Attrs(s) ==
  "service" :> [text |-> s.queue, nodes |-> <<>>] @@
  "method"  :> [text |-> s.method, nodes |-> <<>>] @@
  "data"    :> [text |-> s.form, nodes |-> s.nodes]

-----------------------------------------------------------------------------
Init ==
  /\ router \in {WithDefaults(r, Backends) : r \in {x \in Routers : CanStart(x, Backends)}}
  /\ inbound \in BOOLEAN
  /\ cached = FALSE
  /\ shape = [r \in Requests |-> None]
  /\ responders = [r \in {} |-> None]
  /\ net = {}
  /\ answer = [r \in Requests |-> None]
  /\ answers = [r \in Requests |-> 0]

(* An answer that bottle gives without an event.                           *)
Bare(status) == [class |-> None, status |-> status, error |-> "other", body |-> "html"]

Answered(r, a) ==
  /\ answer' = [answer EXCEPT ![r] = a]
  /\ answers' = [answers EXCEPT ![r] = @ + 1]

(* ContentTypePlugin.apply runs when bottle makes the route's callback, on *)
(* the first request and on none after one has passed.                     *)
Passes(s) == cached \/ s.form = "none" \/ s.ctype \in ValidTypes

Unsupported(r, s) ==
  /\ shape[r] = None /\ ~Passes(s)
  /\ shape' = [shape EXCEPT ![r] = s]
  /\ Answered(r, Bare(415))
  /\ UNCHANGED <<router, inbound, cached, responders, net>>

(* A refused event goes to the server's own first inbound queue; without   *)
(* one, looking for it raises.                                             *)
RefuseBare(r, s) ==
  /\ shape[r] = None /\ Passes(s) /\ Refusal(s) # "none" /\ ~inbound
  /\ shape' = [shape EXCEPT ![r] = s]
  /\ cached' = TRUE
  /\ Answered(r, Bare(500))
  /\ UNCHANGED <<router, inbound, responders, net>>

(* (A faulty form: a refused event is not sent anywhere.)                  *)
RequestUnsent(r, s) ==
  /\ shape[r] = None /\ Passes(s) /\ (Refusal(s) = "none" \/ inbound)
  /\ shape' = [shape EXCEPT ![r] = s]
  /\ cached' = TRUE
  /\ responders' = [x \in DOMAIN responders \cup {r} |-> IF x = r THEN WantedClass(s) ELSE responders[x]]
  /\ net' = IF Refusal(s) # "none" THEN net
            ELSE net \cup {[id |-> r, e |-> Copy(EventOf(s)), n |-> <<0, 0>>, at |-> "router"]}
  /\ UNCHANGED <<router, inbound, answer, answers>>

(* HTTPServer.callback                                                     *)
Request(r, s) ==
  /\ shape[r] = None /\ Passes(s) /\ (Refusal(s) = "none" \/ inbound)
  /\ shape' = [shape EXCEPT ![r] = s]
  /\ cached' = TRUE
  /\ responders' = [x \in DOMAIN responders \cup {r} |-> IF x = r THEN WantedClass(s) ELSE responders[x]]
  /\ net' = net \cup {[id |-> r, e |-> Copy(EventOf(s)), n |-> <<0, 0>>,
                       at |-> IF Refusal(s) = "none" THEN "router" ELSE "server"]}
  /\ UNCHANGED <<router, inbound, answer, answers>>

-----------------------------------------------------------------------------
Move(m, to) == net' = (net \ {m}) \cup to

(* The copy of an event that a queue gets.                                 *)
Sent(m, e, n, at) == [id |-> m.id, e |-> Copy(e), n |-> n, at |-> at]

(* The events that come back to the server, if anything leads there.       *)
Return(m, events) ==
  Move(m, IF inbound THEN {Sent(m, e, m.n, "server") : e \in events} ELSE {})

(* An actor that raises sends the event, with the error, to its error      *)
(* queues.                                                                 *)
Raised(at, e, error) == IF at \in ErrorsBack THEN {WithError(e, error)} ELSE {}

(* EventRouter.consume and process_no_match                                *)
Route(m) ==
  /\ m \in net /\ m.at = "router"
  /\ LET copies == {Sent(m, m.e, w.place, w.outbox) : w \in Deliveries(router, Attrs(shape[m.id]))}
     IN  IF Refuses(router, Attrs(shape[m.id]))
           THEN Return(m, Raised("router", m.e, "EventCommandNotAllowed"))
           ELSE Move(m, copies)
  /\ UNCHANGED <<router, inbound, cached, shape, responders, answer, answers>>

(* An actor behind the router converts the event to its input class; a     *)
(* conversion that fails raises. (The class is never narrowed: it is only  *)
(* converted when it is no subclass of the input.)                         *)
Takes(b, e) == Sub(e.class, Input[b]) \/ Converts(e, Input[b])

Taken(b, e) == IF Sub(e.class, Input[b]) THEN e ELSE Convert(e, Input[b])

(* What comes of an event that actor b takes: it is sent on, or goes to    *)
(* the error queues, or the actor sends nothing, or refuses the event and  *)
(* leaves it at an entry in its log.                                       *)
Result(b, e, how) ==
  CASE how = "reply"               -> {e}
    [] how = "created"             -> {[e EXCEPT !.status = 201]}
    [] how \in {"swallow", "refuse"} -> {}
    [] OTHER                       -> Raised(b, e, how)

Outcome(b, e, how) ==
  IF Takes(b, e) THEN Result(b, Taken(b, e), how) ELSE Raised(b, e, Invalid)

(* __do_consume *)
Work(m, how) ==
  /\ m \in net /\ m.at \in ToSet(Backends) /\ how \in Does[m.at]
  /\ Return(m, Outcome(m.at, m.e, how))
  /\ UNCHANGED <<router, inbound, cached, shape, responders, answer, answers>>

-----------------------------------------------------------------------------
(* format_response_data: the errors, or the data under a "data" key if it  *)
(* is a dict, a list or a string.                                          *)
Body(e) ==
  CASE e.error # "none" /\ e.class.format = "json" -> "json"
    [] e.error # "none" /\ e.class.format = "xml"  -> "xml"
    [] e.error = "none" /\ e.data = "tree"         -> "xml"
    [] e.error = "none" /\ e.data \in {"json", "emptyjson", "scalar"} \cup Texts -> "json"
    [] OTHER -> "text"

(* The event in the class the client of a request accepts.                 *)
Accepted(e, s) == IF Sub(e.class, ClassOf(s.accept)) THEN e ELSE Convert(e, ClassOf(s.accept))

CanAnswer(e, s) ==
  /\ Sub(e.class, ClassOf(s.accept)) \/ Converts(e, ClassOf(s.accept))
  /\ CanReport(Accepted(e, s))

AnswerOf(e) == [class |-> e.class, status |-> e.status, error |-> e.error, body |-> Body(e)]

(* consume of an id that no responder is known for raises.                 *)
Unknown(m) ==
  /\ m \in net /\ m.at = "server" /\ m.id \notin DOMAIN responders
  /\ Move(m, {})
  /\ UNCHANGED <<router, inbound, cached, shape, responders, answer, answers>>

(* (Faulty forms: a responder that is kept, and an answer in the class the *)
(* event happens to have.)                                                 *)
RespondKeeping(m) ==
  /\ m \in net /\ m.at = "server" /\ m.id \in DOMAIN responders /\ CanAnswer(m.e, shape[m.id])
  /\ Answered(m.id, AnswerOf(Accepted(m.e, shape[m.id])))
  /\ Move(m, {})
  /\ UNCHANGED <<router, inbound, cached, shape, responders>>

RespondAsIs(m) ==
  /\ m \in net /\ m.at = "server" /\ m.id \in DOMAIN responders /\ CanAnswer(m.e, shape[m.id])
  /\ responders' = Restrict(responders, DOMAIN responders \ {m.id})
  /\ Answered(m.id, AnswerOf(m.e))
  /\ Move(m, {})
  /\ UNCHANGED <<router, inbound, cached, shape>>

(* consume takes the responder out and answers ...                         *)
Respond(m) ==
  /\ m \in net /\ m.at = "server" /\ m.id \in DOMAIN responders /\ CanAnswer(m.e, shape[m.id])
  /\ responders' = Restrict(responders, DOMAIN responders \ {m.id})
  /\ Answered(m.id, AnswerOf(Accepted(m.e, shape[m.id])))
  /\ Move(m, {})
  /\ UNCHANGED <<router, inbound, cached, shape>>

(* (A faulty form: a responder that stays when the answer fails.)          *)
StrandKeeping(m) ==
  /\ m \in net /\ m.at = "server" /\ m.id \in DOMAIN responders /\ ~CanAnswer(m.e, shape[m.id])
  /\ Move(m, {})
  /\ UNCHANGED <<router, inbound, cached, shape, responders, answer, answers>>

(* ... and, when converting or formatting raises, has taken it out.        *)
Strand(m) ==
  /\ m \in net /\ m.at = "server" /\ m.id \in DOMAIN responders /\ ~CanAnswer(m.e, shape[m.id])
  /\ responders' = Restrict(responders, DOMAIN responders \ {m.id})
  /\ Move(m, {})
  /\ UNCHANGED <<router, inbound, cached, shape, answer, answers>>

-----------------------------------------------------------------------------
Callback(r) == \E s \in Shapes : Unsupported(r, s) \/ RefuseBare(r, s) \/ Request(r, s)

Consume == \E m \in net : \/ Route(m) \/ Unknown(m) \/ Respond(m) \/ Strand(m)
                          \/ m.at \in ToSet(Backends) /\ \E how \in Does[m.at] : Work(m, how)

Next == (\E r \in Requests : Callback(r)) \/ Consume

(* Clients need not make requests; what is on a queue is consumed.         *)
Spec == Init /\ [][Next]_vars /\ WF_vars(Consume)

-----------------------------------------------------------------------------
Message == [id : Requests, e : Event, n : Nat \X Nat, at : {"router", "server"} \cup ToSet(Backends)]

(* The data of every event on its way is what its class keeps: copies and  *)
(* conversions never leave the data of another format.                     *)
TypeOK ==
  /\ inbound \in BOOLEAN /\ cached \in BOOLEAN
  /\ shape \in [Requests -> Shapes \cup {None}]
  /\ DOMAIN responders \subseteq Requests /\ Range(responders) \subseteq Class
  /\ net \subseteq Message
  /\ \A m \in net : shape[m.id] # None /\ Sound(m.e) /\ m.e.class.http
  /\ answers \in [Requests -> Nat]

(* A client gets one answer, although routers may duplicate an event and   *)
(* every copy comes back.                                                  *)
AnsweredOnce == \A r \in Requests : answers[r] <= 1

(* The server keeps the table of requests that ResponseTable promises:     *)
(* whatever copies of an event come back, and in whatever order, only the  *)
(* first of them, while the request waits, is answered or given up; no     *)
(* client waits again, and no answer is replaced.                          *)
Table == INSTANCE ResponseTable WITH made    <- {r \in Requests : shape[r] # None},
                                     waiting <- DOMAIN responders

ImplementsTable == Table!Spec

(* The answer is of a class the client accepts, with a body in that        *)
(* class's format, and tells of the error of the event: the status that    *)
(* goes with it has come through every copy and conversion. (Only without  *)
(* an error has an actor's own status a say, 201 here; actors that set     *)
(* another one, or set one for an error, are left out.)                    *)
AnswerFits ==
  \A r \in Requests : answer[r] # None /\ answer[r].class # None =>
    LET a == answer[r]
    IN  /\ Sub(a.class, ClassOf(shape[r].accept))
        /\ a.class.format \in {"xml", "json"} => a.body = a.class.format
        /\ a.status = HttpCode[a.error] \/ (a.error = "none" /\ a.status = 201)
        /\ Refusal(shape[r]) # "none" => a.status \in 400 .. 499

(* Whether actor b, whatever it does, lets the server hear of the event of *)
(* a request of shape s: it never refuses an event or sends nothing, and   *)
(* if it may raise its errors are connected.                               *)
Reports(b, s) ==
  /\ inbound
  /\ Takes(b, EventOf(s)) => Does[b] \cap {"swallow", "refuse"} = {}
  /\ ~Takes(b, EventOf(s)) \/ Does[b] \cap Errors # {} => b \in ErrorsBack

(* Whether the server is sure to hear of a request: it refuses it itself,  *)
(* or the router does and its errors are connected, or the router sends it *)
(* to an actor that reports; one is enough.                                *)
Heard(s) ==
  \/ Refusal(s) # "none"
  \/ /\ Refuses(router, Attrs(s))
     /\ inbound /\ "router" \in ErrorsBack
  \/ /\ ~Refuses(router, Attrs(s))
     /\ \E w \in Deliveries(router, Attrs(s)) : Reports(w.outbox, s)

(* A responder is never left without an event that will come for it, where *)
(* router and actors make sure that the server hears of the request:       *)
(* copies that others discard, and answers that cannot be given, do not    *)
(* leave a client waiting.                                                 *)
PendingInFlight ==
  \A r \in DOMAIN responders : Heard(shape[r]) => \E m \in net : m.id = r

(* What may come back to the server for a request of shape s.              *)
Returning(s) ==
  IF Refusal(s) # "none" THEN {EventOf(s)}
  ELSE IF Refuses(router, Attrs(s)) THEN {WithError(EventOf(s), "EventCommandNotAllowed")}
  ELSE UNION {UNION {Outcome(w.outbox, EventOf(s), how) : how \in Does[w.outbox]} :
              w \in Deliveries(router, Attrs(s))}

(* A request is answered if the server is sure to hear of it and whatever  *)
(* may come back for it has a form in which its client accepts it.         *)
EveryRequestSettles ==
  \A r \in Requests :
    /\ shape[r] # None /\ Heard(shape[r])
    /\ \A e \in Returning(shape[r]) : CanAnswer(e, shape[r])
    ~> answer[r] # None
=============================================================================
