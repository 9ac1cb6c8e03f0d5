--------------------------- MODULE MCHttpGateway ----------------------------
(***************************************************************************)
(* A gateway with three services, one of which has a name within another's.*)
(***************************************************************************)
EXTENDS HttpGateway

Services == {"user", "users", "default"}

SomeBackends == <<"user", "users", "default", "POST">>

SomeFound == {<<"user", "user">>, <<"user", "users">>, <<"users", "users">>,
              <<"gold", "gold">>, <<"POST", "POST">>} \cup ({".*"} \X ToSet(SomeBackends))

GetShape(queue, accept) ==
  [queue |-> queue, method |-> "GET", ctype |-> "", key |-> None, form |-> "none",
   nodes |-> <<>>, accept |-> accept]

PostShape(queue, ctype, form, accept) ==
  [GetShape(queue, accept) EXCEPT !.method = "POST", !.ctype = ctype, !.form = form]

SomeShapes ==
  {GetShape("user", "application/json"), GetShape("gone", "text/html"),
   PostShape("users", "text/plain", "text", "application/json"),
   PostShape("default", "application/json", "jsontext", "text/xml"),
   PostShape("default", "application/json", "text", "*/*"),
   PostShape("default", "application/json", "scalartext", "application/xml"),
   PostShape("user", "image/png", "jsontext", "*/*"),
   PostShape("user", FormType, "none", "text/plain"),
   [PostShape("users", FormType, "xmltext", "*/*") EXCEPT !.key = "XML"],
   [PostShape("default", "application/xml", "xmltext", "application/json")
      EXCEPT !.nodes = "/client" :> {"gold"} @@ "/rule" :> {"gold"}]}

(* The routers: by service, by method, and by what the data holds.         *)
Gold(outs) == NewFilter({"gold"}, "data", "/client", outs, NoFilter)

SomeRouters ==
  {SimpleRouter(Backends, "default", "service"),
   MethodRouter(Backends, {"GET", "POST"}),
   Router(<<SetNextFilter(Gold(<<"user">>), NewFilter({"users"}, "service", NoPath, <<>>, NoFilter))>>,
          <<>>, <<".*">>, FALSE),
   Router(<<XpathsFilter("data", "/client", "/rule", <<"users", "default">>),
            NewFilter({"gold"}, "data", "/client", <<"user">>, Gold(<<>>))>>, <<>>, <<>>, TRUE)}

SomeInput == [b \in ToSet(SomeBackends) |-> IF b = "users" THEN [format |-> "xml", http |-> FALSE] ELSE Plain]

(* One that may raise, one that may send nothing, one that sets the        *)
(* status, and one that may refuse.                                        *)
SomeDoes ==
  [b \in ToSet(SomeBackends) |->
     CASE b = "user"    -> {"reply", "EventAttributeError", "other"}
       [] b = "users"   -> {"reply", "swallow"}
       [] b = "default" -> {"created"}
       [] b = "POST"    -> {"reply", "refuse"}]
=============================================================================
