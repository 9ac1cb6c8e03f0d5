----------------------------- MODULE MCActorNet -----------------------------
(***************************************************************************)
(* Small networks of actors for TLC.                                       *)
(***************************************************************************)
EXTENDS ActorNet, TLC

(* Service: a front (an HTTP server, say) sends requests to a worker and   *)
(* reads the worker's results and errors.                                  *)
ServiceActors == {"front", "worker"}
ServiceQueues == {"work", "result", "errors"}
SameName(Q) == [p \in Q |-> p]      \* one port for each queue, of its name
ServiceLeads == SameName(ServiceQueues)
ServiceReader == [q \in ServiceQueues |-> IF q = "work" THEN "worker" ELSE "front"]
ServiceOut == [x \in ServiceActors |-> IF x = "front" THEN <<"work">> ELSE <<"result">>]
ServiceErr == [x \in ServiceActors |-> IF x = "worker" THEN <<"errors">> ELSE <<>>]
AtFront == [e \in Event |-> "front"]

(* The worker may do anything with a request.                              *)
ServiceBehaviour ==
  [x \in ServiceActors |-> IF x = "worker" THEN {"send", "reject", "raise"} ELSE {"swallow"}]

(* Nothing tells the events apart but their names.                         *)
EventSymmetry == Permutations(Event)

(* Loop: the front sends an event to a once and to b twice; a always       *)
(* raises, and its errors go to b on two ports; b sends on to a and to a   *)
(* queue the front reads. With one slot a queue, a and b could each sleep  *)
(* in a put on the other's full queue, were both to block; b does.         *)
LoopActors == {"front", "a", "b"}
LoopQueues == {"a", "b", "side"}
LoopReader == [q \in LoopQueues |-> IF q = "side" THEN "front" ELSE q]
LoopPorts == {"a1", "b1", "b2", "err1", "err2", "back", "side"}
LoopLeads ==
  [p \in LoopPorts |-> CASE p \in {"a1", "back"} -> "a"
                         [] p = "side"           -> "side"
                         [] OTHER                -> "b"]
LoopOut ==
  [x \in LoopActors |-> CASE x = "front" -> <<"a1", "b1", "b2">>
                          [] x = "a"     -> <<>>
                          [] x = "b"     -> <<"back", "side">>]
LoopErr == [x \in LoopActors |-> IF x = "a" THEN <<"err1", "err2">> ELSE <<>>]
LoopBehaviour ==
  [x \in LoopActors |-> CASE x = "front" -> {"swallow"}
                          [] x = "a"     -> {"raise"}
                          [] x = "b"     -> {"send"}]
=============================================================================
