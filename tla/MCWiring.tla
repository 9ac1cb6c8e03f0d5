------------------------------ MODULE MCWiring ------------------------------
(***************************************************************************)
(* Small instances of Wiring: two actors and the connections a program may *)
(* ask for before it starts the Director.                                  *)
(***************************************************************************)
EXTENDS Wiring

Call(scope, a, n, b, m, check) ==
  [scope |-> scope, source |-> a, sourceQueue |-> n,
   destination |-> b, destQueue |-> m, check |-> check]

(* Connections as the README makes them, by name, many to one with         *)
(* check_existing=False, errors to an actor, and logs to other places than *)
(* the log actor's inbox under the name the Director uses.                 *)
UsualCalls ==
  { Call("outbound", "a", NoName, "b", NoName, TRUE),
    Call("outbound", "b", NoName, "a", NoName, TRUE),
    Call("outbound", "a", "out", "b", "in", TRUE),
    Call("outbound", "b", "out", "b", "in", FALSE),
    Call("outbound", "a", "out", "a", "in", FALSE),
    Call("error", "a", NoName, "b", NoName, TRUE),
    Call("logs", "a", NoName, LogActor, NoName, TRUE),
    Call("logs", "a", "logs", LogActor, NoName, TRUE),
    Call("logs", "b", "x", LogActor, "inbox", TRUE),
    Call("logs", "b", NoName, "a", NoName, TRUE) }

(* The default log connection made by hand.                                *)
ExplicitCalls == { Call("logs", "a", "logs", LogActor, "inbox", TRUE) }

(* The calls of either instance meet what the order of entries takes.      *)
ASSUME CallsInOrder == LogsByHand
=============================================================================
