---------------------------- MODULE MCEventJoin -----------------------------
(***************************************************************************)
(* Small instances of EventJoin.                                           *)
(***************************************************************************)
EXTENDS EventJoin

(* One inbox may see two events of an id.                                  *)
SomeTwice == [i \in Inboxes |-> IF i = "x" THEN 2 ELSE 1]
=============================================================================
