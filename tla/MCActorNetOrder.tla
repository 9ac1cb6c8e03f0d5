-------------------------- MODULE MCActorNetOrder --------------------------
(***************************************************************************)
(* The networks of MCActorNet with the history of what queues accept.      *)
(***************************************************************************)
EXTENDS MCActorNet, ActorNetOrder
=============================================================================
