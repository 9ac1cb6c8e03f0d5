---------------------------- MODULE MCMajordomo -----------------------------
(***************************************************************************)
(* Small instances of Majordomo.                                           *)
(***************************************************************************)
EXTENDS Majordomo

SomeRank == [b \in Brokers |-> IF b = "b1" THEN 1 ELSE 2]

OneClient == [r \in Requests |-> "c"]
=============================================================================
