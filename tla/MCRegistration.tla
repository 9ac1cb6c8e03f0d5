--------------------------- MODULE MCRegistration ---------------------------
(***************************************************************************)
(* A small instance of Registration.                                       *)
(***************************************************************************)
EXTENDS Registration

SomeRank == [b \in Brokers |-> IF b = "b1" THEN 1 ELSE 2]
=============================================================================
