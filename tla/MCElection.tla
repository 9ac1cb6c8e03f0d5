----------------------------- MODULE MCElection -----------------------------
(***************************************************************************)
(* A small instance of Election.                                           *)
(***************************************************************************)
EXTENDS Election

Two == 1 .. 2
=============================================================================
