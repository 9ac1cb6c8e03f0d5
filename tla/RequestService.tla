--------------------------- MODULE RequestService ---------------------------
(***************************************************************************)
(* What brokers and workers together promise a client for each request: it *)
(* is taken once, given to the actors of a worker at most once, and then   *)
(* answered, or lost on its way; what is answered or lost remains so.      *)
(***************************************************************************)
EXTENDS Integers

CONSTANT Requests

VARIABLES fate,      \* new, open, lost or answered
          runs       \* how often each was given to the actors of a worker

service == <<fate, runs>>

Init == fate = [r \in Requests |-> "new"] /\ runs = [r \in Requests |-> 0]

Take(r) == fate[r] = "new" /\ fate' = [fate EXCEPT ![r] = "open"] /\ UNCHANGED runs

Run(r) == fate[r] = "open" /\ runs[r] = 0 /\ runs' = [runs EXCEPT ![r] = 1] /\ UNCHANGED fate

Answer(r) == fate[r] = "open" /\ runs[r] = 1 /\ fate' = [fate EXCEPT ![r] = "answered"] /\ UNCHANGED runs

(* One failure may lose several requests, but only open ones.              *)
Lose(S) ==
  /\ \A r \in S : fate[r] = "open"
  /\ fate' = [r \in Requests |-> IF r \in S THEN "lost" ELSE fate[r]]
  /\ UNCHANGED runs

Next ==
  \/ \E r \in Requests : Take(r) \/ Run(r) \/ Answer(r)
  \/ \E S \in SUBSET Requests : Lose(S)

Spec == Init /\ [][Next]_service
=============================================================================
