--------------------------- MODULE ResponseTable ----------------------------
(***************************************************************************)
(* What an HTTP server promises the clients that make requests: a request  *)
(* is refused at once, or waits in the table of responders; the one that   *)
(* waits is answered or given up, but never both, and an answer stands.    *)
(***************************************************************************)
EXTENDS Integers

CONSTANTS Requests, None     \* None: no answer

VARIABLES made,       \* the requests that have been made
          waiting,    \* those that wait for their answer
          answer,     \* what each client has got
          answers     \* how often it has

table == <<made, waiting, answer, answers>>

Init ==
  /\ made = {} /\ waiting = {}
  /\ answer = [r \in Requests |-> None] /\ answers = [r \in Requests |-> 0]

(* The client of r gets an answer, its first; no other does.               *)
Gets(r) ==
  /\ answers[r] = 0
  /\ answers' = [answers EXCEPT ![r] = 1]
  /\ answer' = [answer EXCEPT ![r] = answer'[r]]

Make(r) == r \notin made /\ made' = made \cup {r}

Refuse(r) == Make(r) /\ Gets(r) /\ UNCHANGED waiting

Wait(r) == Make(r) /\ waiting' = waiting \cup {r} /\ UNCHANGED <<answer, answers>>

Leave(r) == r \in waiting /\ waiting' = waiting \ {r} /\ UNCHANGED made

Answer(r) == Leave(r) /\ Gets(r)

(* The answer could not be made: the client is left without one.           *)
GiveUp(r) == Leave(r) /\ UNCHANGED <<answer, answers>>

Next == \E r \in Requests : Refuse(r) \/ Wait(r) \/ Answer(r) \/ GiveUp(r)

Spec == Init /\ [][Next]_table
=============================================================================
