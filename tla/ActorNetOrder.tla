--------------------------- MODULE ActorNetOrder ----------------------------
(***************************************************************************)
(* ActorNet with a history variable: the events each queue has accepted,   *)
(* in order.  Nothing reads it but the property.                           *)
(***************************************************************************)
EXTENDS ActorNet

VARIABLE accepted

OrderInit == Init /\ accepted = [q \in Queue |-> <<>>]

(* A step puts at most one event on a queue: it is the new last one.       *)
Noted(h, r, s) ==
  IF Len(s.items) > Len(r.items) THEN Append(h, s.items[Len(s.items)]) ELSE h

OrderNext ==
  /\ Next
  /\ accepted' = [q \in Queue |-> Noted(accepted[q], queue[q], queue'[q])]

OrderSpec == OrderInit /\ [][OrderNext]_<<vars, accepted>>

OrderFairSpec == OrderSpec /\ Fairness

(* c was made of p by one send.                                            *)
Child(c, p) == c.id = p.id /\ \E l \in Leg : c.via = Append(p.via, l)

(* A rescue puts an event back behind later ones, and after a stop what is *)
(* left on a queue is worked on all at once.                               *)
Orderly(q) == Reader[q] \in Blocking /\ Reader[q] \notin Rescue \cup Stoppable

(* The reason blocking_consume exists: work on an event in the order that  *)
(* it was received.  What a blocking actor sends on arrives on each of its *)
(* outbound queues in the order its inbound queue accepted the originals,  *)
(* however often the consumer sleeps in a put on the way.  (Where a reader *)
(* rescues, a queue accepts the same event again.)                         *)
WorkInOrder ==
  \A q \in Queue, o \in Queue :
    Orderly(q) /\ Reader[o] \notin Rescue =>
      \A i, j \in DOMAIN accepted[q], k, l \in DOMAIN accepted[o] :
        /\ Child(accepted[o][k], accepted[q][i])
        /\ Child(accepted[o][l], accepted[q][j])
        /\ i < j
        => k < l
=============================================================================
