---------------------------- MODULE EventChannel ----------------------------
(***************************************************************************)
(* What a queue between actors promises: a channel that holds at most      *)
(* Limit events, delivers them in the order it accepted them, each exactly *)
(* once, and goes on delivering once its receiver has been started.        *)
(***************************************************************************)
EXTENDS Integers, Sequences

CONSTANTS Message, Limit     \* Limit = 0: no limit

VARIABLES pending,           \* accepted and not yet delivered
          delivered,         \* delivered so far
          open               \* the receiver has been started

chan == <<pending, delivered, open>>

Init == pending = <<>> /\ delivered = <<>> /\ open = FALSE

Open == ~open /\ open' = TRUE /\ UNCHANGED <<pending, delivered>>

Accept(m) ==
  /\ Limit = 0 \/ Len(pending) < Limit
  /\ pending' = Append(pending, m)
  /\ UNCHANGED <<delivered, open>>

Deliver ==
  /\ open
  /\ pending # <<>>
  /\ delivered' = Append(delivered, Head(pending))
  /\ pending' = Tail(pending)
  /\ UNCHANGED open

Next == Open \/ Deliver \/ \E m \in Message : Accept(m)

SafeSpec == Init /\ [][Next]_chan

Spec == SafeSpec /\ WF_chan(Deliver)
=============================================================================
