--------------------------- MODULE BrokerManager ----------------------------
(***************************************************************************)
(* The BrokerManager of an MDP client or worker as operators on a record:  *)
(*   unverified   the connectors that wait for a verification response,    *)
(*                with their verification and reconnect attempts;          *)
(*   verified     the brokers that have answered;                          *)
(*   pointer      the round-robin position, -1 for None;                   *)
(*   wait         how many calls of send_verification_requests, which are  *)
(*                one second apart, the verification manager lets pass     *)
(*                before it sends again.                                   *)
(***************************************************************************)
EXTENDS Integers, FiniteSets, Functions

CONSTANTS
  Attempts,     \* verification attempts before a reconnect (3)
  Reconnects,   \* reconnects before a disconnect (3)
  WaitCalls,    \* calls between two verification messages (2.5 seconds: 2)
  Rank          \* the place of each identity in the keys of a dictionary

ASSUME ManagerAssumption ==
  Attempts \in Nat \ {0} /\ Reconnects \in Nat \ {0} /\ WaitCalls \in Nat

(* __init__; a HeartbeatManager lets its interval pass before it sends.    *)
NewManager ==
  [unverified |-> [b \in {} |-> 0], verified |-> {}, pointer |-> -1, wait |-> WaitCalls]

Connected(m) == DOMAIN m.unverified \cup m.verified

(* BrokerConnector.__init__ reconnects once.                               *)
NewConnector == [tries |-> 0, reconnects |-> 1]

(* process_update: a heartbeat for a broker that is not connected.         *)
Connect(m, b) ==
  IF b \in Connected(m) THEN m
  ELSE [m EXCEPT !.unverified = [x \in DOMAIN @ \cup {b} |-> IF x = b THEN NewConnector ELSE @[x]]]

(* verify_broker; a response from a broker that does not wait for one is   *)
(* ignored.  (A faulty form: the connector stays among the unverified.)    *)
VerifyKeeping(m, b) ==
  IF b \notin DOMAIN m.unverified THEN m ELSE [m EXCEPT !.verified = @ \cup {b}]

Verify(m, b) ==
  IF b \notin DOMAIN m.unverified THEN m
  ELSE [m EXCEPT !.unverified = Restrict(@, DOMAIN @ \ {b}), !.verified = @ \cup {b}]

Disconnect(m, b) ==
  [m EXCEPT !.unverified = Restrict(@, DOMAIN @ \ {b}), !.verified = @ \ {b}]

(* send_verification_requests: a connector without attempts left is        *)
(* reconnected, or disconnected when it has no reconnects left either; the *)
(* others count an attempt and are asked, the latter only when the         *)
(* interval of the verification manager is over.                           *)
Spent(m) == {b \in DOMAIN m.unverified : m.unverified[b].tries >= Attempts}

Hopeless(m) == {b \in Spent(m) : m.unverified[b].reconnects >= Reconnects}

Asked(m) == IF m.wait = 0 THEN DOMAIN m.unverified \ Spent(m) ELSE {}

Attempt(c) ==
  IF c.tries >= Attempts THEN [tries |-> 0, reconnects |-> c.reconnects + 1]
  ELSE [c EXCEPT !.tries = @ + 1]

(* (A faulty form: the interval begins anew with every call.)              *)
AfterRequestsRefreshing(m) ==
  [m EXCEPT !.unverified = [b \in Connected(m) \ (Hopeless(m) \cup m.verified) |-> Attempt(m.unverified[b])],
            !.wait = WaitCalls]

AfterRequests(m) ==
  [m EXCEPT !.unverified = [b \in Connected(m) \ (Hopeless(m) \cup m.verified) |-> Attempt(m.unverified[b])],
            !.wait = IF @ > 0 THEN @ - 1 ELSE IF Asked(m) # {} THEN WaitCalls ELSE 0]

(* get_next_broker_in_queue: the index is made anew from the keys, the     *)
(* pointer moves on from where it was.                                     *)
NextIndex(m) == IF m.pointer + 1 >= Cardinality(m.verified) THEN 0 ELSE m.pointer + 1

NextBroker(m) ==
  CHOOSE b \in m.verified :
    Cardinality({c \in m.verified : Rank[c] < Rank[b]}) = NextIndex(m)

Advance(m) == [m EXCEPT !.pointer = NextIndex(m)]

ManagerType(Brokers) ==
  [unverified : UNION {[S -> [tries : 0 .. Attempts, reconnects : 1 .. Reconnects]] : S \in SUBSET Brokers},
   verified : SUBSET Brokers, pointer : -1 .. Cardinality(Brokers) - 1, wait : 0 .. WaitCalls]
=============================================================================
