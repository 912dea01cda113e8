------------------------------ MODULE OnceOnly ------------------------------
(***************************************************************************)
(* What createOrder promises a client that sends one order several times   *)
(* under one Idempotency-Key: the key stands for at most one order, for    *)
(* ever, and every request that is answered with an order is answered with *)
(* that one.                                                               *)
(***************************************************************************)
CONSTANTS Requests, Keys, keyOf, None

VARIABLES orderOf,  \* key -> the order it stands for, or None
          told      \* request -> the order it was answered with, or None

Init ==
  /\ orderOf = [k \in Keys |-> None]
  /\ told = [r \in Requests |-> None]

\* Order ids are the requests that made them.
Place(r) ==
  /\ orderOf[keyOf[r]] = None
  /\ orderOf' = [orderOf EXCEPT ![keyOf[r]] = r]
  /\ UNCHANGED told

Tell(r) ==
  /\ told[r] = None
  /\ orderOf[keyOf[r]] # None
  /\ told' = [told EXCEPT ![r] = orderOf[keyOf[r]]]
  /\ UNCHANGED orderOf

Next == \E r \in Requests : Place(r) \/ Tell(r)

Spec == Init /\ [][Next]_<<orderOf, told>>
=============================================================================
