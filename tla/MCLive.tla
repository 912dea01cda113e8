------------------------------- MODULE MCLive -------------------------------
(***************************************************************************)
(* What must end: the saga of an order, the outage of a service behind the *)
(* gateway, and the wait of a page for the end of its order.  The three    *)
(* share no state; `focus` names the one a behaviour moves, the others     *)
(* keep their initial state.                                               *)
(***************************************************************************)
EXTENDS MCOrderSaga, Gateway, OrderPage

VARIABLES focus,
          broughtBack   \* history: orders that a whole-row save put back to PENDING

liveVars == <<focus, broughtBack, vars, gatewayVars, pageVars>>

LiveInit ==
  /\ focus \in {"saga", "gateway", "page"} /\ broughtBack = {}
  /\ Init /\ GatewayInit
  /\ PageInit /\ role # "ADMIN" /\ (focus # "page" => role = "BUYER")

\* The orders that stop being PENDING and, later, are PENDING again.
Returned == {o \in Orders : orders[o] # NoDoc /\ ~Pending(o) /\ Pending(o)'}

LiveNext ==
  /\ UNCHANGED focus
  /\ \/ focus = "saga" /\ Next /\ broughtBack' = broughtBack \cup Returned
     \/ focus # "saga" /\ UNCHANGED <<vars, broughtBack>>
  /\ \/ focus = "gateway" /\ GatewayNext
     \/ focus # "gateway" /\ UNCHANGED gatewayVars
  /\ \/ focus = "page" /\ PageNext
     \/ focus # "page" /\ UNCHANGED pageVars

\* Whoever uses the application goes on asking.
PagesAsk == focus = "gateway" /\ AnyRequest

PageFairness ==
  /\ WF_pageVars(focus = "page" /\ Poll)
  /\ WF_pageVars(focus = "page" /\ SomeRead)
  /\ SF_pageVars(focus = "page" /\ SomeShown)
  /\ WF_pageVars(focus = "page" /\ SomeEnd)

LiveSpec ==
  /\ LiveInit /\ [][LiveNext]_liveVars
  /\ Fairness /\ GatewayFairness /\ WF_gatewayVars(PagesAsk) /\ PageFairness

\* While no event is lost and no process dies, an order that was placed does not
\* stay PENDING: the saga reserves its product or cancels it, also when an admin
\* or the seller takes the product away under it.  The exception is a lost update
\* of the row itself: a request that loaded it PENDING (to start a payment, to
\* answer a meeting proposal) and saves it whole after the saga or a party moved
\* it on puts PENDING back, and no event is left that would answer it again.
AnsweredUnlessLost ==
  \A o \in Orders : Pending(o) ~> ~Pending(o) \/ faults > 0 \/ o \in broughtBack
=============================================================================
