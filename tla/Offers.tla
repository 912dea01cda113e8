------------------------------- MODULE Offers -------------------------------
(***************************************************************************)
(* offer.controller.js: price and trade offers for one product, whose      *)
(* seller answers them.  Every handler reads, checks and later saves what  *)
(* it changed, without a version check; the updates of many offers are     *)
(* single statements.  Amounts and messages are left out.                  *)
(***************************************************************************)
EXTENDS Integers, Sequences, FiniteSets

CONSTANTS Buyers,
          OfferWorkers,  \* requests handled at a time
          MaxOffers,     \* bound: offers made
          NoRequest           \* no request

ASSUME NoRequestIsNone == NoRequest \notin [op : STRING, buyer : Buyers]

VARIABLES sale,       \* "AVAILABLE", "CLOSED": available and takes no offers, or "RESERVED"
          offers,     \* the stored offers, in the order of their creation
          offering,   \* worker -> the request it handles
          decided,    \* history: offer -> the first decision stored
          crossed,    \* history: offers decided while another request held them undecided
          twins       \* history: buyers two of whose creations overlapped

offerVars == <<sale, offers, offering, decided, crossed, twins>>

\* What a request makes of an offer.
OfferOutcomes == [ACCEPT |-> "ACCEPTED", REJECT |-> "REJECTED", COUNTER |-> "COUNTERED",
                  WITHDRAW |-> "WITHDRAWN", LIST |-> "EXPIRED"]
OfferStatuses == {"PENDING"} \cup {OfferOutcomes[a] : a \in DOMAIN OfferOutcomes}

OffersTypeOK ==
  /\ sale \in {"AVAILABLE", "CLOSED", "RESERVED"}
  /\ offers \in Seq([buyer : Buyers, status : OfferStatuses, overdue : BOOLEAN])
  /\ Len(offers) <= MaxOffers /\ DOMAIN decided = DOMAIN offers
  /\ crossed \subseteq DOMAIN offers /\ twins \subseteq Buyers

OffersInit ==
  /\ sale = "AVAILABLE" /\ offers = <<>>
  /\ offering = [w \in OfferWorkers |-> NoRequest]
  /\ decided = <<>> /\ crossed = {} /\ twins = {}

Held(w, i) == offering[w] # NoRequest /\ offering[w].op = "save" /\ offering[w].offer = i

\* The offers of S are stored with a new status, by w.
Stored(w, S, status) ==
  /\ offers' = [i \in DOMAIN offers |-> IF i \in S THEN [offers[i] EXCEPT !.status = status] ELSE offers[i]]
  /\ decided' = [i \in DOMAIN offers |->
                   IF i \in S /\ decided[i] = "PENDING" THEN status ELSE decided[i]]
  /\ crossed' = crossed \cup {i \in S : \E v \in OfferWorkers \ {w} : Held(v, i)}

Then(w, request) == offering' = [offering EXCEPT ![w] = request]

-----------------------------------------------------------------------------
\* createOffer: the checks.
CreateOffer(w, b) ==
  /\ offering[w] = NoRequest /\ sale = "AVAILABLE" /\ Len(offers) < MaxOffers
  /\ Then(w, [op |-> "create", buyer |-> b])
  /\ UNCHANGED <<sale, offers, decided, crossed, twins>>

Older_AnyStatus(b) == {i \in DOMAIN offers : offers[i].buyer = b}
Older_None(b) == {}

\* The buyer's offers that updateMany withdraws.
Older(b) == {i \in DOMAIN offers : offers[i].buyer = b /\ offers[i].status = "PENDING"}

WithdrawOlder(w) ==
  /\ offering[w] # NoRequest /\ offering[w].op = "create"
  /\ LET b == offering[w].buyer
     IN  /\ Stored(w, Older(b), "WITHDRAWN")
         /\ Then(w, [op |-> "insert", buyer |-> b])
         /\ twins' = twins \ {b}
  /\ UNCHANGED sale

InsertOffer(w) ==
  /\ offering[w] # NoRequest /\ offering[w].op = "insert" /\ Len(offers) < MaxOffers
  /\ LET b == offering[w].buyer
         inserting == {v \in OfferWorkers \ {w} : offering[v] # NoRequest /\ offering[v].op = "insert"}
     IN  /\ offers' = Append(offers, [buyer |-> b, status |-> "PENDING", overdue |-> FALSE])
         /\ decided' = Append(decided, "PENDING")
         /\ twins' = IF \E v \in inserting : offering[v].buyer = b THEN twins \cup {b} ELSE twins
  /\ Then(w, NoRequest)
  /\ UNCHANGED <<sale, crossed>>

\* resolveOffer and the lists expire an offer that is overdue, whatever was
\* asked; withdrawOffer does not look at the clock.
Becomes(action, i) ==
  IF action # "WITHDRAW" /\ offers[i].overdue THEN "EXPIRED" ELSE OfferOutcomes[action]

\* The offer is read and checked; the lists save overdue ones only.
LoadOffer(w, i, action) ==
  /\ offering[w] = NoRequest /\ offers[i].status = "PENDING"
  /\ action = "LIST" => offers[i].overdue
  /\ Then(w, [op |-> "save", offer |-> i, status |-> Becomes(action, i)])
  /\ UNCHANGED <<sale, offers, decided, crossed, twins>>

SaveOffer(w) ==
  /\ offering[w] # NoRequest /\ offering[w].op = "save"
  /\ LET r == offering[w]
     IN  /\ Stored(w, {r.offer}, r.status)
         /\ Then(w, IF r.status = "ACCEPTED" THEN [op |-> "reject", offer |-> r.offer] ELSE NoRequest)
  /\ UNCHANGED <<sale, twins>>

\* The offers that an acceptance rejects.
Others(j) == {i \in DOMAIN offers \ {j} : offers[i].status = "PENDING"}

RejectOthers(w) ==
  /\ offering[w] # NoRequest /\ offering[w].op = "reject"
  /\ Stored(w, Others(offering[w].offer), "REJECTED")
  /\ Then(w, NoRequest)
  /\ UNCHANGED <<sale, twins>>

\* A call fails or the process stops: the rest of the request is not done.
OfferFails(w) ==
  /\ offering[w] # NoRequest
  /\ Then(w, NoRequest)
  /\ UNCHANGED <<sale, offers, decided, crossed, twins>>

OfferOverdue(i) ==
  /\ ~offers[i].overdue /\ offers[i].status = "PENDING"
  /\ offers' = [offers EXCEPT ![i].overdue = TRUE]
  /\ UNCHANGED <<sale, offering, decided, crossed, twins>>

\* getOfferCheckout, which a new order asks: an accepted offer serves as often
\* as the product is available.
Checkout(i) == offers[i].status = "ACCEPTED" /\ sale # "RESERVED"

OrderFromOffer(i) ==
  /\ Checkout(i)
  /\ sale' = "RESERVED"
  /\ UNCHANGED <<offers, offering, decided, crossed, twins>>

\* A cancelled order frees the product; updateProduct opens and closes it to offers.
ProductChanges ==
  /\ sale' \in {"AVAILABLE", "CLOSED"} \ {sale}
  /\ UNCHANGED <<offers, offering, decided, crossed, twins>>

OffersNext ==
  \/ \E w \in OfferWorkers :
       \/ \E b \in Buyers : CreateOffer(w, b)
       \/ WithdrawOlder(w) \/ InsertOffer(w) \/ SaveOffer(w) \/ RejectOthers(w) \/ OfferFails(w)
       \/ \E i \in DOMAIN offers, a \in DOMAIN OfferOutcomes : LoadOffer(w, i, a)
  \/ \E i \in DOMAIN offers : OfferOverdue(i) \/ OrderFromOffer(i)
  \/ ProductChanges

-----------------------------------------------------------------------------
\* What was decided about an offer stands: an accepted one stays accepted until
\* it is ordered, a refused one is not accepted later; unless it was decided
\* while another request had read it undecided and not yet saved.
DecisionsStand ==
  \A i \in DOMAIN offers \ crossed : offers[i].status = decided[i]

\* A buyer has one pending offer for a product at most, unless two creations of
\* that buyer both withdrew the older ones before either was stored.
OneOfferPerBuyer ==
  \A b \in Buyers \ twins : \A i, j \in DOMAIN offers :
    (/\ offers[i].buyer = b /\ offers[j].buyer = b
     /\ offers[i].status = "PENDING" /\ offers[j].status = "PENDING") => i = j
=============================================================================
