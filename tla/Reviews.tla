------------------------------ MODULE Reviews ------------------------------
(***************************************************************************)
(* Reviews of product-service beside the orders of order-service.          *)
(* createReview asks three times, of two services, before it writes: for   *)
(* the product, for an earlier review of the order, and, over HTTP, whether *)
(* the order entitles its sender.  Orders go on meanwhile: disputes,       *)
(* payment issues and refunds, which may also be undone.                   *)
(*                                                                         *)
(* Anybody may send any order's id with any product.  Ratings and texts    *)
(* are left out; rows of orders are those of OrderDocument, each handler   *)
(* in one step.                                                            *)
(***************************************************************************)
EXTENDS Integers, FiniteSets, OrderDocument

CONSTANTS Reviewers,      \* students
          ReviewWorkers,  \* requests in progress at a time
          Sales,          \* order -> its buyer, its seller and its product
          MaxOrderSteps,  \* bound: saves of order rows
          NoReview        \* a worker without a request

VARIABLES sold,        \* order -> its row
          atFault,     \* orders whose dispute's outcome is BUYER_FAULT
          reviews,     \* the stored reviews
          posting,     \* worker -> the request it handles, or NoReview
          entitled,    \* history: workers whose request met a moment it was due
          orderSteps

reviewVars == <<sold, atFault, reviews, posting, entitled, orderSteps>>

Wares == {Sales[o].product : o \in DOMAIN Sales}

Seller(product) == Sales[CHOOSE o \in DOMAIN Sales : Sales[o].product = product].seller

Review == [orderId : DOMAIN Sales, buyerId : Reviewers, productId : Wares, due : BOOLEAN]

Posting == [at : {"exists", "verify", "create"}, orderId : DOMAIN Sales,
            buyerId : Reviewers, productId : Wares]

ReviewsTypeOK ==
  /\ sold \in [DOMAIN Sales -> Doc] /\ atFault \subseteq DOMAIN Sales
  /\ reviews \subseteq Review
  /\ posting \in [ReviewWorkers -> Posting \cup {NoReview}]
  /\ entitled \subseteq ReviewWorkers
  /\ orderSteps \in 0..MaxOrderSteps

ReviewsInit ==
  /\ sold = [o \in DOMAIN Sales |-> [NewDoc("BANK_TRANSFER") EXCEPT !.status = "AWAITING_SELLER",
                                       !.paymentStatus = "PAID", !.transferReported = TRUE]]
  /\ atFault = {} /\ reviews = {}
  /\ posting = [w \in ReviewWorkers |-> NoReview] /\ entitled = {}
  /\ orderSteps = 0

-----------------------------------------------------------------------------
(* order-service.                                                           *)

Eligible_InDispute(o, user, rows, faults) ==
  /\ Sales[o].buyer = user
  /\ rows[o].status = "COMPLETED"
  /\ rows[o].paymentIssue # "OPEN" /\ rows[o].paymentStatus # "REFUNDED"
  /\ o \notin faults

\* getReviewEligibility.
Eligible(o, user, rows, faults) ==
  /\ Sales[o].buyer = user
  /\ rows[o].status = "COMPLETED"
  /\ rows[o].disputeStatus # "OPEN"
  /\ rows[o].paymentIssue # "OPEN" /\ rows[o].paymentStatus # "REFUNDED"
  /\ o \notin faults

\* The buyer has the product, keeps it, and the sale is undisputed.
Due(o, user, rows, faults) ==
  /\ user = Sales[o].buyer /\ o \notin faults
  /\ rows[o].status = "COMPLETED" /\ rows[o].paymentStatus \in {"PAID", "UNPAID"}
  /\ "OPEN" \notin {rows[o].disputeStatus, rows[o].paymentIssue}

\* A handler saves the row; a verdict says whose fault it was.
OrderMoves(o, op) ==
  /\ orderSteps < MaxOrderSteps /\ orderSteps' = orderSteps + 1
  /\ \E d \in Saves(op, sold[o]) : sold' = [sold EXCEPT ![o] = d]
  /\ atFault' \in (CASE op # "resolveDispute" -> {atFault}
                     [] sold'[o].disputeStatus = "REJECTED" -> {atFault \ {o}}
                     [] OTHER -> {atFault \ {o}, atFault \cup {o}})
  /\ entitled' = entitled \cup
       {w \in ReviewWorkers : posting[w] # NoReview
                              /\ Due(posting[w].orderId, posting[w].buyerId, sold', atFault')}
  /\ UNCHANGED <<reviews, posting>>

-----------------------------------------------------------------------------
(* createReview.                                                            *)

\* The product is there, and not the sender's own.
PostReview(w, user, product, o) ==
  /\ posting[w] = NoReview
  /\ user # Seller(product)
  /\ posting' = [posting EXCEPT ![w] = [at |-> "exists", orderId |-> o, buyerId |-> user,
                                        productId |-> product]]
  /\ entitled' = IF Due(o, user, sold, atFault) THEN entitled \cup {w} ELSE entitled \ {w}
  /\ UNCHANGED <<sold, atFault, reviews, orderSteps>>

Goes(w, at) == posting' = [posting EXCEPT ![w].at = at]

Ends(w) == posting' = [posting EXCEPT ![w] = NoReview]

ReviewedBefore(o) == \E r \in reviews : r.orderId = o

FindExisting(w) ==
  /\ posting[w] # NoReview /\ posting[w].at = "exists"
  /\ IF ReviewedBefore(posting[w].orderId) THEN Ends(w) ELSE Goes(w, "verify")
  /\ UNCHANGED <<sold, atFault, reviews, entitled, orderSteps>>

\* The order answers for its own product and seller; an error of the call, or
\* an answer without data, is a refusal.
VerifyCompletedOrder(w) ==
  LET p == posting[w]
  IN  /\ p # NoReview /\ p.at = "verify"
      /\ \/ /\ Eligible(p.orderId, p.buyerId, sold, atFault)
            /\ Sales[p.orderId].product = p.productId
            /\ Sales[p.orderId].seller = Seller(p.productId)
            /\ Goes(w, "create")
         \/ Ends(w)
      /\ UNCHANGED <<sold, atFault, reviews, entitled, orderSteps>>

\* Review.create: the index on orderId refuses a second one.
CreateReview(w) ==
  LET p == posting[w]
  IN  /\ p # NoReview /\ p.at = "create"
      /\ reviews' = IF ReviewedBefore(p.orderId) THEN reviews
                    ELSE reviews \cup {[orderId |-> p.orderId, buyerId |-> p.buyerId,
                                        productId |-> p.productId, due |-> w \in entitled]}
      /\ Ends(w)
      /\ UNCHANGED <<sold, atFault, entitled, orderSteps>>

ReviewsNext ==
  \/ \E w \in ReviewWorkers :
       \/ \E user \in Reviewers, product \in Wares, o \in DOMAIN Sales :
            PostReview(w, user, product, o)
       \/ FindExisting(w) \/ VerifyCompletedOrder(w) \/ CreateReview(w)
  \/ \E o \in DOMAIN Sales, op \in RequestOps : OrderMoves(o, op)

-----------------------------------------------------------------------------
\* A sale has at most one review, by its own buyer and about its own product,
\* however often and for whatever product its id is sent; and while the request
\* was handled there was a moment at which the sale was completed, not refunded and
\* free of an open dispute or payment issue, and the buyer not found at fault, though
\* the two services are asked one after the other and the order goes on.
ReviewsAreEarned ==
  \A r \in reviews :
    /\ r.buyerId = Sales[r.orderId].buyer /\ r.productId = Sales[r.orderId].product
    /\ r.due
    /\ \A other \in reviews : other.orderId = r.orderId => other = r
=============================================================================
