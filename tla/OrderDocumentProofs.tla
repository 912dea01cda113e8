------------------------ MODULE OrderDocumentProofs ------------------------
(* What the handlers of OrderDocument can and cannot save.                 *)
EXTENDS OrderDocument, TLAPS

\* Rows the saga has secured a reservation for.
Served == {"AWAITING_SELLER", "COMPLETED"}

\* What handler may make of row d: another row, coherent if d is, and no
\* nearer to completion than d unless a reservation was secured.
Follows(d, e) ==
  /\ e \in Doc
  /\ Coherent(d) => Coherent(e)
  /\ e.status \in Served => d.status \in Served

\* The row createOrder inserts is a coherent one that nothing was reserved for.
LEMMA NewDocFacts ==
  ASSUME NEW method \in {"NONE", "CASH", "BANK_TRANSFER"}
  PROVE  /\ NewDoc(method) \in Doc
         /\ Coherent(NewDoc(method))
         /\ NewDoc(method).status \notin Served
  BY DEF NewDoc, Doc, Statuses, Coherent, Served

\* markAwaitingSellerConfirmation keeps a coherent row coherent.
LEMMA MarkAwaitingFacts ==
  ASSUME NEW d \in Doc, NEW e \in Saves("markAwaitingSellerConfirmation", d)
  PROVE  e \in Doc /\ (Coherent(d) => Coherent(e))
  <1>1. e \in MarkAwaiting(d)
    BY DEF Saves
  <1>2. e = [d EXCEPT !.status = "AWAITING_SELLER"] /\ d.status \in Open
    BY <1>1 DEF MarkAwaiting, When, Doc, Statuses, Open
  <1> QED
    BY <1>2 DEF Doc, Statuses, Coherent, Open

\* cancelOrder keeps a coherent row coherent and completes nothing.
LEMMA CancelOrderFacts ==
  ASSUME NEW d \in Doc, NEW e \in Saves("cancelOrder", d)
  PROVE  Follows(d, e) /\ e.status = "CANCELLED"
  <1>1. e \in CancelOrder(d)
    BY DEF Saves
  <1>2. e = [d EXCEPT !.status = "CANCELLED"]
    BY <1>1 DEF CancelOrder, When
  <1> QED
    BY <1>2 DEF Follows, Doc, Statuses, Coherent, Served

\* Every request keeps a row coherent, and none takes an order towards
\* completion that the saga did not get there.
LEMMA RequestFacts ==
  ASSUME NEW op \in RequestOps, NEW d \in Doc, NEW e \in Saves(op, d)
  PROVE  /\ Follows(d, e)
         /\ op = "confirmOrder" => e.status = "COMPLETED"
  <1>1. CASE op = "confirmOrder"
    <2>1. e \in ConfirmOrder(d)
      BY <1>1 DEF Saves
    <2>2. /\ d.status = "AWAITING_SELLER"
          /\ \/ e = [d EXCEPT !.status = "COMPLETED", !.paymentStatus = "PAID",
                                !.transaction = TRUE]
             \/ /\ e = [d EXCEPT !.status = "COMPLETED"]
                /\ d.paymentMethod = "CASH" => d.paymentStatus = "PAID"
      BY <2>1 DEF ConfirmOrder, When
    <2>3. CASE e = [d EXCEPT !.status = "COMPLETED"]
      BY <2>2, <2>3 DEF Follows, Doc, Statuses, Coherent, Served
    <2>4. CASE e = [d EXCEPT !.status = "COMPLETED", !.paymentStatus = "PAID",
                             !.transaction = TRUE]
      BY <2>2, <2>4 DEF Follows, Doc, Statuses, Coherent, Served
    <2> QED
      BY <2>2, <2>3, <2>4
  <1>2. CASE op = "rejectOrder"
    <2>1. e \in RejectOrder(d)
      BY <1>2 DEF Saves
    <2> QED
      BY <2>1, <1>2 DEF RejectOrder, When, MayBecome, VALID_TRANSITIONS, Follows, Doc, Statuses, Coherent, Served
  <1>3. CASE op = "cancelByBuyer"
    <2>1. e \in CancelByBuyer(d)
      BY <1>3 DEF Saves
    <2> QED
      BY <2>1, <1>3 DEF CancelByBuyer, When, MayBecome, VALID_TRANSITIONS, Follows, Doc, Statuses, Coherent, Served
  <1>4. CASE op = "reportNoShow"
    <2>1. e \in ReportNoShow(d)
      BY <1>4 DEF Saves
    <2>2. PICK role \in {"BUYER", "SELLER"} :
            /\ d.status \in Open
            /\ e = [d EXCEPT !.status = "CANCELLED", !.noShow = d.noShow \cup {role}]
      BY <2>1 DEF ReportNoShow, When
    <2>3. /\ e.status = "CANCELLED" /\ e.noShow \in SUBSET {"BUYER", "SELLER"}
          /\ e \in Doc
      BY <2>2 DEF Doc, Statuses
    <2> QED
      BY <2>3, <1>4 DEF Follows, Coherent, Served
  <1>5. CASE op = "openDispute"
    <2>1. e \in OpenDispute(d)
      BY <1>5 DEF Saves
    <2> QED
      BY <2>1, <1>5 DEF OpenDispute, When, Follows, Doc, Statuses, Coherent, Served
  <1>6. CASE op = "addDisputeEvidence"
    <2>1. e \in AddDisputeEvidence(d)
      BY <1>6 DEF Saves
    <2> QED
      BY <2>1, <1>6 DEF AddDisputeEvidence, When, Follows, Doc, Statuses, Coherent, Served
  <1>7. CASE op = "resolveDispute"
    <2>1. e \in ResolveDispute(d)
      BY <1>7 DEF Saves
    <2>2. PICK remedy \in {"NONE", "REFUND", "CANCEL_ORDER"},
               verdict \in {"RESOLVED", "REJECTED"} :
            /\ d.disputeStatus = "OPEN"
            /\ e = [Remedied(d, remedy) EXCEPT !.disputeStatus = verdict]
      BY <2>1 DEF ResolveDispute, When
    <2>3. Remedied(d, remedy) \in {d, [d EXCEPT !.status = "CANCELLED"],
                                   [d EXCEPT !.paymentStatus = "REFUNDED"]}
      BY <2>2 DEF Remedied
    <2>4. CASE Remedied(d, remedy) = d
      BY <2>2, <2>4, <1>7 DEF Follows, Doc, Statuses, Coherent, Served
    <2>5. CASE Remedied(d, remedy) = [d EXCEPT !.status = "CANCELLED"]
      <3>1. /\ e.status = "CANCELLED"
            /\ e \in Doc
        BY <2>2, <2>5 DEF Doc, Statuses
      <3> QED
        BY <3>1, <1>7 DEF Follows, Coherent, Served
    <2>6. CASE Remedied(d, remedy) = [d EXCEPT !.paymentStatus = "REFUNDED"]
      BY <2>2, <2>6, <1>7 DEF Follows, Doc, Statuses, Coherent, Served
    <2> QED
      BY <2>3, <2>4, <2>5, <2>6
  <1>8. CASE op = "proposeHandover"
    <2>1. e \in ProposeHandover(d)
      BY <1>8 DEF Saves
    <2> QED
      BY <2>1, <1>8 DEF ProposeHandover, When, Open, Follows, Doc, Statuses, Coherent, Served
  <1>9. CASE op = "respondHandover"
    <2>1. e \in RespondHandover(d)
      BY <1>9 DEF Saves
    <2> QED
      BY <2>1, <1>9 DEF RespondHandover, When, Follows, Doc, Statuses, Coherent, Served
  <1>10. CASE op = "confirmHandover"
    <2>1. e \in ConfirmHandover(d)
      BY <1>10 DEF Saves
    <2> QED
      BY <2>1, <1>10 DEF ConfirmHandover, When, Follows, Doc, Statuses, Coherent, Served
  <1>11. CASE op = "getReceipt"
    <2>1. e \in GetReceipt(d)
      BY <1>11 DEF Saves
    <2> QED
      BY <2>1, <1>11 DEF GetReceipt, When, Follows, Doc, Statuses, Coherent, Served
  <1>12. CASE op = "createPayment"
    <2>1. e \in CreatePayment(d)
      BY <1>12 DEF Saves
    <2> QED
      BY <2>1, <1>12 DEF CreatePayment, When, Follows, Doc, Statuses, Coherent, Served
  <1>13. CASE op = "reportBankTransfer"
    <2>1. e \in ReportBankTransfer(d)
      BY <1>13 DEF Saves
    <2> QED
      BY <2>1, <1>13 DEF ReportBankTransfer, When, Follows, Doc, Statuses, Coherent, Served
  <1>14. CASE op = "confirmBankTransfer"
    <2>1. e \in ConfirmBankTransfer(d)
      BY <1>14 DEF Saves
    <2> QED
      BY <2>1, <1>14 DEF ConfirmBankTransfer, When, Follows, Doc, Statuses, Coherent, Served
  <1>15. CASE op = "paymentCallback"
    <2>1. e \in PaymentCallback(d)
      BY <1>15 DEF Saves
    <2> QED
      BY <2>1, <1>15 DEF PaymentCallback, When, Follows, Doc, Statuses, Coherent, Served
  <1>16. CASE op = "processRefund"
    <2>1. e \in ProcessRefund(d)
      BY <1>16 DEF Saves
    <2> QED
      BY <2>1, <1>16 DEF ProcessRefund, When, Follows, Doc, Statuses, Coherent, Served
  <1>17. CASE op = "openPaymentIssue"
    <2>1. e \in OpenPaymentIssue(d)
      BY <1>17 DEF Saves
    <2> QED
      BY <2>1, <1>17 DEF OpenPaymentIssue, When, Follows, Doc, Statuses, Coherent, Served
  <1>18. CASE op = "resolvePaymentIssue"
    <2>1. e \in ResolvePaymentIssue(d)
      BY <1>18 DEF Saves
    <2>2. e \in {[d EXCEPT !.paymentIssue = "RESOLVED", !.paymentStatus = "PAID"],
                 [d EXCEPT !.paymentIssue = "RESOLVED", !.paymentStatus = "REFUNDED"],
                 [d EXCEPT !.paymentIssue = "REJECTED"]}
      BY <2>1 DEF ResolvePaymentIssue, When
    <2>3. CASE e = [d EXCEPT !.paymentIssue = "RESOLVED", !.paymentStatus = "PAID"]
      BY <2>3, <1>18 DEF Follows, Doc, Statuses, Coherent, Served
    <2>4. CASE e = [d EXCEPT !.paymentIssue = "RESOLVED", !.paymentStatus = "REFUNDED"]
      BY <2>4, <1>18 DEF Follows, Doc, Statuses, Coherent, Served
    <2>5. CASE e = [d EXCEPT !.paymentIssue = "REJECTED"]
      BY <2>5, <1>18 DEF Follows, Doc, Statuses, Coherent, Served
    <2> QED
      BY <2>2, <2>3, <2>4, <2>5
  <1> QED
    BY <1>1, <1>2, <1>3, <1>4, <1>5, <1>6, <1>7, <1>8, <1>9,
       <1>10, <1>11, <1>12, <1>13, <1>14, <1>15, <1>16, <1>17,
       <1>18
    DEF RequestOps

Ending == {"confirmOrder", "rejectOrder", "cancelByBuyer", "reportNoShow"}

\* A request that does not end the order saves the status it loaded, whatever the
\* row says by now, or cancels a completed order for a dispute: of the status, the
\* handlers of payments, of issues, of disputes and of meetings do what
\* respondHandover does.
THEOREM OthersKeepTheStatus ==
  ASSUME NEW op \in RequestOps \ Ending, NEW d \in Doc, NEW e \in Saves(op, d)
  PROVE  e.status = d.status \/ (op = "resolveDispute" /\ e.status = "CANCELLED")
  <1>1. CASE op = "resolveDispute"
    <2>1. e \in ResolveDispute(d)
      BY <1>1 DEF Saves
    <2>2. PICK remedy \in {"NONE", "REFUND", "CANCEL_ORDER"},
               verdict \in {"RESOLVED", "REJECTED"} :
            e = [Remedied(d, remedy) EXCEPT !.disputeStatus = verdict]
      BY <2>1 DEF ResolveDispute, When
    <2>3. Remedied(d, remedy) \in {d, [d EXCEPT !.status = "CANCELLED"],
                                   [d EXCEPT !.paymentStatus = "REFUNDED"]}
      BY <2>2 DEF Remedied
    <2> QED
      BY <1>1, <2>2, <2>3 DEF Doc
  <1>2. CASE op = "resolvePaymentIssue"
    <2>1. e \in ResolvePaymentIssue(d)
      BY <1>2 DEF Saves
    <2> QED
      BY <2>1 DEF ResolvePaymentIssue, When, Doc
  <1>3. CASE op \in {"openDispute", "addDisputeEvidence"}
    <2>1. e \in OpenDispute(d) \/ e \in AddDisputeEvidence(d)
      BY <1>3 DEF Saves
    <2> QED
      BY <2>1 DEF OpenDispute, AddDisputeEvidence, When, Doc
  <1>4. CASE op \in {"proposeHandover", "respondHandover", "confirmHandover", "getReceipt"}
    <2>1. e \in ProposeHandover(d) \/ e \in RespondHandover(d)
          \/ e \in ConfirmHandover(d) \/ e \in GetReceipt(d)
      BY <1>4 DEF Saves
    <2> QED
      BY <2>1 DEF ProposeHandover, RespondHandover, ConfirmHandover, GetReceipt, When, Doc
  <1>5. CASE op \in {"createPayment", "reportBankTransfer", "confirmBankTransfer"}
    <2>1. e \in CreatePayment(d) \/ e \in ReportBankTransfer(d) \/ e \in ConfirmBankTransfer(d)
      BY <1>5 DEF Saves
    <2> QED
      BY <2>1 DEF CreatePayment, ReportBankTransfer, ConfirmBankTransfer, When, Doc
  <1>6. CASE op \in {"paymentCallback", "processRefund", "openPaymentIssue"}
    <2>1. e \in PaymentCallback(d) \/ e \in ProcessRefund(d) \/ e \in OpenPaymentIssue(d)
      BY <1>6 DEF Saves
    <2> QED
      BY <2>1 DEF PaymentCallback, ProcessRefund, OpenPaymentIssue, When, Doc
  <1> QED
    BY <1>1, <1>2, <1>3, <1>4, <1>5, <1>6 DEF RequestOps, Ending
=============================================================================
