--------------------------- MODULE OrderDocument ---------------------------
(***************************************************************************)
(* The order row that order-service keeps in Supabase and, for every       *)
(* handler of order.service.js and payment.controller.js that saves one,   *)
(* the rows it may save after it loaded the row d.                         *)
(*                                                                         *)
(* Every handler has the same shape: findById (one await), checks and      *)
(* assignments on the loaded copy (no await), then save() (a second await) *)
(* which upserts the WHOLE row.  Saves(op, d) is the set of rows handler   *)
(* `op` may save when it loaded d: the empty set is an early return or a   *)
(* thrown exception, several elements are the choices the request body     *)
(* leaves.  Requests come from the party the handler demands; a request    *)
(* from anybody else is refused before it changes anything.                *)
(*                                                                         *)
(* Left out: texts, timestamps, amounts, evidence and meeting lists, which *)
(* no check on the fields below reads.                                     *)
(***************************************************************************)

Statuses == {"PENDING", "AWAITING_SELLER", "COMPLETED", "CANCELLED"}

Open == {"PENDING", "AWAITING_SELLER"}

\* The table every request that ends an order is checked against.
VALID_TRANSITIONS ==
  [s \in Statuses |-> CASE s = "PENDING"         -> {"AWAITING_SELLER", "CANCELLED"}
                        [] s = "AWAITING_SELLER" -> {"COMPLETED", "CANCELLED"}
                        [] OTHER                 -> {}]

Doc == [status           : Statuses,
        paymentMethod    : {"NONE", "CASH", "BANK_TRANSFER", "VNPAY_MOCK"},
        paymentStatus    : {"UNPAID", "PAID", "REFUNDED"},
        transferReported : BOOLEAN,   \* transferReportedAt is set
        transaction      : BOOLEAN,   \* paymentTransactionId is set
        disputeStatus    : {"NONE", "OPEN", "RESOLVED", "REJECTED"},
        paymentIssue     : {"NONE", "OPEN", "RESOLVED", "REJECTED"},
        noShow           : SUBSET {"BUYER", "SELLER"},
        receipt          : BOOLEAN]

\* The row createOrder inserts for the payment method of the request.
NewDoc(method) ==
  [status |-> "PENDING", paymentMethod |-> method, paymentStatus |-> "UNPAID",
   transferReported |-> FALSE, transaction |-> FALSE, disputeStatus |-> "NONE",
   paymentIssue |-> "NONE", noShow |-> {}, receipt |-> FALSE]

When(guard, docs) == IF guard THEN docs ELSE {}

MayBecome(d, status) == status \in VALID_TRANSITIONS[d.status]

-----------------------------------------------------------------------------
(* Handlers the saga consumer calls.                                        *)

MarkAwaiting_AnyStatus(d) == {[d EXCEPT !.status = "AWAITING_SELLER"]}

MarkAwaiting(d) ==
  When(d.status \notin {"CANCELLED", "COMPLETED"},
       {[d EXCEPT !.status = "AWAITING_SELLER"]})

CancelOrder_OnlyAwaiting(d) ==
  When(d.status = "AWAITING_SELLER", {[d EXCEPT !.status = "CANCELLED"]})

CancelOrder(d) ==
  When(d.status # "COMPLETED", {[d EXCEPT !.status = "CANCELLED"]})

(* The seller's and the buyer's decisions.                                  *)

ConfirmOrder(d) ==
  When(/\ d.status = "AWAITING_SELLER"
       /\ d.paymentMethod = "BANK_TRANSFER" => d.paymentStatus = "PAID"
       /\ MayBecome(d, "COMPLETED"),
       {IF d.paymentMethod = "CASH" /\ d.paymentStatus # "PAID"
          THEN [d EXCEPT !.status = "COMPLETED", !.paymentStatus = "PAID",
                         !.transaction = TRUE]
          ELSE [d EXCEPT !.status = "COMPLETED"]})

RejectOrder(d) ==
  When(d.status # "COMPLETED" /\ MayBecome(d, "CANCELLED"),
       {[d EXCEPT !.status = "CANCELLED"]})

CancelByBuyer(d) ==
  When(d.status \notin {"COMPLETED", "CANCELLED"} /\ MayBecome(d, "CANCELLED"),
       {[d EXCEPT !.status = "CANCELLED"]})

ReportNoShow(d) ==
  When(d.status \in Open,
       {[d EXCEPT !.status = "CANCELLED", !.noShow = @ \cup {role}] :
          role \in {"BUYER", "SELLER"} \ d.noShow})

(* Disputes over a completed order, settled by an admin.                    *)

OpenDispute(d) ==
  When(d.status = "COMPLETED" /\ d.disputeStatus # "OPEN",
       {[d EXCEPT !.disputeStatus = "OPEN"]})

AddDisputeEvidence(d) == When(d.disputeStatus = "OPEN", {d})

Remedied(d, remedy) ==
  CASE remedy = "CANCEL_ORDER" -> [d EXCEPT !.status = "CANCELLED"]
    [] remedy = "REFUND" /\ d.paymentStatus = "PAID" ->
         [d EXCEPT !.paymentStatus = "REFUNDED"]
    [] OTHER -> d

ResolveDispute(d) ==
  When(d.disputeStatus = "OPEN",
       {[Remedied(d, remedy) EXCEPT !.disputeStatus = verdict] :
          remedy \in {"NONE", "REFUND", "CANCEL_ORDER"},
          verdict \in {"RESOLVED", "REJECTED"}})

(* Meeting and receipt handlers: they save the row they loaded, changing    *)
(* only fields that are left out here (or the receipt number).  No check on *)
(* the order's status guards an answer to a meeting proposal.               *)

ProposeHandover(d) == When(d.status \in Open, {d})

RespondHandover(d) == {d}

ConfirmHandover(d) == When(d.status \in {"AWAITING_SELLER", "COMPLETED"}, {d})

GetReceipt(d) ==
  When(~d.receipt /\ (d.paymentStatus # "UNPAID" \/ d.status = "COMPLETED"),
       {[d EXCEPT !.receipt = TRUE]})

-----------------------------------------------------------------------------
(* Payments.                                                                *)

CreatePayment(d) ==
  When(d.paymentStatus # "PAID" /\ d.status # "CANCELLED",
       {[d EXCEPT !.paymentMethod = "VNPAY_MOCK", !.transaction = TRUE]})

ReportBankTransfer(d) ==
  When(d.status # "CANCELLED" /\ d.paymentStatus # "PAID",
       {[d EXCEPT !.paymentMethod = "BANK_TRANSFER", !.transaction = TRUE,
                  !.transferReported = TRUE]})

ConfirmBankTransfer(d) ==
  When(/\ d.paymentMethod = "BANK_TRANSFER" /\ d.transferReported
       /\ d.paymentStatus # "PAID"
       /\ d.status # "CANCELLED",
       {[d EXCEPT !.paymentStatus = "PAID"]})

\* A failed callback saves the row with one more line in its ledger.
PaymentCallback(d) ==
  When(/\ d.status # "CANCELLED"
       /\ d.paymentStatus \notin {"PAID", "REFUNDED"}
       /\ d.transaction,
       {d, [d EXCEPT !.paymentStatus = "PAID"]})

ProcessRefund(d) ==
  When(d.paymentStatus = "PAID" /\ d.status = "CANCELLED",
       {[d EXCEPT !.paymentStatus = "REFUNDED"]})

OpenPaymentIssue(d) ==
  When(/\ d.paymentIssue # "OPEN"
       /\ d.paymentStatus # "REFUNDED"
       /\ d.paymentMethod = "BANK_TRANSFER" \/ d.paymentStatus = "PAID",
       {[d EXCEPT !.paymentIssue = "OPEN"]})

ResolvePaymentIssue(d) ==
  When(d.paymentIssue = "OPEN",
       {[d EXCEPT !.paymentIssue = "RESOLVED", !.paymentStatus = "PAID"],
        [d EXCEPT !.paymentIssue = "RESOLVED", !.paymentStatus = "REFUNDED"],
        [d EXCEPT !.paymentIssue = "REJECTED"]})

-----------------------------------------------------------------------------
RequestOps ==
  {"confirmOrder", "rejectOrder", "cancelByBuyer", "reportNoShow",
   "openDispute", "addDisputeEvidence", "resolveDispute",
   "proposeHandover", "respondHandover", "confirmHandover", "getReceipt",
   "createPayment", "reportBankTransfer", "confirmBankTransfer",
   "paymentCallback", "processRefund", "openPaymentIssue",
   "resolvePaymentIssue"}

SagaOps == {"markAwaitingSellerConfirmation", "cancelOrder"}

Saves(op, d) ==
  CASE op = "markAwaitingSellerConfirmation" -> MarkAwaiting(d)
    [] op = "cancelOrder"         -> CancelOrder(d)
    [] op = "confirmOrder"        -> ConfirmOrder(d)
    [] op = "rejectOrder"         -> RejectOrder(d)
    [] op = "cancelByBuyer"       -> CancelByBuyer(d)
    [] op = "reportNoShow"        -> ReportNoShow(d)
    [] op = "openDispute"         -> OpenDispute(d)
    [] op = "addDisputeEvidence"  -> AddDisputeEvidence(d)
    [] op = "resolveDispute"      -> ResolveDispute(d)
    [] op = "proposeHandover"     -> ProposeHandover(d)
    [] op = "respondHandover"     -> RespondHandover(d)
    [] op = "confirmHandover"     -> ConfirmHandover(d)
    [] op = "getReceipt"          -> GetReceipt(d)
    [] op = "createPayment"       -> CreatePayment(d)
    [] op = "reportBankTransfer"  -> ReportBankTransfer(d)
    [] op = "confirmBankTransfer" -> ConfirmBankTransfer(d)
    [] op = "paymentCallback"     -> PaymentCallback(d)
    [] op = "processRefund"       -> ProcessRefund(d)
    [] op = "openPaymentIssue"    -> OpenPaymentIssue(d)
    [] op = "resolvePaymentIssue" -> ResolvePaymentIssue(d)
    [] OTHER                      -> {}

Announces_CopyPaste(op) ==
  IF op \in {"confirmOrder", "cancelOrder"} THEN {"order.completed"}
  ELSE IF op \in {"rejectOrder", "cancelByBuyer", "reportNoShow"} THEN {"order.cancelled"}
  ELSE {}

\* The saga topics a handler publishes to after its save (other topics have
\* no subscriber that writes an order or a product).
Announces(op) ==
  CASE op = "confirmOrder" -> {"order.completed"}
    [] op \in {"cancelOrder", "rejectOrder", "cancelByBuyer", "reportNoShow"} ->
         {"order.cancelled"}
    [] OTHER -> {}

-----------------------------------------------------------------------------
\* A dispute follows completion, a reported no-show ended the order, and a
\* completed cash order is paid (or was refunded).
Coherent(d) ==
  /\ d.disputeStatus # "NONE" => d.status \in {"COMPLETED", "CANCELLED"}
  /\ d.noShow # {} => d.status = "CANCELLED"
  /\ d.status = "COMPLETED" /\ d.paymentMethod = "CASH" => d.paymentStatus # "UNPAID"
=============================================================================
