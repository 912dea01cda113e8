----------------------------- MODULE OrderPage -----------------------------
(***************************************************************************)
(* OrderDetail.tsx: what the page of one order shows its buyer or its      *)
(* seller, and which buttons it offers, beside the row of OrderDocument;   *)
(* and AdminDashboard.tsx, whose list of orders shows the same to an admin *)
(* without their payments.                                                 *)
(*                                                                         *)
(* The page reads the order and then, by a second request, its payment;    *)
(* several such readings overlap, and an answer may come after the answer  *)
(* to a later question.  A button works on what is shown; the server       *)
(* checks it against the row.  Texts, evidence files and the product's     *)
(* picture are left out.                                                   *)
(***************************************************************************)
EXTENDS Integers, FiniteSets, OrderDocument

CONSTANTS OthersOps,   \* what the other party, an admin and the saga do to the row
          Pressed,     \* buttons that are pressed
          PageMethods, \* payment methods a new order may have
          MaxChanges,  \* bound: changes of the row
          MaxFetches,  \* bound: readings under way
          Absent       \* no payment read yet; no button pressed

VARIABLES role,       \* whose page it is
          orderRow,   \* the stored row
          confirmed,  \* transferConfirmedAt is set
          shown,      \* the page's order
          payment,    \* the page's payment
          fetches,    \* readings under way
          acting,     \* the button whose request is under way
          changes

pageVars == <<role, orderRow, confirmed, shown, payment, fetches, acting, changes>>

\* What an answer with the order, and one with its payment, carries.
OrderView ==
  [status |-> orderRow.status, paymentMethod |-> orderRow.paymentMethod,
   paymentStatus |-> orderRow.paymentStatus, disputeStatus |-> orderRow.disputeStatus,
   paymentIssue |-> orderRow.paymentIssue]

PaymentView ==
  [paymentMethod |-> orderRow.paymentMethod, paymentStatus |-> orderRow.paymentStatus,
   transferReported |-> orderRow.transferReported, transferConfirmed |-> confirmed,
   paymentIssue |-> orderRow.paymentIssue]

PaymentViews ==
  [paymentMethod : {"NONE", "CASH", "BANK_TRANSFER", "VNPAY_MOCK"},
   paymentStatus : {"UNPAID", "PAID", "REFUNDED"},
   transferReported : BOOLEAN, transferConfirmed : BOOLEAN,
   paymentIssue : {"NONE", "OPEN", "RESOLVED", "REJECTED"}]

Buttons == {"confirmOrder", "rejectOrder", "cancelByBuyer", "reportBankTransfer",
            "confirmBankTransfer", "processRefund", "openPaymentIssue", "openDispute",
            "addDisputeEvidence", "resolveDispute", "resolvePaymentIssue"}

ASSUME PageAssumption ==
  /\ Pressed \subseteq Buttons
  /\ OthersOps \subseteq RequestOps \cup SagaOps
  /\ PageMethods \subseteq {"NONE", "CASH", "BANK_TRANSFER"}
  /\ Absent \notin PaymentViews

Asked(mine) == [at |-> "askOrder", copy |-> Absent, mine |-> mine]

PageTypeOK ==
  /\ role \in {"BUYER", "SELLER", "ADMIN"} /\ orderRow \in Doc /\ confirmed \in BOOLEAN
  /\ shown.status \in Statuses
  /\ payment = Absent \/ payment.transferReported \in BOOLEAN
  /\ \A f \in fetches : f.at \in {"askOrder", "order", "askPayment", "payment"}
  /\ Cardinality(fetches) <= MaxFetches /\ changes \in 0..MaxChanges

PageInit ==
  /\ role \in {"BUYER", "SELLER", "ADMIN"}
  /\ orderRow \in {NewDoc(method) : method \in PageMethods}
  /\ confirmed = FALSE
  /\ shown = OrderView /\ payment = Absent
  /\ fetches = {Asked(FALSE)} /\ acting = Absent
  /\ changes = 0

-----------------------------------------------------------------------------
(* What the page makes of its two copies.                                   *)


Ended == shown.status \in {"COMPLETED", "CANCELLED"}

IsBankTransfer == (IF payment = Absent THEN shown ELSE payment).paymentMethod = "BANK_TRANSFER"

TransferReported == payment # Absent /\ payment.transferReported
TransferConfirmed == payment # Absent /\ payment.transferConfirmed

\* A completed cash order passes for paid.
PaymentStatus ==
  LET source == IF payment = Absent THEN shown ELSE payment
  IN  IF source.paymentMethod = "CASH" /\ shown.status = "COMPLETED" /\ source.paymentStatus = "UNPAID"
        THEN "PAID" ELSE source.paymentStatus

PaymentDisplayStatus ==
  IF PaymentStatus = "UNPAID" /\ IsBankTransfer /\ TransferReported THEN "REPORTED" ELSE PaymentStatus

IssueOpen == shown.paymentIssue = "OPEN" \/ (payment # Absent /\ payment.paymentIssue = "OPEN")

CompletesUnconfirmed == role = "SELLER" /\ ~Ended

\* The seller's button, disabled until the money of a transfer is confirmed.
Completes == role = "SELLER" /\ ~Ended /\ (IsBankTransfer => TransferConfirmed)

ReportsTransfer ==
  role = "BUYER" /\ IsBankTransfer /\ ~Ended /\ PaymentDisplayStatus = "UNPAID"

ConfirmsTransfer ==
  role = "SELLER" /\ IsBankTransfer /\ shown.status # "CANCELLED" /\ PaymentDisplayStatus = "REPORTED"

Refunds == role # "ADMIN" /\ shown.status = "CANCELLED" /\ PaymentStatus = "PAID"

OpensIssue == role # "ADMIN" /\ (IsBankTransfer \/ PaymentStatus = "PAID") /\ ~IssueOpen

\* Only a first dispute can be opened here.
Disputes == role # "ADMIN" /\ shown.disputeStatus = "NONE"

AddsEvidence == role # "ADMIN" /\ shown.disputeStatus = "OPEN"

\* The buttons of the admin's list: those of an open issue take the place of a
\* dispute's.
Settles == role = "ADMIN" /\ shown.disputeStatus = "OPEN" /\ shown.paymentIssue # "OPEN"
SettlesIssue == role = "ADMIN" /\ shown.paymentIssue = "OPEN"

Button == [confirmOrder       |-> Completes,
           rejectOrder        |-> role = "SELLER" /\ ~Ended,
           cancelByBuyer      |-> role = "BUYER" /\ ~Ended,
           reportBankTransfer |-> ReportsTransfer,
           confirmBankTransfer |-> ConfirmsTransfer,
           processRefund      |-> Refunds,
           openPaymentIssue   |-> OpensIssue,
           openDispute        |-> Disputes,
           addDisputeEvidence |-> AddsEvidence,
           resolveDispute     |-> Settles,
           resolvePaymentIssue |-> SettlesIssue]

-----------------------------------------------------------------------------
\* The handler of `op` saves the row; payment.controller.js stamps a confirmation.
Handled(op) ==
  /\ changes < MaxChanges /\ changes' = changes + 1
  /\ orderRow' \in Saves(op, orderRow)
  /\ confirmed' = (confirmed \/ op = "confirmBankTransfer")

OthersAct(op) ==
  /\ Handled(op)
  /\ UNCHANGED <<role, shown, payment, fetches, acting>>

\* Every seven seconds while the order is under way, on a message about it, and
\* when the page opens.
Fetch ==
  /\ Cardinality(fetches) < MaxFetches
  /\ fetches' = fetches \cup {Asked(FALSE)}
  /\ UNCHANGED <<role, orderRow, confirmed, shown, payment, acting, changes>>

Moves(f, g) == fetches' = (fetches \ {f}) \cup {g}

\* The server answers, ...
ReadOrder(f) ==
  /\ f.at = "askOrder"
  /\ Moves(f, [f EXCEPT !.at = "order", !.copy = OrderView])
  /\ UNCHANGED <<role, orderRow, confirmed, shown, payment, acting, changes>>

\* The button pressed is free again when its own reading has ended.
Done(f) == acting' = IF f.mine THEN Absent ELSE acting

\* ... the answer arrives, and the payment is asked for, but by an admin.
ShowOrder(f) ==
  /\ f.at = "order"
  /\ shown' = f.copy
  /\ IF role = "ADMIN"
       THEN fetches' = fetches \ {f} /\ Done(f)
       ELSE Moves(f, [f EXCEPT !.at = "askPayment", !.copy = Absent]) /\ UNCHANGED acting
  /\ UNCHANGED <<role, orderRow, confirmed, payment, changes>>

ReadPayment(f) ==
  /\ f.at = "askPayment"
  /\ Moves(f, [f EXCEPT !.at = "payment", !.copy = PaymentView])
  /\ UNCHANGED <<role, orderRow, confirmed, shown, payment, acting, changes>>

ShowPayment(f) ==
  /\ f.at = "payment"
  /\ payment' = f.copy
  /\ fetches' = fetches \ {f}
  /\ Done(f)
  /\ UNCHANGED <<role, orderRow, confirmed, shown, changes>>

\* No answer arrives, from a server that was asked or was not: the page keeps what
\* it has.
FetchFails(f) ==
  /\ f.at \in {"order", "payment"}
  /\ fetches' = fetches \ {f}
  /\ Done(f)
  /\ UNCHANGED <<role, orderRow, confirmed, shown, payment, changes>>

\* The handlers of the buttons; one request at a time.
Click(op) ==
  /\ Button[op] /\ acting = Absent
  /\ acting' = op
  /\ UNCHANGED <<role, orderRow, confirmed, shown, payment, fetches, changes>>

\* Accepted: the page reads again.
Accepted(op) ==
  /\ acting = op /\ {f \in fetches : f.mine} = {} /\ Cardinality(fetches) < MaxFetches
  /\ Handled(op)
  /\ fetches' = fetches \cup {Asked(TRUE)}
  /\ UNCHANGED <<role, shown, payment, acting>>

\* Refused, or the answer was lost, whether the row was saved or not.
RequestFails(op) ==
  /\ acting = op /\ {f \in fetches : f.mine} = {}
  /\ Handled(op) \/ UNCHANGED <<orderRow, confirmed, changes>>
  /\ acting' = Absent
  /\ UNCHANGED <<role, shown, payment, fetches>>

PageNext ==
  \/ \E op \in OthersOps : OthersAct(op)
  \/ \E op \in Pressed : Click(op) \/ Accepted(op) \/ RequestFails(op)
  \/ Fetch
  \/ \E f \in fetches :
       ReadOrder(f) \/ ShowOrder(f) \/ ReadPayment(f) \/ ShowPayment(f) \/ FetchFails(f)

-----------------------------------------------------------------------------
\* What the button of `op` is computed from is up to date: the order, and for a
\* button about money the payment too, or no payment came yet (its request fails).
PaymentButtons ==
  {"confirmOrder", "reportBankTransfer", "confirmBankTransfer", "processRefund", "openPaymentIssue"}

Current(op) ==
  /\ shown = OrderView
  /\ op \in PaymentButtons => payment \in {PaymentView, Absent}

\* Buttons the server will refuse on a page that is up to date: completing an
\* order whose product is not reserved yet, or whose confirmed transfer is no
\* longer PAID; a dispute before the order is completed; an issue about money
\* that was refunded.
Refusable(op) ==
  \/ op = "confirmOrder" /\ orderRow.status = "PENDING"
  \/ op = "confirmOrder" /\ orderRow.paymentMethod = "BANK_TRANSFER"
     /\ confirmed /\ orderRow.paymentStatus # "PAID"
  \/ op = "openDispute" /\ orderRow.status # "COMPLETED"
  \/ op = "openPaymentIssue" /\ orderRow.paymentStatus = "REFUNDED"

\* What the server would accept and the page does not offer: completing an order
\* to be paid by transfer that is PAID without the seller's confirmation (an
\* admin declared it, or it was paid in another way); a second dispute; settling
\* a dispute while an issue is open; a transfer for an order that was to be paid
\* otherwise or is completed, reported again, or confirmed after a refund; and
\* while the payment is not there, completing or confirming a transfer.
Withheld(op) ==
  \/ op = "confirmOrder" /\ orderRow.paymentMethod = "BANK_TRANSFER"
     /\ (~confirmed \/ payment = Absent)
  \/ op = "openDispute" /\ orderRow.disputeStatus # "NONE"
  \/ op = "resolveDispute" /\ orderRow.paymentIssue = "OPEN"
  \/ op = "reportBankTransfer"
     /\ (orderRow.status = "COMPLETED" \/ orderRow.paymentMethod # "BANK_TRANSFER"
         \/ orderRow.transferReported \/ orderRow.paymentStatus = "REFUNDED")
  \/ op = "confirmBankTransfer" /\ (orderRow.paymentStatus = "REFUNDED" \/ payment = Absent)

\* Whose request the server takes.
Parties == [op \in Buttons |->
  CASE op \in {"confirmOrder", "rejectOrder", "confirmBankTransfer"} -> {"SELLER"}
    [] op \in {"cancelByBuyer", "reportBankTransfer"} -> {"BUYER"}
    [] op \in {"resolveDispute", "resolvePaymentIssue"} -> {"ADMIN"}
    [] OTHER -> {"BUYER", "SELLER"}]

\* A button whose copies are up to date agrees with the server: what is offered is
\* accepted, what would be accepted is offered, save the cases above.  A button
\* that is computed from the order alone does so whatever payment is shown.
ButtonsAreHonoured ==
  \A op \in Buttons :
    role \in Parties[op] /\ Current(op) =>
      /\ Button[op] => Saves(op, orderRow) # {} \/ Refusable(op)
      /\ Saves(op, orderRow) # {} => Button[op] \/ Withheld(op)

\* The page asks again every seven seconds while it shows an order under way; no
\* request hangs, and now and then an answer with the order arrives.
Poll == role # "ADMIN" /\ ~Ended /\ Fetch
SomeRead == \E f \in fetches : ReadOrder(f) \/ ReadPayment(f)
SomeShown == \E f \in fetches : ShowOrder(f)
SomeEnd == \E f \in fetches : ShowPayment(f) \/ FetchFails(f)

\* Whatever overtakes what, however often a reading fails and whatever the page
\* showed before: of an order that ended the page of its buyer and of its seller
\* comes to show the end, and a late answer from before it takes that away for
\* a while only.
Over(status) == status \in {"COMPLETED", "CANCELLED"}

=============================================================================
