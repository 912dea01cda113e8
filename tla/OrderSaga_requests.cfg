\* Every order request, on one order, against the saga consumer.
SPECIFICATION Spec
CONSTANTS
  o1 = o1  o2 = o2  p1 = p1  h1 = h1  c1 = c1  r1 = r1  r2 = r2  k1 = k1
  Orders = {o1}
  Products = {p1}
  productOf <- OneProduct
  HttpWorkers = {h1}
  OrderReplicas = {c1}
  ProductReplicas = {r1}
  CatalogWorkers = {}
  Ops = {"confirmOrder", "rejectOrder", "cancelByBuyer", "reportNoShow", "openDispute", "addDisputeEvidence", "resolveDispute", "proposeHandover", "respondHandover", "confirmHandover", "getReceipt", "createPayment", "reportBankTransfer", "confirmBankTransfer", "paymentCallback", "processRefund", "openPaymentIssue", "resolvePaymentIssue"}
  CatalogOps = {}
  Methods = {"NONE", "CASH", "BANK_TRANSFER"}
  MaxFaults = 0
  NoOrder = NoOrder
  NoDoc = NoDoc
  Idle = Idle
CHECK_DEADLOCK FALSE
INVARIANTS
  RowsAreCoherent
