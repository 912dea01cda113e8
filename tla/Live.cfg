\* One failure of the saga and two outages of a service at most: what ends all the
\* same, and what ends without a failure.
\* Ops: one request that completes the order, one that cancels it, and one that
\* saves the row it loaded and leaves the status alone, as those of payments,
\* disputes and meetings do (OthersKeepTheStatus in OrderDocumentProofs).
\* CatalogOps: a deletion takes the product away in whatever status it is, which is
\* what a rejection does too, as seen by an order that waits for it.
SPECIFICATION LiveSpec
CONSTANTS
  o1 = o1  o2 = o2  p1 = p1  h1 = h1  c1 = c1  r1 = r1  r2 = r2  k1 = k1
  Orders = {o1}
  Products = {p1}
  productOf <- OneProduct
  HttpWorkers = {h1}
  OrderReplicas = {c1}
  ProductReplicas = {r1}
  CatalogWorkers = {k1}
  Ops = {"confirmOrder", "cancelByBuyer", "respondHandover"}
  CatalogOps = {"adminDelete"}
  Methods = {"NONE"}
  MaxFaults = 1
  NoOrder = NoOrder
  NoDoc = NoDoc
  Idle = Idle
  FailureThreshold = 2
  HalfOpenMax = 2
  MaxInFlight = 3
  MaxOutages = 2
  OthersOps = {"markAwaitingSellerConfirmation", "cancelOrder", "confirmOrder"}
  Pressed = {"rejectOrder", "cancelByBuyer"}
  PageMethods = {"CASH"}
  MaxChanges = 2
  MaxFetches = 2
  Absent = Absent
CHECK_DEADLOCK FALSE
INVARIANT CountsInARow
PROPERTIES
  ReservationsEnd
  AnsweredUnlessLost
  Recovers
  
