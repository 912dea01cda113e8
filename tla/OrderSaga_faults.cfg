\* One lost event, crash or repeated delivery, and product requests in between.
SPECIFICATION Spec
CONSTANTS
  o1 = o1  o2 = o2  p1 = p1  h1 = h1  c1 = c1  r1 = r1  r2 = r2  k1 = k1
  Orders = {o1, o2}
  Products = {p1}
  productOf <- OneProduct
  HttpWorkers = {h1}
  OrderReplicas = {c1}
  ProductReplicas = {r1}
  CatalogWorkers = {k1}
  Ops = {"confirmOrder"}
  CatalogOps = {"approve", "reject", "delete", "adminDelete"}
  Methods = {"NONE"}
  MaxFaults = 1
  NoOrder = NoOrder
  NoDoc = NoDoc
  Idle = Idle
CHECK_DEADLOCK FALSE
INVARIANTS
  CompletedWasReserved
  SoldWasCompleted
