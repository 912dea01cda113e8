\* Two orders race for one product between two product-service replicas.
SPECIFICATION Spec
CONSTANTS
  o1 = o1  o2 = o2  p1 = p1  h1 = h1  c1 = c1  r1 = r1  r2 = r2  k1 = k1
  Orders = {o1, o2}
  Products = {p1}
  productOf <- OneProduct
  HttpWorkers = {h1}
  OrderReplicas = {c1}
  ProductReplicas = {r1, r2}
  CatalogWorkers = {}
  Ops = {"confirmOrder", "cancelByBuyer"}
  CatalogOps = {}
  Methods = {"NONE"}
  MaxFaults = 0
  NoOrder = NoOrder
  NoDoc = NoDoc
  Idle = Idle
CHECK_DEADLOCK FALSE
INVARIANTS
  ReservedNamesItsOrder
PROPERTIES
  NoStolenReservation
