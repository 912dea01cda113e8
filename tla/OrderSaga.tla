----------------------------- MODULE OrderSaga -----------------------------
(***************************************************************************)
(* The purchase saga: order-service (Supabase rows, HTTP handlers and the  *)
(* consumer group order-service-group) and product-service (Mongo          *)
(* documents, the consumer group product-service-saga-group, the sweep of  *)
(* expired reservations and the admin and seller requests that write a     *)
(* product's status), choreographed through Kafka topics.                  *)
(*                                                                         *)
(* Every handler is split at its awaits, so other handlers, of the same    *)
(* process or of another replica, run between its read and its write:      *)
(*   - order-service writes back the whole row it loaded (SupabaseModel),  *)
(*   - product-service writes the fields it changed (Mongoose), except the *)
(*     reservation, which is one atomic findOneAndUpdate.                  *)
(*                                                                         *)
(* Kafka: `msgs` holds the events sent and not yet being handled.  Topics, *)
(* and orders of one topic, have no order among them.  A failed or crashed *)
(* step is a fault, and a run allows at most MaxFaults of them: a publish  *)
(* that does not arrive, a process that dies with a handler half done, an  *)
(* offset that is not committed (the event is handled again).              *)
(*                                                                         *)
(* Time: any reservation may have outlived its 30 minutes when a sweep     *)
(* looks, so nothing here depends on how fast messages or people are.      *)
(***************************************************************************)
EXTENDS Naturals, OrderDocument

CONSTANTS Orders,        \* orders that may be placed
          Products,      \* products they are for
          productOf,     \* order -> product
          HttpWorkers,   \* order-service requests in progress at a time
          OrderReplicas, \* order-service processes: one saga consumer each
          ProductReplicas, \* product-service processes: a consumer and a sweep each
          CatalogWorkers,  \* product-service requests in progress at a time
          Ops,           \* order-service requests users make
          CatalogOps,    \* product-service requests users make
          Methods,       \* payment methods orders are placed with
          MaxFaults,     \* bound: faults in a behaviour
          NoOrder, NoDoc, Idle

ASSUME OrdersAssumption ==
  /\ productOf \in [Orders -> Products]
  /\ NoOrder \notin Orders
  /\ NoDoc \notin Doc

ASSUME OpsAssumption ==
  /\ Ops \subseteq RequestOps
  /\ CatalogOps \subseteq {"approve", "reject", "delete", "adminDelete"}
  /\ Methods \subseteq {"NONE", "CASH", "BANK_TRANSFER"}
  /\ MaxFaults \in Nat

VARIABLES orders,    \* order-service: the row of each order, or NoDoc
          task,      \* order-service: what each worker has loaded and will save
          products,  \* product-service: the document of each product
          ptask,     \* product-service: what each consumer or request will write
          sweep,     \* product-service: documents each replica's sweep still has to write
          msgs,      \* Kafka
          faults,
          reservedEver,  \* history: orders for which the product was ever reserved
          completedEver  \* history: orders whose row ever said COMPLETED

vars == <<orders, task, products, ptask, sweep, msgs, faults,
          reservedEver, completedEver>>
orderVars   == <<orders, task, completedEver>>
productVars == <<products, ptask, sweep, reservedEver>>

Workers  == HttpWorkers \cup OrderReplicas
PWorkers == ProductReplicas \cup CatalogWorkers

\* DELETED stands for a document that is gone.
ProductDoc == [status : {"PENDING_APPROVAL", "AVAILABLE", "RESERVED", "SOLD",
                         "REJECTED", "DELETED"},
               holder : Orders \cup {NoOrder}]   \* reservedOrderId

OrderTopics   == {"product.reserved", "product.reserve.failed", "product.reserve.expired"}
ProductTopics == {"order.created", "order.completed", "order.cancelled"}
Message == [topic : OrderTopics \cup ProductTopics, order : Orders]

Msg(topic, o) == [topic |-> topic, order |-> o]

\* `from` is the event a consumer is handling, empty for a request.
Task == [op : RequestOps \cup SagaOps \cup {"createOrder", "markPublishFailed"},
         order : Orders, saved : Doc, from : SUBSET Message]

PTask == [op : {"reserve", "sell", "release", "approve", "reject", "delete"},
          product : Products, seen : ProductDoc, from : SUBSET Message]

TypeOK ==
  /\ orders \in [Orders -> Doc \cup {NoDoc}]
  /\ task \in [Workers -> Task \cup {Idle}]
  /\ products \in [Products -> ProductDoc]
  /\ ptask \in [PWorkers -> PTask \cup {Idle}]
  /\ sweep \in [ProductReplicas -> [Products -> ProductDoc \cup {NoDoc}]]
  /\ msgs \in SUBSET Message
  /\ faults \in Nat
  /\ reservedEver \in SUBSET Orders
  /\ completedEver \in SUBSET Orders

NoSweep == [p \in Products |-> NoDoc]

Init ==
  /\ orders = [o \in Orders |-> NoDoc]
  /\ task = [w \in Workers |-> Idle]
  /\ products \in [Products -> [status : {"PENDING_APPROVAL", "AVAILABLE"},
                                holder : {NoOrder}]]
  /\ ptask = [w \in PWorkers |-> Idle]
  /\ sweep = [r \in ProductReplicas |-> NoSweep]
  /\ msgs = {}
  /\ faults = 0
  /\ reservedEver = {}
  /\ completedEver = {}

Fault == faults < MaxFaults /\ faults' = faults + 1

-----------------------------------------------------------------------------
(* order-service                                                            *)

\* createOrder up to its insert: the product, read from product-service (or
\* through an accepted offer), is AVAILABLE.
CheckoutOrder(w, o) ==
  /\ task[w] = Idle
  /\ orders[o] = NoDoc
  /\ \A v \in Workers : task[v] # Idle => task[v].order # o
  /\ products[productOf[o]].status = "AVAILABLE"
  /\ \E method \in Methods :
       task' = [task EXCEPT ![w] = [op |-> "createOrder", order |-> o,
                                    saved |-> NewDoc(method), from |-> {}]]
  /\ UNCHANGED <<orders, completedEver, productVars, msgs, faults>>

\* A request loads the row and decides what to save.
LoadRequest(w, op, o) ==
  /\ task[w] = Idle
  /\ orders[o] # NoDoc
  /\ \E d \in Saves(op, orders[o]) :
       task' = [task EXCEPT ![w] = [op |-> op, order |-> o, saved |-> d, from |-> {}]]
  /\ UNCHANGED <<orders, completedEver, productVars, msgs, faults>>

OpFor_Swapped(topic) ==
  IF topic = "product.reserve.failed" THEN "markAwaitingSellerConfirmation"
  ELSE "cancelOrder"

OpFor(topic) ==
  IF topic = "product.reserved" THEN "markAwaitingSellerConfirmation" ELSE "cancelOrder"

\* The saga consumer takes an event and loads the order it names.
Consume(r, m) ==
  /\ task[r] = Idle
  /\ m \in msgs /\ m.topic \in OrderTopics
  /\ orders[m.order] # NoDoc
  /\ msgs' = msgs \ {m}
  /\ LET saves == Saves(OpFor(m.topic), orders[m.order])
     IN  \/ /\ saves = {}      \* early return: the event is done with
            /\ UNCHANGED task
         \/ \E d \in saves :
              task' = [task EXCEPT ![r] = [op |-> OpFor(m.topic), order |-> m.order,
                                           saved |-> d, from |-> {m}]]
  /\ UNCHANGED <<orders, completedEver, productVars, faults>>

Events(t) ==
  {Msg(topic, t.order) : topic \in IF t.op = "createOrder" THEN {"order.created"}
                                                           ELSE Announces(t.op)}

\* createOrder marks the row after a failed publish by saving it once more.
AfterFailure(t) ==
  IF t.op = "createOrder" THEN [t EXCEPT !.op = "markPublishFailed"] ELSE Idle

\* SupabaseModel.save() upserts every column, whatever the row says by now.
Upsert(row, saved) == saved

\* The handler's save, and the publish that follows it.
SaveOrder(w) ==
  LET t == task[w]
  IN  /\ t # Idle
      /\ orders' = [orders EXCEPT ![t.order] = Upsert(@, t.saved)]
      /\ completedEver' = completedEver \cup
                          (IF orders'[t.order].status = "COMPLETED" THEN {t.order} ELSE {})
      /\ \/ /\ msgs' = msgs \cup Events(t)
            /\ task' = [task EXCEPT ![w] = Idle]
            /\ UNCHANGED faults
         \/ /\ Fault           \* the publish fails, though the event may have arrived
            /\ Events(t) # {}
            /\ \E sent \in SUBSET Events(t) : msgs' = msgs \cup sent
            /\ task' = [task EXCEPT ![w] = AfterFailure(t)]
         \/ /\ Fault           \* the offset is not committed, or the consumer dies here
            /\ t.from # {}
            /\ \E sent \in SUBSET Events(t) : msgs' = msgs \cup sent \cup t.from
            /\ task' = [task EXCEPT ![w] = Idle]
      /\ UNCHANGED productVars

\* The process dies before the save.
CrashOrderWorker(w) ==
  /\ task[w] # Idle
  /\ Fault
  /\ msgs' = msgs \cup task[w].from
  /\ task' = [task EXCEPT ![w] = Idle]
  /\ UNCHANGED <<orders, completedEver, productVars>>
-----------------------------------------------------------------------------
(* product-service                                                          *)

Exists(p) == products[p].status # "DELETED"

\* Mongoose save(): the fields that differ from the document as it was read.
Changed(now, seen, new) ==
  [status |-> IF new.status # seen.status THEN new.status ELSE now.status,
   holder |-> IF new.holder # seen.holder THEN new.holder ELSE now.holder]

Freed_KeepsStatus == [status |-> "RESERVED", holder |-> NoOrder]

Freed == [status |-> "AVAILABLE", holder |-> NoOrder]
Sold  == [status |-> "SOLD", holder |-> NoOrder]

\* handleOrderCreated, first read: the answers that need no write.
AnswerCreated(r, m) ==
  LET p    == productOf[m.order]
      mine == products[p].status = "RESERVED" /\ products[p].holder = m.order
      answer == Msg(IF mine THEN "product.reserved" ELSE "product.reserve.failed", m.order)
  IN  /\ ptask[r] = Idle
      /\ m \in msgs /\ m.topic = "order.created"
      /\ products[p].status # "AVAILABLE"
      /\ \/ /\ msgs' = (msgs \ {m}) \cup {answer}
            /\ UNCHANGED faults
         \/ /\ Fault           \* the answer is lost, or the event comes again
            /\ msgs' \in {msgs \ {m}, msgs \cup {answer}}
      /\ UNCHANGED <<orderVars, productVars>>

\* The task a consumed event leaves behind, if it has anything to write.
Wanted(m, seen) ==
  CASE m.topic = "order.created" /\ seen.status = "AVAILABLE" -> {"reserve"}
    [] m.topic = "order.completed" /\ seen.status \notin {"SOLD", "DELETED"} -> {"sell"}
    [] /\ m.topic = "order.cancelled"
       /\ seen.status = "RESERVED"
       /\ seen.holder \in {NoOrder, m.order} -> {"release"}
    [] OTHER -> {}

ConsumeOrderEvent(r, m) ==
  LET p == productOf[m.order]
  IN  /\ ptask[r] = Idle
      /\ m \in msgs /\ m.topic \in ProductTopics
      /\ m.topic = "order.created" => products[p].status = "AVAILABLE"
      /\ msgs' = msgs \ {m}
      /\ \/ /\ Wanted(m, products[p]) = {}
            /\ UNCHANGED ptask
         \/ \E op \in Wanted(m, products[p]) :
              ptask' = [ptask EXCEPT ![r] = [op |-> op, product |-> p,
                                             seen |-> products[p], from |-> {m}]]
      /\ UNCHANGED <<orderVars, products, sweep, reservedEver, faults>>

\* The filter of handleOrderCreated's findOneAndUpdate.
Free_ByAnyOrder(p) == products[p].status \in {"AVAILABLE", "RESERVED"}

Free(p) == products[p].status = "AVAILABLE"

\* findOneAndUpdate and the answer.
Reserve(r) ==
  LET t   == ptask[r]
      p   == t.product
      won == Free(p)
  IN  /\ t # Idle /\ t.op = "reserve"
      /\ \E m \in t.from :
           LET answer == Msg(IF won THEN "product.reserved"
                                    ELSE "product.reserve.failed", m.order)
           IN  /\ IF won
                    THEN /\ products' = [products EXCEPT ![p] =
                              [status |-> "RESERVED", holder |-> m.order]]
                         /\ reservedEver' = reservedEver \cup {m.order}
                    ELSE UNCHANGED <<products, reservedEver>>
               /\ \/ msgs' = msgs \cup {answer} /\ UNCHANGED faults
                  \/ Fault /\ msgs' \in {msgs, msgs \cup {m}, msgs \cup {m, answer}}
      /\ ptask' = [ptask EXCEPT ![r] = Idle]
      /\ UNCHANGED <<orderVars, sweep>>

\* product.save() of handleOrderCompleted and handleOrderCancelled; on a
\* deleted document it throws, and the event is handled again.
SaveProduct(r) ==
  LET t   == ptask[r]
      p   == t.product
      new == IF t.op = "sell" THEN Sold ELSE Freed
  IN  /\ t # Idle /\ t.op \in {"sell", "release"}
      /\ IF Exists(p)
           THEN /\ products' = [products EXCEPT ![p] = Changed(@, t.seen, new)]
                /\ \/ UNCHANGED <<msgs, faults>>
                   \/ Fault /\ msgs' = msgs \cup t.from
           ELSE UNCHANGED <<products, faults>> /\ msgs' = msgs \cup t.from
      /\ ptask' = [ptask EXCEPT ![r] = Idle]
      /\ UNCHANGED <<orderVars, sweep, reservedEver>>

\* releaseExpiredReservations: find() returns every reservation that ran out.
Expirable_OnlyOrphans(p) == products[p] = [status |-> "RESERVED", holder |-> NoOrder]

Expirable(p) == products[p].status = "RESERVED"

StartSweep(r, expired) ==
  /\ sweep[r] = NoSweep
  /\ expired # {}
  /\ \A p \in expired : Expirable(p)
  /\ sweep' = [sweep EXCEPT ![r] =
                 [p \in Products |-> IF p \in expired THEN products[p] ELSE NoDoc]]
  /\ UNCHANGED <<orderVars, products, ptask, reservedEver, msgs, faults>>

\* One round of its loop.  A save or a publish that throws ends the sweep.
SweepOne(r, p) ==
  LET seen == sweep[r][p]
      rest == [sweep[r] EXCEPT ![p] = NoDoc]
      told == {Msg("product.reserve.expired", o) : o \in {seen.holder} \ {NoOrder}}
  IN  /\ seen # NoDoc
      /\ IF Exists(p)
           THEN /\ products' = [products EXCEPT ![p] = Changed(@, seen, Freed)]
                /\ \/ /\ msgs' = msgs \cup told
                      /\ sweep' = [sweep EXCEPT ![r] = rest]
                      /\ UNCHANGED faults
                   \/ /\ Fault /\ told # {}
                      /\ msgs' = msgs
                      /\ sweep' = [sweep EXCEPT ![r] = NoSweep]
           ELSE /\ sweep' = [sweep EXCEPT ![r] = NoSweep]
                /\ UNCHANGED <<products, msgs, faults>>
      /\ UNCHANGED <<orderVars, ptask, reservedEver>>

\* resolveProduct, deleteProduct and deleteProductAsAdmin: read and check ...
LoadCatalogRequest(w, op, p) ==
  /\ ptask[w] = Idle
  /\ Exists(p)
  /\ op = "delete" => products[p].status \notin {"RESERVED", "SOLD"}
  /\ ptask' = [ptask EXCEPT ![w] =
                 [op |-> IF op = "adminDelete" THEN "delete" ELSE op, product |-> p,
                  seen |-> products[p], from |-> {}]]
  /\ UNCHANGED <<orderVars, products, sweep, reservedEver, msgs, faults>>

\* ... then write.
FinishCatalogRequest(w) ==
  LET t == ptask[w]
      p == t.product
      to == CASE t.op = "approve" -> "AVAILABLE"
              [] t.op = "reject"  -> "REJECTED"
              [] OTHER            -> "DELETED"
  IN  /\ t # Idle /\ t.op \in {"approve", "reject", "delete"}
      /\ IF ~Exists(p) THEN UNCHANGED products
         ELSE products' = [products EXCEPT ![p] =
                IF to = "DELETED" THEN [status |-> to, holder |-> NoOrder]
                ELSE Changed(@, t.seen, [t.seen EXCEPT !.status = to])]
      /\ ptask' = [ptask EXCEPT ![w] = Idle]
      /\ UNCHANGED <<orderVars, sweep, reservedEver, msgs, faults>>

\* A product-service process dies: its event comes again, its sweep is gone.
CrashProductReplica(r) ==
  /\ ptask[r] # Idle \/ sweep[r] # NoSweep
  /\ Fault
  /\ msgs' = IF ptask[r] = Idle THEN msgs ELSE msgs \cup ptask[r].from
  /\ ptask' = [ptask EXCEPT ![r] = Idle]
  /\ sweep' = [sweep EXCEPT ![r] = NoSweep]
  /\ UNCHANGED <<orderVars, products, reservedEver>>

-----------------------------------------------------------------------------
Request ==
  \E w \in HttpWorkers, o \in Orders :
    \/ CheckoutOrder(w, o)
    \/ \E op \in Ops : LoadRequest(w, op, o)

OrderConsumer == \E r \in OrderReplicas, m \in msgs : Consume(r, m)

ProductConsumer ==
  \E r \in ProductReplicas :
    \/ \E m \in msgs : AnswerCreated(r, m) \/ ConsumeOrderEvent(r, m)
    \/ Reserve(r)
    \/ SaveProduct(r)

Sweeper ==
  \E r \in ProductReplicas :
    \/ \E expired \in SUBSET Products : StartSweep(r, expired)
    \/ \E p \in Products : SweepOne(r, p)

Catalog ==
  \E w \in CatalogWorkers :
    \/ \E op \in CatalogOps, p \in Products : LoadCatalogRequest(w, op, p)
    \/ FinishCatalogRequest(w)

Crash ==
  \/ \E w \in Workers : CrashOrderWorker(w)
  \/ \E r \in ProductReplicas : CrashProductReplica(r)

Next ==
  \/ Request
  \/ OrderConsumer
  \/ \E w \in Workers : SaveOrder(w)
  \/ ProductConsumer
  \/ Sweeper
  \/ Catalog
  \/ Crash

Spec == Init /\ [][Next]_vars

\* Processes keep running, Kafka delivers every event it accepted, and a
\* sweep (every minute) finds a reservation that ran out.
Deliver(m) ==
  \/ \E r \in OrderReplicas : Consume(r, m)
  \/ \E r \in ProductReplicas : AnswerCreated(r, m) \/ ConsumeOrderEvent(r, m)

Fairness ==
  /\ \A w \in Workers : WF_vars(SaveOrder(w))
  /\ \A r \in ProductReplicas :
       /\ WF_vars(Reserve(r) \/ SaveProduct(r))
       /\ \A p \in Products : WF_vars(SweepOne(r, p))
  /\ \A w \in CatalogWorkers : WF_vars(FinishCatalogRequest(w))
  /\ \A m \in Message : SF_vars(Deliver(m))
  /\ \A p \in Products : SF_vars(\E r \in ProductReplicas, S \in SUBSET Products :
                                    p \in S /\ StartSweep(r, S))

FairSpec == Spec /\ Fairness
-----------------------------------------------------------------------------
(* What the saga promises.                                                  *)

\* An order is only ever completed after product-service reserved its product
\* for it at some time: whatever overtakes what, confirmOrder cannot close an
\* order the saga never got a reservation for.
CompletedWasReserved ==
  \A o \in Orders :
    orders[o] # NoDoc => (orders[o].status = "COMPLETED" => o \in reservedEver)

\* Lost updates lose whole updates and never mix two: whatever interleaves, a
\* stored row is one that handlers running one after another could have left
\* (Coherent says what that means for disputes, no-shows and cash).
RowsAreCoherent == \A o \in Orders : orders[o] # NoDoc => Coherent(orders[o])

\* A product is SOLD only if an order for it was completed in order-service's
\* own database: two databases agree through Kafka on every sale.
SoldWasCompleted ==
  \A p \in Products :
    products[p].status = "SOLD" => \E o \in completedEver : productOf[o] = p

\* A RESERVED product names the order it is kept for, an order that exists and
\* is for this product, so its cancellation or its expiry can release it: the
\* field-wise saves of racing handlers never leave RESERVED with no holder.
ReservedNamesItsOrder ==
  \A p \in Products :
    products[p].status = "RESERVED" =>
      /\ products[p].holder \in Orders
      /\ orders[products[p].holder] # NoDoc
      /\ productOf[products[p].holder] = p

\* A reservation passes from one order to another only by being released in
\* between: of two order.created events for one product, the second loses.
NoStolenReservation ==
  [][\A p \in Products :
       products[p].status = "RESERVED" /\ products'[p].status = "RESERVED" =>
         products'[p].holder = products[p].holder]_vars

\* No reservation lasts for ever, however the saga went wrong: cancelled orders,
\* lost events and crashed processes are all cleaned up by the sweep.
HeldFor(p, o) == products[p].status = "RESERVED" /\ products[p].holder = o

ReservationsEnd ==
  \A p \in Products, o \in Orders : HeldFor(p, o) ~> ~HeldFor(p, o)

\* The row stands at its first status.
Pending(o) == IF orders[o] = NoDoc THEN FALSE ELSE orders[o].status = "PENDING"

-----------------------------------------------------------------------------
(* What the code and its documents say of the system and the runs refute.   *)

\* The status of an order changes as VALID_TRANSITIONS allows.
StatusFollowsTable ==
  [][\A o \in Orders :
       orders[o] # NoDoc /\ orders'[o].status # orders[o].status =>
         orders'[o].status \in VALID_TRANSITIONS[orders[o].status]]_vars

\* Every order that was placed leaves PENDING, also when its event was lost.
PlacedOrdersAreAnswered == \A o \in Orders : Pending(o) ~> ~Pending(o)

\* SOLD is permanent.
SoldIsPermanent ==
  [][\A p \in Products :
       products[p].status = "SOLD" => products'[p].status = "SOLD"]_vars

=============================================================================
