-------------------------- MODULE OrderSagaProofs --------------------------
(* Proofs about OrderSaga: its type invariant and its safety invariants.   *)
EXTENDS OrderSaga, OrderDocumentProofs

-----------------------------------------------------------------------------
(* Type correctness.                                                        *)

LEMMA SavesAreDocs ==
  ASSUME NEW op \in RequestOps \cup SagaOps, NEW d \in Doc, NEW e \in Saves(op, d)
  PROVE  e \in Doc
  BY RequestFacts, MarkAwaitingFacts, CancelOrderFacts DEF SagaOps, Follows

LEMMA ChangedIsAProduct ==
  ASSUME NEW now \in ProductDoc, NEW seen \in ProductDoc, NEW new \in ProductDoc
  PROVE  Changed(now, seen, new) \in ProductDoc
  BY DEF Changed, ProductDoc

LEMMA OutcomesAreProducts == Freed \in ProductDoc /\ Sold \in ProductDoc
  BY DEF Freed, Sold, ProductDoc

LEMMA AnswersAreMessages ==
  ASSUME NEW o \in Orders,
         NEW topic \in OrderTopics \cup ProductTopics
  PROVE  Msg(topic, o) \in Message
  BY DEF Msg, Message

LEMMA EventsAreMessages ==
  ASSUME NEW t \in Task
  PROVE  Events(t) \subseteq Message
  <1>1. Announces(t.op) \subseteq ProductTopics
    BY DEF Announces, ProductTopics
  <1>2. t.order \in Orders
    BY DEF Task
  <1> QED
    BY <1>1, <1>2, AnswersAreMessages DEF Events, ProductTopics

LEMMA TypeInit == Init => TypeOK
  BY DEF Init, TypeOK, NoSweep, ProductDoc

LEMMA CheckoutType ==
  ASSUME TypeOK, NEW w \in Workers, NEW o \in Orders, CheckoutOrder(w, o)
  PROVE  TypeOK'
  <1>1. PICK method \in Methods :
          task' = [task EXCEPT ![w] = [op |-> "createOrder", order |-> o,
                                       saved |-> NewDoc(method), from |-> {}]]
    BY DEF CheckoutOrder
  <1>2. NewDoc(method) \in Doc
    BY OpsAssumption, NewDocFacts
  <1>3. [op |-> "createOrder", order |-> o, saved |-> NewDoc(method), from |-> {}] \in Task
    BY <1>2 DEF Task
  <1> QED
    BY <1>1, <1>3 DEF TypeOK, CheckoutOrder, productVars

LEMMA LoadRequestType ==
  ASSUME TypeOK, NEW w \in Workers, NEW op \in RequestOps, NEW o \in Orders,
         LoadRequest(w, op, o)
  PROVE  TypeOK'
  <1>1. PICK d \in Saves(op, orders[o]) :
          task' = [task EXCEPT ![w] = [op |-> op, order |-> o, saved |-> d, from |-> {}]]
    BY DEF LoadRequest
  <1>2. orders[o] \in Doc
    BY DEF TypeOK, LoadRequest
  <1>3. d \in Doc
    BY <1>1, <1>2, SavesAreDocs
  <1>4. [op |-> op, order |-> o, saved |-> d, from |-> {}] \in Task
    BY <1>3 DEF Task
  <1> QED
    BY <1>1, <1>4 DEF TypeOK, LoadRequest, productVars

LEMMA ConsumeType ==
  ASSUME TypeOK, NEW r \in Workers, NEW m \in msgs, Consume(r, m)
  PROVE  TypeOK'
  <1>1. m \in Message /\ m.order \in Orders
    BY DEF TypeOK, Message
  <1>2. OpFor(m.topic) \in SagaOps
    BY DEF OpFor, SagaOps
  <1>3. orders[m.order] \in Doc
    BY <1>1 DEF TypeOK, Consume
  <1>4. task' \in [Workers -> Task \cup {Idle}]
    <2>1. CASE UNCHANGED task
      BY <2>1 DEF TypeOK
    <2>2. ASSUME NEW d \in Saves(OpFor(m.topic), orders[m.order]),
                 task' = [task EXCEPT ![r] = [op |-> OpFor(m.topic), order |-> m.order,
                                              saved |-> d, from |-> {m}]]
          PROVE  task' \in [Workers -> Task \cup {Idle}]
      <3>1. d \in Doc
        BY <1>2, <1>3, SavesAreDocs
      <3>2. [op |-> OpFor(m.topic), order |-> m.order, saved |-> d, from |-> {m}] \in Task
        BY <3>1, <1>1, <1>2 DEF Task
      <3> QED
        BY <2>2, <3>2 DEF TypeOK
    <2> QED
      BY <2>1, <2>2 DEF Consume
  <1> QED
    BY <1>4 DEF TypeOK, Consume, productVars

LEMMA SaveOrderType ==
  ASSUME TypeOK, NEW w \in Workers, SaveOrder(w)
  PROVE  TypeOK'
  <1> DEFINE t == task[w]
  <1>1. t \in Task
    BY DEF TypeOK, SaveOrder
  <1>2. t.order \in Orders /\ t.saved \in Doc /\ t.from \subseteq Message
    BY <1>1 DEF Task
  <1>3. Events(t) \subseteq Message
    BY <1>1, EventsAreMessages
  <1>4. AfterFailure(t) \in Task \cup {Idle}
    BY <1>1 DEF AfterFailure, Task
  <1>5. orders' \in [Orders -> Doc \cup {NoDoc}]
    BY <1>2 DEF TypeOK, SaveOrder, Upsert
  <1>6. completedEver' \in SUBSET Orders
    BY <1>2 DEF TypeOK, SaveOrder
  <1>7. msgs' \in SUBSET Message
    BY <1>2, <1>3 DEF TypeOK, SaveOrder
  <1>8. task' \in [Workers -> Task \cup {Idle}]
    BY <1>4 DEF TypeOK, SaveOrder
  <1>9. faults' \in Nat
    BY DEF TypeOK, SaveOrder, Fault
  <1> QED
    BY <1>5, <1>6, <1>7, <1>8, <1>9 DEF TypeOK, SaveOrder, productVars

LEMMA CrashOrderWorkerType ==
  ASSUME TypeOK, NEW w \in Workers, CrashOrderWorker(w)
  PROVE  TypeOK'
  <1>1. task[w] \in Task /\ task[w].from \subseteq Message
    BY DEF TypeOK, CrashOrderWorker, Task
  <1> QED
    BY <1>1 DEF TypeOK, CrashOrderWorker, Fault, productVars

LEMMA AnswerCreatedType ==
  ASSUME TypeOK, NEW r \in ProductReplicas, NEW m \in msgs, AnswerCreated(r, m)
  PROVE  TypeOK'
  <1> DEFINE topic == IF /\ products[productOf[m.order]].status = "RESERVED"
                         /\ products[productOf[m.order]].holder = m.order
                        THEN "product.reserved" ELSE "product.reserve.failed"
  <1>1. m \in Message /\ m.order \in Orders
    BY DEF TypeOK, Message
  <1>2. Msg(topic, m.order) \in Message
    BY <1>1, AnswersAreMessages DEF OrderTopics
  <1>3. msgs' \in SUBSET Message
    BY <1>1, <1>2 DEF TypeOK, AnswerCreated
  <1> QED
    BY <1>3 DEF TypeOK, AnswerCreated, Fault, orderVars, productVars

LEMMA ConsumeOrderEventType ==
  ASSUME TypeOK, NEW r \in ProductReplicas, NEW m \in msgs, ConsumeOrderEvent(r, m)
  PROVE  TypeOK'
  <1> DEFINE p == productOf[m.order]
  <1>1. m \in Message /\ p \in Products
    BY OrdersAssumption DEF TypeOK, Message
  <1>2. ptask' \in [PWorkers -> PTask \cup {Idle}]
    <2>1. CASE UNCHANGED ptask
      BY <2>1 DEF TypeOK
    <2>2. ASSUME NEW op \in Wanted(m, products[p]),
                 ptask' = [ptask EXCEPT ![r] = [op |-> op, product |-> p,
                                                seen |-> products[p], from |-> {m}]]
          PROVE  ptask' \in [PWorkers -> PTask \cup {Idle}]
      <3>1. op \in {"reserve", "sell", "release"}
        BY DEF Wanted
      <3>2. products[p] \in ProductDoc
        BY <1>1 DEF TypeOK
      <3>3. [op |-> op, product |-> p, seen |-> products[p], from |-> {m}] \in PTask
        BY <3>1, <3>2, <1>1 DEF PTask
      <3> QED
        BY <2>2, <3>3 DEF TypeOK
    <2> QED
      BY <2>1, <2>2 DEF ConsumeOrderEvent
  <1> QED
    BY <1>2 DEF TypeOK, ConsumeOrderEvent, orderVars

LEMMA ReserveType ==
  ASSUME TypeOK, NEW r \in ProductReplicas, Reserve(r)
  PROVE  TypeOK'
  <1> DEFINE t == ptask[r]
             topic == IF Free(t.product) THEN "product.reserved"
                                         ELSE "product.reserve.failed"
  <1>1. t \in PTask
    BY DEF TypeOK, Reserve, PWorkers
  <1>2. t.product \in Products /\ t.from \subseteq Message
    BY <1>1 DEF PTask
  <1>3. PICK m \in t.from :
          /\ IF Free(t.product)
               THEN /\ products' = [products EXCEPT ![t.product] =
                                      [status |-> "RESERVED", holder |-> m.order]]
                    /\ reservedEver' = reservedEver \cup {m.order}
               ELSE UNCHANGED <<products, reservedEver>>
          /\ \/ msgs' = msgs \cup {Msg(topic, m.order)} /\ UNCHANGED faults
             \/ Fault /\ msgs' \in {msgs, msgs \cup {m}, msgs \cup {m, Msg(topic, m.order)}}
    BY DEF Reserve
  <1>4. m \in Message /\ m.order \in Orders
    BY <1>2 DEF Message
  <1>5. Msg(topic, m.order) \in Message
    BY <1>4, AnswersAreMessages DEF OrderTopics
  <1>6. msgs' \in SUBSET Message /\ faults' \in Nat
    BY <1>3, <1>4, <1>5 DEF TypeOK, Fault
  <1>7. [status |-> "RESERVED", holder |-> m.order] \in ProductDoc
    BY <1>4 DEF ProductDoc
  <1>8. products' \in [Products -> ProductDoc] /\ reservedEver' \in SUBSET Orders
    BY <1>2, <1>3, <1>4, <1>7 DEF TypeOK
  <1> QED
    BY <1>6, <1>8 DEF TypeOK, Reserve, orderVars

LEMMA SaveProductType ==
  ASSUME TypeOK, NEW r \in ProductReplicas, SaveProduct(r)
  PROVE  TypeOK'
  <1> DEFINE t == ptask[r]
             new == IF t.op = "sell" THEN Sold ELSE Freed
  <1>1. t \in PTask
    BY DEF TypeOK, SaveProduct, PWorkers
  <1>2. t.product \in Products /\ t.seen \in ProductDoc /\ t.from \subseteq Message
    BY <1>1 DEF PTask
  <1>3. Changed(products[t.product], t.seen, new) \in ProductDoc
    BY <1>2, ChangedIsAProduct, OutcomesAreProducts DEF TypeOK
  <1>4. products' \in [Products -> ProductDoc]
    BY <1>2, <1>3 DEF TypeOK, SaveProduct
  <1>5. msgs' \in SUBSET Message /\ faults' \in Nat
    BY <1>2 DEF TypeOK, SaveProduct, Fault
  <1> QED
    BY <1>4, <1>5 DEF TypeOK, SaveProduct, orderVars

LEMMA StartSweepType ==
  ASSUME TypeOK, NEW r \in ProductReplicas, NEW expired \in SUBSET Products,
         StartSweep(r, expired)
  PROVE  TypeOK'
  BY DEF TypeOK, StartSweep, orderVars

LEMMA SweepOneType ==
  ASSUME TypeOK, NEW r \in ProductReplicas, NEW p \in Products, SweepOne(r, p)
  PROVE  TypeOK'
  <1> DEFINE seen == sweep[r][p]
             told == {Msg("product.reserve.expired", o) : o \in {seen.holder} \ {NoOrder}}
  <1>1. seen \in ProductDoc
    BY DEF TypeOK, SweepOne
  <1>2. told \subseteq Message
    BY <1>1, AnswersAreMessages DEF ProductDoc, OrderTopics
  <1>3. Changed(products[p], seen, Freed) \in ProductDoc
    BY <1>1, ChangedIsAProduct, OutcomesAreProducts DEF TypeOK
  <1>4. products' \in [Products -> ProductDoc]
    BY <1>3 DEF TypeOK, SweepOne
  <1>5. sweep' \in [ProductReplicas -> [Products -> ProductDoc \cup {NoDoc}]]
    BY DEF TypeOK, SweepOne, NoSweep
  <1>6. msgs' \in SUBSET Message /\ faults' \in Nat
    BY <1>2 DEF TypeOK, SweepOne, Fault
  <1> QED
    BY <1>4, <1>5, <1>6 DEF TypeOK, SweepOne, orderVars

LEMMA LoadCatalogType ==
  ASSUME TypeOK, NEW w \in CatalogWorkers, NEW op \in CatalogOps, NEW p \in Products,
         LoadCatalogRequest(w, op, p)
  PROVE  TypeOK'
  <1>1. op \in {"approve", "reject", "delete", "adminDelete"}
    BY OpsAssumption
  <1>2. [op |-> IF op = "adminDelete" THEN "delete" ELSE op, product |-> p,
         seen |-> products[p], from |-> {}] \in PTask
    BY <1>1 DEF TypeOK, PTask
  <1> QED
    BY <1>2 DEF TypeOK, LoadCatalogRequest, orderVars

LEMMA FinishCatalogType ==
  ASSUME TypeOK, NEW w \in CatalogWorkers, FinishCatalogRequest(w)
  PROVE  TypeOK'
  <1> DEFINE t == ptask[w]
             to == CASE t.op = "approve" -> "AVAILABLE"
                     [] t.op = "reject"  -> "REJECTED"
                     [] OTHER            -> "DELETED"
  <1>1. t \in PTask
    BY DEF TypeOK, FinishCatalogRequest, PWorkers
  <1>2. t.product \in Products /\ t.seen \in ProductDoc
    BY <1>1 DEF PTask
  <1>3. to \in {"AVAILABLE", "REJECTED", "DELETED"}
    OBVIOUS
  <1>4. [t.seen EXCEPT !.status = to] \in ProductDoc
    BY <1>2, <1>3 DEF ProductDoc
  <1>5. Changed(products[t.product], t.seen, [t.seen EXCEPT !.status = to]) \in ProductDoc
    BY <1>2, <1>4, ChangedIsAProduct DEF TypeOK
  <1>6. [status |-> to, holder |-> NoOrder] \in ProductDoc
    BY <1>3 DEF ProductDoc
  <1> HIDE DEF to
  <1>7. products' \in [Products -> ProductDoc]
    BY <1>2, <1>5, <1>6 DEF TypeOK, FinishCatalogRequest, to
  <1> QED
    BY <1>7 DEF TypeOK, FinishCatalogRequest, orderVars

LEMMA CrashProductReplicaType ==
  ASSUME TypeOK, NEW r \in ProductReplicas, CrashProductReplica(r)
  PROVE  TypeOK'
  <1>1. ptask[r] # Idle => ptask[r].from \subseteq Message
    BY DEF TypeOK, PWorkers, PTask
  <1>2. NoSweep \in [Products -> ProductDoc \cup {NoDoc}]
    BY DEF NoSweep
  <1>3. /\ sweep' \in [ProductReplicas -> [Products -> ProductDoc \cup {NoDoc}]]
        /\ ptask' \in [PWorkers -> PTask \cup {Idle}]
    BY <1>2 DEF TypeOK, CrashProductReplica
  <1>4. msgs' \in SUBSET Message /\ faults' \in Nat
    BY <1>1 DEF TypeOK, CrashProductReplica, Fault
  <1> QED
    BY <1>3, <1>4 DEF TypeOK, CrashProductReplica, orderVars

LEMMA TypeNext == TypeOK /\ [Next]_vars => TypeOK'
  <1> SUFFICES ASSUME TypeOK, [Next]_vars PROVE TypeOK'
    OBVIOUS
  <1>1. CASE Request
    BY <1>1, OpsAssumption, CheckoutType, LoadRequestType DEF Request, Workers
  <1>2. CASE OrderConsumer
    BY <1>2, ConsumeType DEF OrderConsumer, Workers
  <1>3. CASE \E w \in Workers : SaveOrder(w)
    BY <1>3, SaveOrderType
  <1>4. CASE ProductConsumer
    BY <1>4, AnswerCreatedType, ConsumeOrderEventType, ReserveType, SaveProductType
       DEF ProductConsumer
  <1>5. CASE Sweeper
    BY <1>5, StartSweepType, SweepOneType DEF Sweeper
  <1>6. CASE Catalog
    BY <1>6, LoadCatalogType, FinishCatalogType DEF Catalog
  <1>7. CASE Crash
    BY <1>7, CrashOrderWorkerType, CrashProductReplicaType DEF Crash
  <1>8. CASE UNCHANGED vars
    BY <1>8 DEF vars, TypeOK
  <1> QED
    BY <1>1, <1>2, <1>3, <1>4, <1>5, <1>6, <1>7, <1>8 DEF Next

\* Every variable keeps its type.
THEOREM TypeCorrect == Spec => []TypeOK
  <1> QED
    BY TypeInit, TypeNext, PTL DEF Spec

-----------------------------------------------------------------------------
(* The inductive invariant.  Rows and documents alone are not enough: what  *)
(* makes them right is what the events in flight, the half-done handlers    *)
(* and the sweeps already know.                                             *)

\* An event vouches for what happened before it was sent.
Backed(m) ==
  /\ orders[m.order] # NoDoc
  /\ m.topic = "product.reserved" => m.order \in reservedEver
  /\ m.topic = "order.completed" => m.order \in completedEver

MsgsBacked == \A m \in msgs : Backed(m)

\* A row or a pending save of a row: coherent, and confirmable only once the
\* product was reserved.
RowOK(o, d) == Coherent(d) /\ (d.status \in Served => o \in reservedEver)

RowsOK == \A o \in Orders : orders[o] # NoDoc => RowOK(o, orders[o])

TaskOK(t) ==
  /\ RowOK(t.order, t.saved)
  /\ t.op = "confirmOrder" => t.saved.status = "COMPLETED"
  /\ t.op # "createOrder" => orders[t.order] # NoDoc
  /\ \A m \in t.from : Backed(m)

TasksOK == \A w \in Workers : task[w] # Idle => TaskOK(task[w])

\* An order a product may be RESERVED for.
HolderOK(p, o) ==
  /\ o \in Orders
  /\ orders[o] # NoDoc
  /\ productOf[o] = p
  /\ o \in reservedEver

SoldOK(p) == \E o \in completedEver : productOf[o] = p

PTaskOK(t) ==
  /\ \A m \in t.from : Backed(m) /\ productOf[m.order] = t.product
  /\ t.op = "sell" => SoldOK(t.product) /\ t.seen.status # "SOLD"
  /\ t.op = "release" => t.seen.status = "RESERVED"

PTasksOK == \A r \in PWorkers : ptask[r] # Idle => PTaskOK(ptask[r])

SweepsOK ==
  \A r \in ProductReplicas, p \in Products :
    sweep[r][p] # NoDoc =>
      sweep[r][p].status = "RESERVED" /\ HolderOK(p, sweep[r][p].holder)

ProductOK(p, d) ==
  /\ d.status = "RESERVED" => HolderOK(p, d.holder)
  /\ d.status = "SOLD" => SoldOK(p)

ProductsOK == \A p \in Products : ProductOK(p, products[p])

IInv ==
  /\ TypeOK
  /\ MsgsBacked
  /\ RowsOK
  /\ TasksOK
  /\ PTasksOK
  /\ SweepsOK
  /\ ProductsOK

-----------------------------------------------------------------------------
(* Orders are never deleted and history only grows, so what was vouched for *)
(* stays vouched for; a step then only answers for what it changes.         *)

Grows ==
  /\ \A o \in Orders : orders[o] # NoDoc => orders'[o] # NoDoc
  /\ reservedEver \subseteq reservedEver'
  /\ completedEver \subseteq completedEver'

LEMMA Monotone ==
  ASSUME Grows
  PROVE  /\ \A m \in Message : Backed(m) => Backed(m)'
         /\ \A o, d : RowOK(o, d) => RowOK(o, d)'
         /\ \A p, o : HolderOK(p, o) => HolderOK(p, o)'
         /\ \A p : SoldOK(p) => SoldOK(p)'
  BY DEF Grows, Backed, Message, RowOK, HolderOK, SoldOK

LEMMA TasksMonotone ==
  ASSUME Grows
  PROVE  /\ \A t \in Task : TaskOK(t) => TaskOK(t)'
         /\ \A t \in PTask : PTaskOK(t) => PTaskOK(t)'
         /\ \A p, d : ProductOK(p, d) => ProductOK(p, d)'
  <1>1. ASSUME NEW t \in Task, TaskOK(t) PROVE TaskOK(t)'
    <2>1. t.from \subseteq Message /\ t.order \in Orders
      BY DEF Task
    <2> QED
      BY <1>1, <2>1, Monotone DEF TaskOK, Grows
  <1>2. ASSUME NEW t \in PTask, PTaskOK(t) PROVE PTaskOK(t)'
    <2>1. t.from \subseteq Message
      BY DEF PTask
    <2> QED
      BY <1>2, <2>1, Monotone DEF PTaskOK
  <1>3. ASSUME NEW p, NEW d, ProductOK(p, d) PROVE ProductOK(p, d)'
    BY <1>3, Monotone DEF ProductOK
  <1> QED
    BY <1>1, <1>2, <1>3

LEMMA Preserved ==
  ASSUME IInv, TypeOK', Grows,
         \A m \in msgs' : m \in msgs \/ Backed(m)',
         \A o \in Orders : orders'[o] \in {orders[o], NoDoc} \/ RowOK(o, orders[o])',
         \A w \in Workers : task'[w] \in {task[w], Idle} \/ TaskOK(task[w])',
         \A r \in PWorkers : ptask'[r] \in {ptask[r], Idle} \/ PTaskOK(ptask[r])',
         \A r \in ProductReplicas, p \in Products :
           \/ sweep'[r][p] \in {sweep[r][p], NoDoc}
           \/ sweep'[r][p].status = "RESERVED" /\ HolderOK(p, sweep[r][p].holder)',
         \A p \in Products : products'[p] = products[p] \/ ProductOK(p, products[p])'
  PROVE  IInv'
  <1>1. MsgsBacked'
    BY Monotone DEF IInv, TypeOK, MsgsBacked
  <1>2. RowsOK'
    BY Monotone DEF IInv, RowsOK
  <1>3. TasksOK'
    BY TasksMonotone DEF IInv, TypeOK, TasksOK
  <1>4. PTasksOK'
    BY TasksMonotone DEF IInv, TypeOK, PTasksOK
  <1>5. SweepsOK'
    BY Monotone DEF IInv, SweepsOK
  <1>6. ProductsOK'
    BY TasksMonotone DEF IInv, ProductsOK
  <1> QED
    BY <1>1, <1>2, <1>3, <1>4, <1>5, <1>6 DEF IInv

LEMMA SafeInit == Init => IInv
  <1> SUFFICES ASSUME Init PROVE IInv
    OBVIOUS
  <1>1. TypeOK
    BY TypeInit
  <1>2. MsgsBacked /\ RowsOK /\ TasksOK /\ PTasksOK
    BY DEF Init, MsgsBacked, RowsOK, TasksOK, PTasksOK
  <1>3. SweepsOK
    BY DEF Init, SweepsOK, NoSweep
  <1>4. ProductsOK
    BY DEF Init, ProductsOK, ProductOK
  <1> QED
    BY <1>1, <1>2, <1>3, <1>4 DEF IInv

-----------------------------------------------------------------------------
(* Steps of order-service.                                                  *)

LEMMA CheckoutSafe ==
  ASSUME IInv, NEW w \in Workers, NEW o \in Orders, CheckoutOrder(w, o)
  PROVE  IInv'
  <1>1. TypeOK /\ TypeOK'
    BY CheckoutType DEF IInv
  <1>2. PICK method \in Methods :
          task' = [task EXCEPT ![w] = [op |-> "createOrder", order |-> o,
                                       saved |-> NewDoc(method), from |-> {}]]
    BY DEF CheckoutOrder
  <1>3. /\ NewDoc(method) \in Doc
        /\ RowOK(o, NewDoc(method))'
    BY OpsAssumption, NewDocFacts DEF RowOK
  <1>4. UNCHANGED <<orders, completedEver, products, ptask, sweep, reservedEver, msgs>>
    BY DEF CheckoutOrder, productVars
  <1>5. Grows
    BY <1>4 DEF Grows
  <1>6. \A v \in Workers : task'[v] \in {task[v], Idle} \/ TaskOK(task[v])'
    <2>1. task'[w] = [op |-> "createOrder", order |-> o, saved |-> NewDoc(method),
                      from |-> {}]
      BY <1>1, <1>2 DEF TypeOK
    <2>2. TaskOK(task[w])'
      BY <2>1, <1>3 DEF TaskOK
    <2> QED
      BY <1>1, <1>2, <2>2 DEF TypeOK
  <1> QED
    BY <1>1, <1>4, <1>5, <1>6, Preserved

LEMMA LoadRequestSafe ==
  ASSUME IInv, NEW w \in Workers, NEW op \in RequestOps, NEW o \in Orders,
         LoadRequest(w, op, o)
  PROVE  IInv'
  <1>1. TypeOK /\ TypeOK'
    BY LoadRequestType DEF IInv
  <1>2. PICK d \in Saves(op, orders[o]) :
          task' = [task EXCEPT ![w] = [op |-> op, order |-> o, saved |-> d, from |-> {}]]
    BY DEF LoadRequest
  <1>3. UNCHANGED <<orders, completedEver, products, ptask, sweep, reservedEver, msgs>>
    BY DEF LoadRequest, productVars
  <1>4. Grows
    BY <1>3 DEF Grows
  <1>5. orders[o] \in Doc /\ orders[o] # NoDoc /\ RowOK(o, orders[o])
    BY <1>1 DEF TypeOK, LoadRequest, IInv, RowsOK
  <1>6. /\ Follows(orders[o], d)
        /\ op = "confirmOrder" => d.status = "COMPLETED"
    BY <1>2, <1>5, RequestFacts
  <1>7. RowOK(o, d)'
    BY <1>3, <1>5, <1>6 DEF RowOK, Follows
  <1>8. \A v \in Workers : task'[v] \in {task[v], Idle} \/ TaskOK(task[v])'
    <2>1. task'[w] = [op |-> op, order |-> o, saved |-> d, from |-> {}]
      BY <1>1, <1>2 DEF TypeOK
    <2>2. TaskOK(task[w])'
      BY <2>1, <1>3, <1>5, <1>6, <1>7 DEF TaskOK
    <2> QED
      BY <1>1, <1>2, <2>2 DEF TypeOK
  <1> QED
    BY <1>1, <1>3, <1>4, <1>8, Preserved

LEMMA ConsumeSafe ==
  ASSUME IInv, NEW r \in Workers, NEW m \in msgs, Consume(r, m)
  PROVE  IInv'
  <1> DEFINE op == OpFor(m.topic)
             o  == m.order
  <1>1. TypeOK /\ TypeOK'
    BY ConsumeType DEF IInv
  <1>2. m \in Message /\ o \in Orders /\ Backed(m)
    BY <1>1 DEF TypeOK, Message, IInv, MsgsBacked
  <1>3. /\ UNCHANGED <<orders, completedEver, products, ptask, sweep, reservedEver>>
        /\ msgs' \subseteq msgs
    BY DEF Consume, productVars
  <1>4. Grows
    BY <1>3 DEF Grows
  <1>5. orders[o] \in Doc /\ orders[o] # NoDoc /\ RowOK(o, orders[o])
    BY <1>1, <1>2 DEF TypeOK, Consume, IInv, RowsOK
  <1>6. \A v \in Workers : task'[v] \in {task[v], Idle} \/ TaskOK(task[v])'
    <2>1. CASE UNCHANGED task
      BY <2>1
    <2>2. ASSUME NEW d \in Saves(op, orders[o]),
                 task' = [task EXCEPT ![r] = [op |-> op, order |-> o,
                                              saved |-> d, from |-> {m}]]
          PROVE  \A v \in Workers : task'[v] \in {task[v], Idle} \/ TaskOK(task[v])'
      <3>1. op \in SagaOps
        BY DEF OpFor, SagaOps
      <3>2. RowOK(o, d)'
        <4>1. CASE m.topic = "product.reserved"
          <5>1. o \in reservedEver /\ op = "markAwaitingSellerConfirmation"
            BY <4>1, <1>2 DEF Backed, OpFor
          <5> QED
            BY <5>1, <1>3, <1>5, <2>2, MarkAwaitingFacts DEF RowOK
        <4>2. CASE m.topic # "product.reserved"
          <5>1. op = "cancelOrder"
            BY <4>2 DEF OpFor
          <5>2. Follows(orders[o], d)
            BY <5>1, <1>5, <2>2, CancelOrderFacts
          <5> QED
            BY <5>2, <1>3, <1>5 DEF RowOK, Follows
        <4> QED
          BY <4>1, <4>2
      <3>3. task'[r] = [op |-> op, order |-> o, saved |-> d, from |-> {m}]
        BY <1>1, <2>2 DEF TypeOK
      <3>4. Backed(m)'
        BY <1>2, <1>4, Monotone
      <3>5. op # "confirmOrder"
        BY DEF OpFor
      <3> HIDE DEF op
      <3>6. TaskOK(task[r])'
        BY <3>2, <3>3, <3>4, <3>5, <1>3, <1>5 DEF TaskOK
      <3> QED
        BY <1>1, <2>2, <3>6 DEF TypeOK
    <2> QED
      BY <2>1, <2>2 DEF Consume
  <1> QED
    BY <1>1, <1>3, <1>4, <1>6, Preserved

LEMMA SaveOrderSafe ==
  ASSUME IInv, NEW w \in Workers, SaveOrder(w)
  PROVE  IInv'
  <1>t. PICK t : t = task[w]
    OBVIOUS
  <1>1. TypeOK /\ TypeOK' /\ t = task[w]
    BY <1>t, SaveOrderType DEF IInv
  <1>2. t \in Task /\ TaskOK(t) /\ t # Idle
    BY <1>1 DEF TypeOK, SaveOrder, IInv, TasksOK
  <1>3. t.order \in Orders /\ t.saved \in Doc /\ t.from \subseteq Message
    BY <1>2 DEF Task
  <1>4. /\ orders' = [orders EXCEPT ![t.order] = t.saved]
        /\ UNCHANGED <<products, ptask, sweep, reservedEver>>
    BY <1>1 DEF SaveOrder, Upsert, productVars
  <1>5. orders'[t.order] = t.saved /\ t.saved # NoDoc
    BY <1>1, <1>3, <1>4, OrdersAssumption DEF TypeOK
  <1>6. t.saved.status = "COMPLETED" => t.order \in completedEver'
    BY <1>1, <1>5 DEF SaveOrder
  <1>7. Grows
    BY <1>1, <1>3, <1>4, <1>5 DEF Grows, TypeOK, SaveOrder
  <1>8. \A o \in Orders : orders'[o] \in {orders[o], NoDoc} \/ RowOK(o, orders[o])'
    <2>1. RowOK(t.order, orders[t.order])'
      BY <1>2, <1>4, <1>5 DEF TaskOK, RowOK
    <2> QED
      BY <1>1, <1>3, <1>4, <2>1 DEF TypeOK
  <1>9. \A m \in msgs' : m \in msgs \/ Backed(m)'
    <2>1. msgs' \subseteq msgs \cup Events(t) \cup t.from
      BY <1>1 DEF SaveOrder
    <2>2. ASSUME NEW m \in Events(t) PROVE Backed(m)'
      <3>1. /\ m.order = t.order
            /\ m.topic \in {"order.created"} \cup Announces(t.op)
        BY <2>2 DEF Events, Msg
      <3>2. m.topic \in {"order.created", "order.completed", "order.cancelled"}
        BY <3>1 DEF Announces
      <3>3. m.topic = "order.completed" => t.op = "confirmOrder"
        BY <3>1 DEF Announces
      <3>4. m.topic = "order.completed" => m.order \in completedEver'
        BY <3>1, <3>3, <1>2, <1>6 DEF TaskOK
      <3> QED
        BY <3>1, <3>2, <3>4, <1>5 DEF Backed
    <2>3. ASSUME NEW m \in t.from PROVE Backed(m)'
      BY <2>3, <1>2, <1>3, <1>7, Monotone DEF TaskOK
    <2> QED
      BY <2>1, <2>2, <2>3
  <1>10. \A v \in Workers : task'[v] \in {task[v], Idle} \/ TaskOK(task[v])'
    <2>1. task' = [task EXCEPT ![w] = Idle] \/ task' = [task EXCEPT ![w] = AfterFailure(t)]
      BY <1>1 DEF SaveOrder
    <2>2. CASE task' = [task EXCEPT ![w] = Idle]
      BY <2>2, <1>1 DEF TypeOK
    <2>3. CASE task' = [task EXCEPT ![w] = AfterFailure(t)]
      <3>1. task'[w] = AfterFailure(t)
        BY <2>3, <1>1 DEF TypeOK
      <3>2. CASE t.op = "createOrder"
        <4>1. /\ AfterFailure(t).op = "markPublishFailed"
              /\ AfterFailure(t).order = t.order
              /\ AfterFailure(t).saved = t.saved
              /\ AfterFailure(t).from = t.from
          BY <3>2, <1>2 DEF AfterFailure, Task
        <4>2. \A m \in t.from : Backed(m)'
          BY <1>2, <1>3, <1>7, Monotone DEF TaskOK
        <4>3. RowOK(t.order, t.saved)'
          BY <1>2, <1>4 DEF TaskOK, RowOK
        <4>4. TaskOK(task[w])'
          BY <3>1, <4>1, <4>2, <4>3, <1>5 DEF TaskOK, RowOK
        <4> QED
          BY <2>3, <4>4, <1>1 DEF TypeOK
      <3>3. CASE t.op # "createOrder"
        BY <2>3, <3>3, <1>1 DEF AfterFailure, TypeOK
      <3> QED
        BY <3>2, <3>3
    <2> QED
      BY <2>1, <2>2, <2>3
  <1> QED
    BY <1>1, <1>4, <1>7, <1>8, <1>9, <1>10, Preserved

LEMMA CrashOrderWorkerSafe ==
  ASSUME IInv, NEW w \in Workers, CrashOrderWorker(w)
  PROVE  IInv'
  <1>1. TypeOK /\ TypeOK'
    BY CrashOrderWorkerType DEF IInv
  <1>2. UNCHANGED <<orders, completedEver, products, ptask, sweep, reservedEver>>
    BY DEF CrashOrderWorker, productVars
  <1>3. Grows
    BY <1>2 DEF Grows
  <1>4. task[w] \in Task /\ TaskOK(task[w])
    BY <1>1 DEF TypeOK, CrashOrderWorker, IInv, TasksOK
  <1>5. \A m \in msgs' : m \in msgs \/ Backed(m)'
    BY <1>3, <1>4, Monotone DEF TaskOK, Task, CrashOrderWorker
  <1>6. \A v \in Workers : task'[v] \in {task[v], Idle}
    BY <1>1 DEF TypeOK, CrashOrderWorker
  <1> QED
    BY <1>1, <1>2, <1>3, <1>5, <1>6, Preserved

-----------------------------------------------------------------------------
(* Steps of product-service.                                                *)

LEMMA AnswerCreatedSafe ==
  ASSUME IInv, NEW r \in ProductReplicas, NEW m \in msgs, AnswerCreated(r, m)
  PROVE  IInv'
  <1>1. TypeOK /\ TypeOK'
    BY AnswerCreatedType DEF IInv
  <1>2. m \in Message /\ m.order \in Orders /\ Backed(m)
    BY <1>1 DEF TypeOK, Message, IInv, MsgsBacked
  <1>p. PICK p : p = productOf[m.order]
    OBVIOUS
  <1>a. PICK answer : answer = Msg(IF /\ products[p].status = "RESERVED"
                                      /\ products[p].holder = m.order
                                   THEN "product.reserved"
                                   ELSE "product.reserve.failed", m.order)
    OBVIOUS
  <1>3. UNCHANGED <<orders, task, completedEver, products, ptask, sweep, reservedEver>>
    BY DEF AnswerCreated, orderVars, productVars
  <1>4. Grows
    BY <1>3 DEF Grows
  <1>5. msgs' \subseteq msgs \cup {answer}
    BY <1>p, <1>a DEF AnswerCreated
  <1>6. answer.topic = "product.reserved" => m.order \in reservedEver
    <2>1. p \in Products
      BY <1>2, <1>p, OrdersAssumption
    <2>2. /\ products[p].status = "RESERVED" => HolderOK(p, products[p].holder)
      BY <2>1 DEF IInv, ProductsOK, ProductOK
    <2> QED
      BY <2>2, <1>a DEF Msg, HolderOK
  <1>7. answer.order = m.order /\ answer.topic # "order.completed"
    BY <1>a DEF Msg
  <1>8. Backed(answer)'
    BY <1>2, <1>3, <1>6, <1>7 DEF Backed
  <1> QED
    BY <1>1, <1>3, <1>4, <1>5, <1>8, Preserved

LEMMA ConsumeOrderEventSafe ==
  ASSUME IInv, NEW r \in ProductReplicas, NEW m \in msgs, ConsumeOrderEvent(r, m)
  PROVE  IInv'
  <1>1. TypeOK /\ TypeOK'
    BY ConsumeOrderEventType DEF IInv
  <1>2. m \in Message /\ m.order \in Orders /\ Backed(m)
    BY <1>1 DEF TypeOK, Message, IInv, MsgsBacked
  <1>p. PICK p : p = productOf[m.order]
    OBVIOUS
  <1>3. /\ UNCHANGED <<orders, task, completedEver, products, sweep, reservedEver>>
        /\ msgs' \subseteq msgs
    BY DEF ConsumeOrderEvent, orderVars
  <1>4. Grows
    BY <1>3 DEF Grows
  <1>5. \A v \in PWorkers : ptask'[v] \in {ptask[v], Idle} \/ PTaskOK(ptask[v])'
    <2>1. CASE UNCHANGED ptask
      BY <2>1
    <2>2. ASSUME NEW op \in Wanted(m, products[p]),
                 ptask' = [ptask EXCEPT ![r] = [op |-> op, product |-> p,
                                                seen |-> products[p], from |-> {m}]]
          PROVE  \A v \in PWorkers : ptask'[v] \in {ptask[v], Idle} \/ PTaskOK(ptask[v])'
      <3>1. Backed(m)'
        BY <1>2, <1>4, Monotone
      <3>2. /\ op = "sell" => m.topic = "order.completed" /\ products[p].status # "SOLD"
            /\ op = "release" => products[p].status = "RESERVED"
        BY <2>2 DEF Wanted
      <3>3. op = "sell" => SoldOK(p)'
        BY <3>2, <1>2, <1>3, <1>p DEF Backed, SoldOK
      <3>4. ptask'[r] = [op |-> op, product |-> p, seen |-> products[p], from |-> {m}]
        BY <1>1, <2>2 DEF TypeOK, PWorkers
      <3>5. PTaskOK(ptask[r])'
        BY <3>1, <3>2, <3>3, <3>4, <1>p DEF PTaskOK
      <3> QED
        BY <1>1, <2>2, <3>5 DEF TypeOK
    <2> QED
      BY <2>1, <2>2, <1>p DEF ConsumeOrderEvent
  <1> QED
    BY <1>1, <1>3, <1>4, <1>5, Preserved

\* The reservation is the only write that makes a product RESERVED.
LEMMA ReserveSafe ==
  ASSUME IInv, NEW r \in ProductReplicas, Reserve(r)
  PROVE  IInv'
  <1>1. TypeOK /\ TypeOK'
    BY ReserveType DEF IInv
  <1>t. PICK t : t = ptask[r]
    OBVIOUS
  <1>p. PICK p : p = t.product
    OBVIOUS
  <1>w. PICK won : won = Free(p)
    OBVIOUS
  <1>2. t \in PTask /\ PTaskOK(t) /\ t.from \subseteq Message /\ p \in Products
    BY <1>1, <1>t, <1>p DEF TypeOK, Reserve, PWorkers, IInv, PTasksOK, PTask
  <1>3. PICK m \in t.from :
          /\ IF won
               THEN /\ products' = [products EXCEPT ![p] =
                                      [status |-> "RESERVED", holder |-> m.order]]
                    /\ reservedEver' = reservedEver \cup {m.order}
               ELSE UNCHANGED <<products, reservedEver>>
          /\ msgs' \subseteq msgs \cup {m, Msg(IF won THEN "product.reserved"
                                               ELSE "product.reserve.failed", m.order)}
    BY <1>t, <1>p, <1>w DEF Reserve
  <1>4. m \in Message /\ m.order \in Orders /\ Backed(m) /\ productOf[m.order] = p
    BY <1>2, <1>3, <1>p DEF PTaskOK, Message
  <1>5. /\ UNCHANGED <<orders, task, completedEver, sweep>>
        /\ ptask' = [ptask EXCEPT ![r] = Idle]
    BY DEF Reserve, orderVars
  <1>6. Grows
    BY <1>3, <1>5 DEF Grows
  <1>a. PICK answer : answer = Msg(IF won THEN "product.reserved"
                                   ELSE "product.reserve.failed", m.order)
    OBVIOUS
  <1>7. Backed(answer)'
    <2>1. answer.order = m.order /\ answer.topic # "order.completed"
      BY <1>a DEF Msg
    <2>2. answer.topic = "product.reserved" => m.order \in reservedEver'
      BY <1>a, <1>3 DEF Msg
    <2> QED
      BY <2>1, <2>2, <1>4, <1>5 DEF Backed
  <1>8. \A n \in msgs' : n \in msgs \/ Backed(n)'
    BY <1>3, <1>4, <1>6, <1>7, <1>a, Monotone
  <1>9. \A q \in Products : products'[q] = products[q] \/ ProductOK(q, products[q])'
    <2>1. CASE won
      <3>1. products'[p] = [status |-> "RESERVED", holder |-> m.order]
        BY <2>1, <1>1, <1>2, <1>3 DEF TypeOK
      <3>2. HolderOK(p, m.order)'
        BY <2>1, <1>3, <1>4, <1>5 DEF HolderOK, Backed
      <3>3. ProductOK(p, products[p])'
        BY <3>1, <3>2 DEF ProductOK
      <3> QED
        BY <2>1, <3>3, <1>1, <1>3 DEF TypeOK
    <2>2. CASE ~won
      BY <2>2, <1>3
    <2> QED
      BY <2>1, <2>2
  <1>10. \A v \in PWorkers : ptask'[v] \in {ptask[v], Idle}
    BY <1>1, <1>5 DEF TypeOK
  <1> QED
    BY <1>1, <1>5, <1>6, <1>8, <1>9, <1>10, Preserved

LEMMA SaveProductSafe ==
  ASSUME IInv, NEW r \in ProductReplicas, SaveProduct(r)
  PROVE  IInv'
  <1>1. TypeOK /\ TypeOK'
    BY SaveProductType DEF IInv
  <1>t. PICK t : t = ptask[r]
    OBVIOUS
  <1>p. PICK p : p = t.product
    OBVIOUS
  <1>2. /\ t \in PTask /\ PTaskOK(t) /\ t.from \subseteq Message /\ p \in Products
        /\ t.op \in {"sell", "release"}
    BY <1>1, <1>t, <1>p DEF TypeOK, SaveProduct, PWorkers, IInv, PTasksOK, PTask
  <1>n. PICK new : new = IF t.op = "sell" THEN Sold ELSE Freed
    OBVIOUS
  <1>3. /\ UNCHANGED <<orders, task, completedEver, sweep, reservedEver>>
        /\ ptask' = [ptask EXCEPT ![r] = Idle]
        /\ \/ products' = [products EXCEPT ![p] = Changed(products[p], t.seen, new)]
           \/ UNCHANGED products
        /\ msgs' \subseteq msgs \cup t.from
    BY <1>t, <1>p, <1>n DEF SaveProduct, orderVars
  <1>4. Grows
    BY <1>3 DEF Grows
  <1>5. \A m \in msgs' : m \in msgs \/ Backed(m)'
    BY <1>2, <1>3, <1>4, Monotone DEF PTaskOK
  <1>6. \A q \in Products : products'[q] = products[q] \/ ProductOK(q, products[q])'
    <2>1. Changed(products[p], t.seen, new).status = new.status
      <3>1. t.seen.status # new.status
        BY <1>2, <1>n DEF PTaskOK, Sold, Freed
      <3> QED
        BY <3>1 DEF Changed
    <2>2. new.status \in {"SOLD", "AVAILABLE"} /\ (new.status = "SOLD" => SoldOK(p))
      BY <1>2, <1>n, <1>p DEF PTaskOK, Sold, Freed
    <2>3. SoldOK(p) => SoldOK(p)'
      BY <1>4, Monotone
    <2>4. CASE products' = [products EXCEPT ![p] = Changed(products[p], t.seen, new)]
      <3>1. products'[p].status = new.status
        BY <2>1, <2>4, <1>1, <1>2 DEF TypeOK
      <3>2. ProductOK(p, products[p])'
        BY <3>1, <2>2, <2>3 DEF ProductOK
      <3> QED
        BY <2>4, <3>2, <1>1 DEF TypeOK
    <2> QED
      BY <2>4, <1>3
  <1>7. \A v \in PWorkers : ptask'[v] \in {ptask[v], Idle}
    BY <1>1, <1>3 DEF TypeOK
  <1> QED
    BY <1>1, <1>3, <1>4, <1>5, <1>6, <1>7, Preserved

LEMMA StartSweepSafe ==
  ASSUME IInv, NEW r \in ProductReplicas, NEW expired \in SUBSET Products,
         StartSweep(r, expired)
  PROVE  IInv'
  <1>1. TypeOK /\ TypeOK'
    BY StartSweepType DEF IInv
  <1>2. /\ UNCHANGED <<orders, task, completedEver, products, ptask, reservedEver, msgs>>
        /\ \A p \in expired : products[p].status = "RESERVED"
        /\ sweep' = [sweep EXCEPT ![r] =
                       [p \in Products |-> IF p \in expired THEN products[p] ELSE NoDoc]]
    BY DEF StartSweep, Expirable, orderVars
  <1>3. Grows
    BY <1>2 DEF Grows
  <1>4. ASSUME NEW q \in ProductReplicas, NEW p \in Products
        PROVE  \/ sweep'[q][p] \in {sweep[q][p], NoDoc}
               \/ sweep'[q][p].status = "RESERVED" /\ HolderOK(p, sweep[q][p].holder)'
    <2>1. CASE q = r /\ p \in expired
      <3>1. sweep'[q][p] = products[p] /\ products[p].status = "RESERVED"
        BY <2>1, <1>1, <1>2 DEF TypeOK
      <3>2. HolderOK(p, products[p].holder)
        BY <3>1 DEF IInv, ProductsOK, ProductOK
      <3>3. HolderOK(p, sweep[q][p].holder)'
        BY <3>1, <3>2, <1>2 DEF HolderOK
      <3> QED
        BY <3>1, <3>3
    <2>2. CASE ~(q = r /\ p \in expired)
      BY <2>2, <1>1, <1>2 DEF TypeOK
    <2> QED
      BY <2>1, <2>2
  <1> QED
    BY <1>1, <1>2, <1>3, <1>4, Preserved

LEMMA SweepOneSafe ==
  ASSUME IInv, NEW r \in ProductReplicas, NEW p \in Products, SweepOne(r, p)
  PROVE  IInv'
  <1>1. TypeOK /\ TypeOK'
    BY SweepOneType DEF IInv
  <1>s. PICK seen : seen = sweep[r][p]
    OBVIOUS
  <1>2. seen.status = "RESERVED" /\ HolderOK(p, seen.holder)
    BY <1>s DEF SweepOne, IInv, SweepsOK
  <1>3. /\ UNCHANGED <<orders, task, completedEver, ptask, reservedEver>>
        /\ \/ products' = [products EXCEPT ![p] = Changed(products[p], seen, Freed)]
           \/ UNCHANGED products
        /\ msgs' \subseteq msgs \cup {Msg("product.reserve.expired", o) :
                                        o \in {seen.holder} \ {NoOrder}}
        /\ \/ sweep' = [sweep EXCEPT ![r] = [sweep[r] EXCEPT ![p] = NoDoc]]
           \/ sweep' = [sweep EXCEPT ![r] = NoSweep]
    BY <1>s DEF SweepOne, orderVars
  <1>4. Grows
    BY <1>3 DEF Grows
  <1>5. \A m \in msgs' : m \in msgs \/ Backed(m)'
    BY <1>2, <1>3 DEF HolderOK, Backed, Msg
  <1>6. \A q \in Products : products'[q] = products[q] \/ ProductOK(q, products[q])'
    <2>1. Changed(products[p], seen, Freed).status = "AVAILABLE"
      BY <1>2 DEF Changed, Freed
    <2>2. CASE products' = [products EXCEPT ![p] = Changed(products[p], seen, Freed)]
      <3>1. products'[p].status = "AVAILABLE"
        BY <2>1, <2>2, <1>1 DEF TypeOK
      <3>2. ProductOK(p, products[p])'
        BY <3>1 DEF ProductOK
      <3> QED
        BY <2>2, <3>2, <1>1 DEF TypeOK
    <2> QED
      BY <2>2, <1>3
  <1>7. \A q \in ProductReplicas, x \in Products : sweep'[q][x] \in {sweep[q][x], NoDoc}
    BY <1>1, <1>3 DEF TypeOK, NoSweep
  <1> QED
    BY <1>1, <1>3, <1>4, <1>5, <1>6, <1>7, Preserved

LEMMA LoadCatalogSafe ==
  ASSUME IInv, NEW w \in CatalogWorkers, NEW op \in CatalogOps, NEW p \in Products,
         LoadCatalogRequest(w, op, p)
  PROVE  IInv'
  <1>1. TypeOK /\ TypeOK'
    BY LoadCatalogType DEF IInv
  <1>2. op \in {"approve", "reject", "delete", "adminDelete"}
    BY OpsAssumption
  <1>3. UNCHANGED <<orders, task, completedEver, products, sweep, reservedEver, msgs>>
    BY DEF LoadCatalogRequest, orderVars
  <1>4. Grows
    BY <1>3 DEF Grows
  <1>5. /\ ptask'[w].op \in {"approve", "reject", "delete"}
        /\ ptask'[w].from = {}
        /\ \A v \in PWorkers : v # w => ptask'[v] = ptask[v]
    BY <1>1, <1>2 DEF TypeOK, LoadCatalogRequest, PWorkers
  <1>6. PTaskOK(ptask[w])'
    BY <1>5 DEF PTaskOK
  <1> QED
    BY <1>1, <1>3, <1>4, <1>5, <1>6, Preserved

LEMMA FinishCatalogSafe ==
  ASSUME IInv, NEW w \in CatalogWorkers, FinishCatalogRequest(w)
  PROVE  IInv'
  <1>1. TypeOK /\ TypeOK'
    BY FinishCatalogType DEF IInv
  <1>t. PICK t : t = ptask[w]
    OBVIOUS
  <1>p. PICK p : p = t.product
    OBVIOUS
  <1>to. PICK to : to = CASE t.op = "approve" -> "AVAILABLE"
                          [] t.op = "reject"  -> "REJECTED"
                          [] OTHER            -> "DELETED"
    OBVIOUS
  <1>2. t \in PTask /\ p \in Products /\ t.seen \in ProductDoc
    BY <1>1, <1>t, <1>p DEF TypeOK, FinishCatalogRequest, PWorkers, PTask
  <1>3. to \in {"AVAILABLE", "REJECTED", "DELETED"}
    BY <1>to
  <1>4. /\ UNCHANGED <<orders, task, completedEver, sweep, reservedEver, msgs>>
        /\ ptask' = [ptask EXCEPT ![w] = Idle]
        /\ \/ UNCHANGED products
           \/ products' = [products EXCEPT ![p] = [status |-> to, holder |-> NoOrder]]
           \/ products' = [products EXCEPT ![p] =
                             Changed(products[p], t.seen, [t.seen EXCEPT !.status = to])]
    BY <1>t, <1>p, <1>to DEF FinishCatalogRequest, orderVars
  <1>5. Grows
    BY <1>4 DEF Grows
  <1>6. \A q \in Products : products'[q] = products[q] \/ ProductOK(q, products[q])'
    <2>1. CASE products' = [products EXCEPT ![p] = [status |-> to, holder |-> NoOrder]]
      <3>1. products'[p].status = to
        BY <2>1, <1>1, <1>2 DEF TypeOK
      <3>2. ProductOK(p, products[p])'
        BY <3>1, <1>3 DEF ProductOK
      <3> QED
        BY <2>1, <3>2, <1>1 DEF TypeOK
    <2>2. CASE products' = [products EXCEPT ![p] =
                              Changed(products[p], t.seen, [t.seen EXCEPT !.status = to])]
      <3>1. [t.seen EXCEPT !.status = to].status = to
            /\ [t.seen EXCEPT !.status = to].holder = t.seen.holder
        BY <1>2 DEF ProductDoc
      <3>2. /\ products'[p].status \in {to, products[p].status}
            /\ products'[p].holder = products[p].holder
        BY <2>2, <3>1, <1>1, <1>2 DEF TypeOK, Changed
      <3>3. ProductOK(p, products[p])
        BY <1>2 DEF IInv, ProductsOK
      <3>4. HolderOK(p, products[p].holder) => HolderOK(p, products[p].holder)'
        BY <3>2, <1>4 DEF HolderOK
      <3>5. SoldOK(p) => SoldOK(p)'
        BY <1>5, Monotone
      <3>6. ProductOK(p, products[p])'
        BY <3>2, <3>3, <3>4, <3>5, <1>3 DEF ProductOK
      <3> QED
        BY <2>2, <3>6, <1>1 DEF TypeOK
    <2> QED
      BY <2>1, <2>2, <1>4
  <1>7. \A v \in PWorkers : ptask'[v] \in {ptask[v], Idle}
    BY <1>1, <1>4 DEF TypeOK
  <1> QED
    BY <1>1, <1>4, <1>5, <1>6, <1>7, Preserved

LEMMA CrashProductReplicaSafe ==
  ASSUME IInv, NEW r \in ProductReplicas, CrashProductReplica(r)
  PROVE  IInv'
  <1>1. TypeOK /\ TypeOK'
    BY CrashProductReplicaType DEF IInv
  <1>2. /\ UNCHANGED <<orders, task, completedEver, products, reservedEver>>
        /\ ptask' = [ptask EXCEPT ![r] = Idle]
        /\ sweep' = [sweep EXCEPT ![r] = NoSweep]
    BY DEF CrashProductReplica, orderVars
  <1>3. Grows
    BY <1>2 DEF Grows
  <1>4. ptask[r] # Idle => ptask[r] \in PTask /\ PTaskOK(ptask[r])
    BY <1>1 DEF TypeOK, PWorkers, IInv, PTasksOK
  <1>5. \A m \in msgs' : m \in msgs \/ Backed(m)'
    BY <1>3, <1>4, Monotone DEF PTaskOK, PTask, CrashProductReplica
  <1>6. /\ \A v \in PWorkers : ptask'[v] \in {ptask[v], Idle}
        /\ \A q \in ProductReplicas, p \in Products :
             sweep'[q][p] \in {sweep[q][p], NoDoc}
    BY <1>1, <1>2 DEF TypeOK, NoSweep
  <1> QED
    BY <1>1, <1>2, <1>3, <1>5, <1>6, Preserved

-----------------------------------------------------------------------------
LEMMA SafeNext == IInv /\ [Next]_vars => IInv'
  <1> SUFFICES ASSUME IInv, [Next]_vars PROVE IInv'
    OBVIOUS
  <1>1. CASE Request
    BY <1>1, OpsAssumption, CheckoutSafe, LoadRequestSafe DEF Request, Workers
  <1>2. CASE OrderConsumer
    BY <1>2, ConsumeSafe DEF OrderConsumer, Workers
  <1>3. CASE \E w \in Workers : SaveOrder(w)
    BY <1>3, SaveOrderSafe
  <1>4. CASE ProductConsumer
    BY <1>4, AnswerCreatedSafe, ConsumeOrderEventSafe, ReserveSafe, SaveProductSafe
       DEF ProductConsumer
  <1>5. CASE Sweeper
    BY <1>5, StartSweepSafe, SweepOneSafe DEF Sweeper
  <1>6. CASE Catalog
    BY <1>6, LoadCatalogSafe, FinishCatalogSafe DEF Catalog
  <1>7. CASE Crash
    BY <1>7, CrashOrderWorkerSafe, CrashProductReplicaSafe DEF Crash
  <1>8. CASE UNCHANGED vars
    <2>1. Grows
      BY <1>8 DEF vars, Grows
    <2>2. TypeOK'
      BY <1>8, TypeNext DEF IInv
    <2> QED
      BY <1>8, <2>1, <2>2, Preserved DEF vars
  <1> QED
    BY <1>1, <1>2, <1>3, <1>4, <1>5, <1>6, <1>7, <1>8 DEF Next

LEMMA Safe == Spec => []IInv
  BY SafeInit, SafeNext, PTL DEF Spec

\* An order is COMPLETED only if its product was once reserved for it, however
\* handlers of order-service and product-service, failures and redelivered
\* events interleave.
THEOREM CompletionNeedsReservation == Spec => []CompletedWasReserved
  <1>1. IInv => CompletedWasReserved
    BY DEF IInv, RowsOK, RowOK, Served, CompletedWasReserved
  <1> QED
    BY <1>1, Safe, PTL

\* Whole-row saves of stale rows never leave an incoherent row.
THEOREM RowsStayCoherent == Spec => []RowsAreCoherent
  <1>1. IInv => RowsAreCoherent
    BY DEF IInv, RowsOK, RowOK, RowsAreCoherent
  <1> QED
    BY <1>1, Safe, PTL

\* product-service sells only what order-service completed.
THEOREM SalesAreBacked == Spec => []SoldWasCompleted
  <1>1. IInv => SoldWasCompleted
    BY DEF IInv, ProductsOK, ProductOK, SoldOK, SoldWasCompleted
  <1> QED
    BY <1>1, Safe, PTL

\* Every reservation names an existing order for that product.
THEOREM ReservationsAreNamed == Spec => []ReservedNamesItsOrder
  <1>1. IInv => ReservedNamesItsOrder
    BY DEF IInv, ProductsOK, ProductOK, HolderOK, ReservedNamesItsOrder
  <1> QED
    BY <1>1, Safe, PTL

\* Only a reservation makes a product RESERVED, and only of a product that is
\* not: every other write to a product ends with another status or leaves the
\* reservation alone, because of what its handler saw when it loaded the
\* document.
KeepsHolder(p) ==
  products[p].status = "RESERVED" /\ products'[p].status = "RESERVED" =>
    products'[p].holder = products[p].holder

LEMMA ReserveKeepsHolder ==
  ASSUME IInv, NEW r \in ProductReplicas, Reserve(r), NEW p \in Products
  PROVE  KeepsHolder(p)
  <1>1. TypeOK /\ ptask[r] \in PTask
    BY DEF IInv, TypeOK, Reserve, PWorkers
  <1>2. PICK m : IF Free(ptask[r].product)
                   THEN products' = [products EXCEPT ![ptask[r].product] =
                                       [status |-> "RESERVED", holder |-> m.order]]
                   ELSE UNCHANGED products
    BY DEF Reserve
  <1> QED
    BY <1>1, <1>2 DEF TypeOK, Free, KeepsHolder

LEMMA SaveProductKeepsHolder ==
  ASSUME IInv, NEW r \in ProductReplicas, SaveProduct(r), NEW p \in Products
  PROVE  KeepsHolder(p)
  <1>t. PICK t : t = ptask[r]
    OBVIOUS
  <1>n. PICK new : new = IF t.op = "sell" THEN Sold ELSE Freed
    OBVIOUS
  <1>1. TypeOK /\ t \in PTask /\ PTaskOK(t) /\ t.op \in {"sell", "release"}
    BY <1>t DEF IInv, TypeOK, SaveProduct, PWorkers, PTasksOK
  <1>2. t.seen.status # new.status /\ new.status # "RESERVED"
    BY <1>1, <1>n DEF PTaskOK, Sold, Freed
  <1>3. Changed(products[t.product], t.seen, new).status # "RESERVED"
    BY <1>2 DEF Changed
  <1>4. \/ products' = [products EXCEPT ![t.product] =
                          Changed(products[t.product], t.seen, new)]
        \/ UNCHANGED products
    BY <1>t, <1>n DEF SaveProduct
  <1> QED
    BY <1>1, <1>3, <1>4 DEF TypeOK, KeepsHolder

LEMMA SweepOneKeepsHolder ==
  ASSUME IInv, NEW r \in ProductReplicas, NEW q \in Products, SweepOne(r, q),
         NEW p \in Products
  PROVE  KeepsHolder(p)
  <1>1. TypeOK /\ sweep[r][q].status = "RESERVED"
    BY DEF IInv, SweepsOK, SweepOne
  <1>2. Changed(products[q], sweep[r][q], Freed).status = "AVAILABLE"
    BY <1>1 DEF Changed, Freed
  <1>3. \/ products' = [products EXCEPT ![q] = Changed(products[q], sweep[r][q], Freed)]
        \/ UNCHANGED products
    BY DEF SweepOne
  <1> QED
    BY <1>1, <1>2, <1>3 DEF TypeOK, KeepsHolder

LEMMA FinishCatalogKeepsHolder ==
  ASSUME IInv, NEW w \in CatalogWorkers, FinishCatalogRequest(w), NEW p \in Products
  PROVE  KeepsHolder(p)
  <1>t. PICK t : t = ptask[w]
    OBVIOUS
  <1>to. PICK to : to = CASE t.op = "approve" -> "AVAILABLE"
                          [] t.op = "reject"  -> "REJECTED"
                          [] OTHER            -> "DELETED"
    OBVIOUS
  <1>1. TypeOK /\ t \in PTask /\ to # "RESERVED"
    BY <1>t, <1>to DEF IInv, TypeOK, FinishCatalogRequest, PWorkers
  <1>2. \/ UNCHANGED products
        \/ products' = [products EXCEPT ![t.product] = [status |-> to, holder |-> NoOrder]]
        \/ products' = [products EXCEPT ![t.product] =
             Changed(products[t.product], t.seen, [t.seen EXCEPT !.status = to])]
    BY <1>t, <1>to DEF FinishCatalogRequest
  <1>3. [t.seen EXCEPT !.status = to].holder = t.seen.holder
    BY <1>1 DEF PTask, ProductDoc
  <1>4. Changed(products[t.product], t.seen, [t.seen EXCEPT !.status = to]).holder
          = products[t.product].holder
    BY <1>3 DEF Changed
  <1>5. CASE products' = [products EXCEPT ![t.product] =
                            [status |-> to, holder |-> NoOrder]]
    BY <1>1, <1>5 DEF TypeOK, KeepsHolder
  <1>6. CASE products' = [products EXCEPT ![t.product] =
               Changed(products[t.product], t.seen, [t.seen EXCEPT !.status = to])]
    BY <1>1, <1>4, <1>6 DEF TypeOK, KeepsHolder
  <1> QED
    BY <1>2, <1>5, <1>6 DEF KeepsHolder

LEMMA NextKeepsHolder ==
  ASSUME IInv, [Next]_vars, NEW p \in Products
  PROVE  KeepsHolder(p)
  <1>1. CASE UNCHANGED products
    BY <1>1 DEF KeepsHolder
  <1>2. CASE \E r \in ProductReplicas : Reserve(r) \/ SaveProduct(r)
    BY <1>2, ReserveKeepsHolder, SaveProductKeepsHolder
  <1>3. CASE \E r \in ProductReplicas, q \in Products : SweepOne(r, q)
    BY <1>3, SweepOneKeepsHolder
  <1>4. CASE \E w \in CatalogWorkers : FinishCatalogRequest(w)
    BY <1>4, FinishCatalogKeepsHolder
  <1>5. \/ UNCHANGED products
        \/ \E r \in ProductReplicas : Reserve(r) \/ SaveProduct(r)
        \/ \E r \in ProductReplicas, q \in Products : SweepOne(r, q)
        \/ \E w \in CatalogWorkers : FinishCatalogRequest(w)
    <2>1. Request \/ OrderConsumer \/ (\E w \in Workers : SaveOrder(w)) \/ Crash
            \/ UNCHANGED vars => UNCHANGED products
      BY DEF Request, CheckoutOrder, LoadRequest, OrderConsumer, Consume, SaveOrder, Crash,
             CrashOrderWorker, CrashProductReplica, productVars, vars
    <2>2. ProductConsumer => UNCHANGED products
                             \/ \E r \in ProductReplicas : Reserve(r) \/ SaveProduct(r)
      BY DEF ProductConsumer, AnswerCreated, ConsumeOrderEvent, productVars
    <2>3. Sweeper => UNCHANGED products
                     \/ \E r \in ProductReplicas, q \in Products : SweepOne(r, q)
      BY DEF Sweeper, StartSweep
    <2>4. Catalog => UNCHANGED products
                     \/ \E w \in CatalogWorkers : FinishCatalogRequest(w)
      BY DEF Catalog, LoadCatalogRequest
    <2> QED
      BY <2>1, <2>2, <2>3, <2>4 DEF Next
  <1> QED
    BY <1>1, <1>2, <1>3, <1>4, <1>5

\* No reservation is taken over by another order without being released first.
THEOREM ReservationsAreNotStolen == Spec => NoStolenReservation
  <1>1. IInv /\ [Next]_vars => [\A p \in Products : KeepsHolder(p)]_vars
    BY NextKeepsHolder
  <1>2. IInv /\ [Next]_vars =>
          [\A p \in Products :
             products[p].status = "RESERVED" /\ products'[p].status = "RESERVED" =>
               products'[p].holder = products[p].holder]_vars
    BY <1>1 DEF KeepsHolder
  <1> QED
    BY <1>2, Safe, PTL DEF Spec, NoStolenReservation
=============================================================================
