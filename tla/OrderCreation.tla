--------------------------- MODULE OrderCreation ---------------------------
(***************************************************************************)
(* OrderService.createOrder as concurrent requests run it: a lock and a    *)
(* result under one Redis key per Idempotency-Key, the product looked up   *)
(* over HTTP, a row inserted under two unique indexes, an event, the       *)
(* result put in Redis.  One action per await.                             *)
(*                                                                         *)
(* The requests are one buyer's, for one product: double clicks, resends   *)
(* and a second tab (another key).  An order id is the request that        *)
(* inserted the row.                                                       *)
(*                                                                         *)
(* At most MaxFaults times a call to Redis or Supabase throws or Redis     *)
(* drops a key (24 h pass, or memory is short: allkeys-lru).  A process    *)
(* may die at any await.                                                   *)
(***************************************************************************)
EXTENDS Naturals

CONSTANTS Requests, Keys, keyOf, MaxFaults, None

ASSUME CreationAssumption ==
  /\ keyOf \in [Requests -> Keys]
  /\ MaxFaults \in Nat
  /\ None \notin Requests
  /\ "PROCESSING" \notin Requests
  /\ None \notin {"PROCESSING", "PENDING", "ENDED"}

VARIABLES redis,   \* key -> None, "PROCESSING" or an order id
          rows,    \* orders inserted -> their status, PENDING or past it
          pc,      \* request -> the await it is at
          seen,    \* request -> what redis.get or findOne returned to it
          answer,  \* request -> an order id, or None
          own,     \* the product is the buyer's own (never changes)
          faults

vars == <<redis, rows, pc, seen, answer, own, faults>>

PCs == {"get", "byId", "byKey", "acquire", "checkout", "refuse", "insert", "recover",
        "adopt", "publish", "store", "undo", "ordered", "conflict", "failed", "dead"}

Row == {"PENDING", "ENDED"}

TypeOK ==
  /\ redis \in [Keys -> Requests \cup {None, "PROCESSING"}]
  /\ rows \in [Requests -> Row \cup {None}]
  /\ pc \in [Requests -> PCs]
  /\ seen \in [Requests -> Requests \cup {None, "PROCESSING"}]
  /\ answer \in [Requests -> Requests \cup {None}]
  /\ own \in BOOLEAN
  /\ faults \in Nat

Init ==
  /\ redis = [k \in Keys |-> None]
  /\ rows = [r \in Requests |-> None]
  /\ pc = [r \in Requests |-> "get"]
  /\ seen = [r \in Requests |-> None]
  /\ answer = [r \in Requests |-> None]
  /\ own \in BOOLEAN
  /\ faults = 0

Fault == faults < MaxFaults /\ faults' = faults + 1

Goto(r, here, there) == pc[r] = here /\ pc' = [pc EXCEPT ![r] = there]

\* findOne({idempotencyKey}): the rows of a request's key.
OrdersOf(k) == {o \in Requests : rows[o] # None /\ keyOf[o] = k}

Answer(r, here, o) ==
  /\ Goto(r, here, "ordered")
  /\ answer' = [answer EXCEPT ![r] = o]

-----------------------------------------------------------------------------
\* A call before the lock is held throws: the client gets the error and the
\* key stays as it is.
ThrowsOutside(r, here) ==
  /\ Goto(r, here, "failed") /\ Fault
  /\ UNCHANGED <<redis, rows, seen, answer, own>>

\* Step 1: redis.get.
Get(r) ==
  \/ ThrowsOutside(r, "get")
  \/ /\ Goto(r, "get", IF redis[keyOf[r]] = None THEN "acquire" ELSE "byId")
     /\ seen' = [seen EXCEPT ![r] = redis[keyOf[r]]]
     /\ UNCHANGED <<redis, rows, answer, own, faults>>

\* findById of whatever Redis held ("PROCESSING" finds nothing).
FindById(r) ==
  \/ ThrowsOutside(r, "byId")
  \/ /\ \/ /\ \E o \in Requests : o = seen[r] /\ rows[o] # None /\ Answer(r, "byId", o)
        \/ /\ ~ \E o \in Requests : o = seen[r] /\ rows[o] # None
           /\ Goto(r, "byId", "byKey") /\ UNCHANGED answer
     /\ UNCHANGED <<redis, rows, seen, own, faults>>

FindByKey_ConflictCleansUp(r) ==
  /\ \/ \E o \in OrdersOf(keyOf[r]) : Answer(r, "byKey", o)
     \/ /\ OrdersOf(keyOf[r]) = {}
        /\ Goto(r, "byKey", "undo") /\ UNCHANGED answer
  /\ UNCHANGED <<redis, rows, seen, own, faults>>

FindByKey(r) ==
  \/ ThrowsOutside(r, "byKey")
  \/ /\ \/ \E o \in OrdersOf(keyOf[r]) : Answer(r, "byKey", o)
        \/ /\ OrdersOf(keyOf[r]) = {}
           /\ Goto(r, "byKey", "conflict") /\ UNCHANGED answer
     /\ UNCHANGED <<redis, rows, seen, own, faults>>

Acquire_WithoutNX(r) ==
  /\ redis' = [redis EXCEPT ![keyOf[r]] = "PROCESSING"]
  /\ Goto(r, "acquire", "checkout")
  /\ UNCHANGED <<rows, seen, answer, own, faults>>

\* SET key PROCESSING EX 86400 NX; an error may hide a lock that was set.
Acquire(r) ==
  /\ \/ /\ redis[keyOf[r]] = None
        /\ redis' = [redis EXCEPT ![keyOf[r]] = "PROCESSING"]
        /\ \/ Goto(r, "acquire", "checkout") /\ UNCHANGED faults
           \/ Goto(r, "acquire", "failed") /\ Fault
     \/ /\ redis[keyOf[r]] # None
        /\ Goto(r, "acquire", "byKey") /\ UNCHANGED <<redis, faults>>
     \/ Goto(r, "acquire", "failed") /\ Fault /\ UNCHANGED redis
  /\ UNCHANGED <<rows, seen, answer, own>>

\* The product over HTTP: it may not be AVAILABLE, or be the buyer's own.
Checkout(r) ==
  /\ \/ Goto(r, "checkout", "undo")
     \/ Goto(r, "checkout", IF own THEN "refuse" ELSE "insert")
  /\ UNCHANGED <<redis, rows, seen, answer, own, faults>>

\* A self-purchase deletes the key, then throws: the catch deletes it again.
Refuse(r) ==
  /\ Goto(r, "refuse", "undo")
  /\ \/ redis' = [redis EXCEPT ![keyOf[r]] = None] /\ UNCHANGED faults
     \/ Fault /\ UNCHANGED redis
  /\ UNCHANGED <<rows, seen, answer, own>>

\* The unique indexes of public.orders: one row per key, and one PENDING row
\* per buyer and product.
Duplicate_NoKeyIndex(r) == \E o \in Requests : rows[o] = "PENDING"

Duplicate(r) ==
  \E o \in Requests : rows[o] = "PENDING" \/ (rows[o] # None /\ keyOf[o] = keyOf[r])

\* Order.create; an error may hide a row that was inserted.
Insert(r) ==
  /\ \/ /\ Duplicate(r)
        /\ Goto(r, "insert", "recover")
        /\ UNCHANGED <<rows, faults>>
     \/ /\ ~Duplicate(r)
        /\ rows' = [rows EXCEPT ![r] = "PENDING"]
        /\ \/ Goto(r, "insert", "publish") /\ UNCHANGED faults
           \/ Goto(r, "insert", "undo") /\ Fault
     \/ Goto(r, "insert", "undo") /\ Fault /\ UNCHANGED rows
  /\ UNCHANGED <<redis, seen, answer, own>>

Recover_ByProduct(r) ==
  /\ \E o \in Requests : /\ rows[o] # None
                        /\ Goto(r, "recover", "adopt") /\ seen' = [seen EXCEPT ![r] = o]
  /\ UNCHANGED <<redis, rows, answer, own, faults>>

\* The handler of error 11000.
Recover(r) ==
  /\ \/ /\ \E o \in OrdersOf(keyOf[r]) :
             Goto(r, "recover", "adopt") /\ seen' = [seen EXCEPT ![r] = o]
        /\ UNCHANGED faults
     \/ /\ OrdersOf(keyOf[r]) = {}
        /\ Goto(r, "recover", "undo") /\ UNCHANGED <<seen, faults>>
     \/ Goto(r, "recover", "undo") /\ Fault /\ UNCHANGED seen
  /\ UNCHANGED <<redis, rows, answer, own>>

Adopt(r) ==
  /\ \/ /\ Answer(r, "adopt", seen[r])
        /\ redis' = [redis EXCEPT ![keyOf[r]] = seen[r]]
        /\ UNCHANGED faults
     \/ Goto(r, "adopt", "undo") /\ Fault /\ UNCHANGED <<redis, answer>>
  /\ UNCHANGED <<rows, seen, own>>

\* publishOrderCreated: whether it fails or not, createOrder goes on.
Publish(r) ==
  /\ Goto(r, "publish", "store")
  /\ UNCHANGED <<redis, rows, seen, answer, own, faults>>

\* Step 5: Redis gets the order id.  A Redis error lands in the catch.
Store(r) ==
  /\ \/ /\ Answer(r, "store", r)
        /\ redis' = [redis EXCEPT ![keyOf[r]] = r]
        /\ UNCHANGED faults
     \/ Goto(r, "store", "undo") /\ Fault /\ UNCHANGED <<redis, answer>>
  /\ UNCHANGED <<rows, seen, own>>

\* catch: redis.del, and the error goes to the client.
Undo(r) ==
  /\ Goto(r, "undo", "failed")
  /\ \/ redis' = [redis EXCEPT ![keyOf[r]] = None] /\ UNCHANGED faults
     \/ Fault /\ UNCHANGED redis
  /\ UNCHANGED <<rows, seen, answer, own>>

Ended == {"ordered", "conflict", "failed", "dead"}

Crash(r) ==
  /\ pc[r] \notin Ended
  /\ pc' = [pc EXCEPT ![r] = "dead"]
  /\ UNCHANGED <<redis, rows, seen, answer, own, faults>>

\* Redis drops a key.
Forget(k) ==
  /\ redis[k] # None
  /\ Fault
  /\ redis' = [redis EXCEPT ![k] = None]
  /\ UNCHANGED <<rows, pc, seen, answer, own>>

\* The saga moves the order past PENDING.
Progress(o) ==
  /\ rows[o] = "PENDING"
  /\ rows' = [rows EXCEPT ![o] = "ENDED"]
  /\ UNCHANGED <<redis, pc, seen, answer, own, faults>>

Step(r) ==
  \/ Get(r) \/ FindById(r) \/ FindByKey(r) \/ Acquire(r) \/ Checkout(r) \/ Refuse(r)
  \/ Insert(r) \/ Recover(r) \/ Adopt(r) \/ Publish(r) \/ Store(r) \/ Undo(r)

Next ==
  \/ \E r \in Requests : Step(r) \/ Crash(r) \/ Progress(r)
  \/ \E k \in Keys : Forget(k)

Spec == Init /\ [][Next]_vars
-----------------------------------------------------------------------------
(* createOrder implements OnceOnly: whatever fails and whoever dies, a key  *)
(* stands for one order and every client that gets an order gets that one.  *)

TheOne(S) == CHOOSE o \in S : TRUE

orderOfKey ==
  [k \in Keys |-> IF OrdersOf(k) = {} THEN None ELSE TheOne(OrdersOf(k))]

Promise == INSTANCE OnceOnly WITH orderOf <- orderOfKey, told <- answer

OnceOnlySpec == Promise!Spec

\* Redis never names an order that is not in the database, or another key's:
\* the entry outlives failures only as a lock or as the truth.
RedisNamesTheOrder ==
  \A k \in Keys : redis[k] \in Requests => redis[k] \in OrdersOf(k)

\* While no call fails, a client is told "failed" only if its order does not
\* exist, though processes die at any await and their requests are sent again.
FailedMeansNoOrder ==
  faults = 0 => \A r \in Requests : pc[r] = "undo" => OrdersOf(keyOf[r]) = {}

\* While no call fails, one request at a time creates the order of a key, and
\* the key is locked while it does; a request that is refused never unlocks it.
\* Conversely, unless somebody died under it or failed to delete it, a lock
\* belongs to a request that is still at work and will replace or delete it: no
\* error path leaves the key to answer 409 for its 24 hours (createOrder).
Creating == {"checkout", "insert", "recover", "adopt", "publish", "store"}
Unharmed == faults = 0 /\ \A r \in Requests : pc[r] # "dead"

LockedWhileAtWork ==
  /\ ~own /\ faults = 0 =>
       \A r \in Requests : pc[r] \in Creating => redis[keyOf[r]] = "PROCESSING"
  /\ Unharmed =>
       \A k \in Keys : redis[k] = "PROCESSING" =>
         \E r \in Requests : keyOf[r] = k /\ pc[r] \in Creating \cup {"refuse", "undo"}
=============================================================================
