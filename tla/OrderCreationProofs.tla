------------------------ MODULE OrderCreationProofs ------------------------
(* createOrder implements OnceOnly, for any number of requests, keys,      *)
(* failures and crashes.                                                   *)
EXTENDS OrderCreation, TLAPS

\* The unique index on idempotency_key.
OneRow ==
  \A a, b \in Requests :
    rows[a] # None /\ rows[b] # None /\ keyOf[a] = keyOf[b] => a = b

\* What a request carries across an await is still true after it: rows are
\* never deleted and never change their key.
CarriedOK ==
  \A r \in Requests :
    /\ pc[r] \in {"byId", "adopt"} /\ seen[r] \in Requests => seen[r] \in OrdersOf(keyOf[r])
    /\ pc[r] = "adopt" => seen[r] \in Requests
    /\ pc[r] \in {"publish", "store"} => rows[r] # None

AnswersOK ==
  \A r \in Requests :
    /\ answer[r] # None => answer[r] \in OrdersOf(keyOf[r])
    /\ pc[r] \notin Ended => answer[r] = None

IInv == TypeOK /\ OneRow /\ RedisNamesTheOrder /\ CarriedOK /\ AnswersOK

LEMMA InitIInv == Init => IInv
  BY CreationAssumption
     DEF Init, IInv, TypeOK, PCs, OneRow, RedisNamesTheOrder, CarriedOK, AnswersOK, Ended

-----------------------------------------------------------------------------
LEMMA GetKeeps ==
  ASSUME IInv, NEW r \in Requests, Get(r)
  PROVE  IInv'
  <1>1. TypeOK'
    BY CreationAssumption
       DEF IInv, TypeOK, Get, ThrowsOutside, Fault, Goto, PCs, Row, OrdersOf, Ended
  <1>2. OneRow' /\ RedisNamesTheOrder'
    BY CreationAssumption
       DEF IInv, TypeOK, OneRow, RedisNamesTheOrder, CarriedOK, OrdersOf, Get,
           ThrowsOutside, Fault, Goto, Row
  <1>3. CarriedOK'
    BY CreationAssumption
       DEF IInv, TypeOK, CarriedOK, RedisNamesTheOrder, OrdersOf, Get, ThrowsOutside,
           Fault, Goto, Row, Ended
  <1>4. AnswersOK'
    BY CreationAssumption
       DEF IInv, TypeOK, AnswersOK, CarriedOK, OrdersOf, Get, ThrowsOutside, Fault, Goto,
           Row, Ended
  <1> QED
    BY <1>1, <1>2, <1>3, <1>4 DEF IInv

LEMMA FindByIdKeeps ==
  ASSUME IInv, NEW r \in Requests, FindById(r)
  PROVE  IInv'
  <1>1. TypeOK'
    BY CreationAssumption
       DEF IInv, TypeOK, FindById, ThrowsOutside, Fault, Goto, Answer, PCs, Row,
           OrdersOf, Ended
  <1>2. OneRow' /\ RedisNamesTheOrder'
    BY CreationAssumption
       DEF IInv, TypeOK, OneRow, RedisNamesTheOrder, CarriedOK, OrdersOf, FindById,
           ThrowsOutside, Fault, Goto, Answer, Row
  <1>3. CarriedOK'
    BY CreationAssumption
       DEF IInv, TypeOK, CarriedOK, RedisNamesTheOrder, OrdersOf, FindById,
           ThrowsOutside, Fault, Goto, Answer, Row, Ended
  <1>4. AnswersOK'
    BY CreationAssumption
       DEF IInv, TypeOK, AnswersOK, CarriedOK, OrdersOf, FindById, ThrowsOutside, Fault,
           Goto, Answer, Row, Ended
  <1> QED
    BY <1>1, <1>2, <1>3, <1>4 DEF IInv

LEMMA FindByKeyKeeps ==
  ASSUME IInv, NEW r \in Requests, FindByKey(r)
  PROVE  IInv'
  <1>1. TypeOK'
    BY CreationAssumption
       DEF IInv, TypeOK, FindByKey, ThrowsOutside, Fault, Goto, Answer, PCs, Row,
           OrdersOf, Ended
  <1>2. OneRow' /\ RedisNamesTheOrder'
    BY CreationAssumption
       DEF IInv, TypeOK, OneRow, RedisNamesTheOrder, CarriedOK, OrdersOf, FindByKey,
           ThrowsOutside, Fault, Goto, Answer, Row
  <1>3. CarriedOK'
    BY CreationAssumption
       DEF IInv, TypeOK, CarriedOK, RedisNamesTheOrder, OrdersOf, FindByKey,
           ThrowsOutside, Fault, Goto, Answer, Row, Ended
  <1>4. AnswersOK'
    BY CreationAssumption
       DEF IInv, TypeOK, AnswersOK, CarriedOK, OrdersOf, FindByKey, ThrowsOutside, Fault,
           Goto, Answer, Row, Ended
  <1> QED
    BY <1>1, <1>2, <1>3, <1>4 DEF IInv

LEMMA AcquireKeeps ==
  ASSUME IInv, NEW r \in Requests, Acquire(r)
  PROVE  IInv'
  <1>1. TypeOK'
    BY CreationAssumption
       DEF IInv, TypeOK, Acquire, Fault, Goto, PCs, Row, OrdersOf, Ended
  <1>2. OneRow' /\ RedisNamesTheOrder'
    BY CreationAssumption
       DEF IInv, TypeOK, OneRow, RedisNamesTheOrder, CarriedOK, OrdersOf, Acquire, Goto,
           Row
  <1>3. CarriedOK'
    BY CreationAssumption
       DEF IInv, TypeOK, CarriedOK, RedisNamesTheOrder, OrdersOf, Acquire, Goto, Row,
           Ended
  <1>4. AnswersOK'
    BY CreationAssumption
       DEF IInv, TypeOK, AnswersOK, CarriedOK, OrdersOf, Acquire, Goto, Row, Ended
  <1> QED
    BY <1>1, <1>2, <1>3, <1>4 DEF IInv

LEMMA CheckoutKeeps ==
  ASSUME IInv, NEW r \in Requests, Checkout(r)
  PROVE  IInv'
  <1>1. TypeOK'
    BY CreationAssumption
       DEF IInv, TypeOK, Checkout, Goto, PCs, Row, OrdersOf, Ended
  <1>2. OneRow' /\ RedisNamesTheOrder'
    BY CreationAssumption
       DEF IInv, TypeOK, OneRow, RedisNamesTheOrder, CarriedOK, OrdersOf, Checkout, Goto,
           Row
  <1>3. CarriedOK'
    BY CreationAssumption
       DEF IInv, TypeOK, CarriedOK, RedisNamesTheOrder, OrdersOf, Checkout, Goto, Row,
           Ended
  <1>4. AnswersOK'
    BY CreationAssumption
       DEF IInv, TypeOK, AnswersOK, CarriedOK, OrdersOf, Checkout, Goto, Row, Ended
  <1> QED
    BY <1>1, <1>2, <1>3, <1>4 DEF IInv

LEMMA RefuseKeeps ==
  ASSUME IInv, NEW r \in Requests, Refuse(r)
  PROVE  IInv'
  <1>1. TypeOK'
    BY CreationAssumption
       DEF IInv, TypeOK, Refuse, Fault, Goto, PCs, Row, OrdersOf, Ended
  <1>2. OneRow' /\ RedisNamesTheOrder'
    BY CreationAssumption
       DEF IInv, TypeOK, OneRow, RedisNamesTheOrder, CarriedOK, OrdersOf, Refuse, Goto,
           Row
  <1>3. CarriedOK'
    BY CreationAssumption
       DEF IInv, TypeOK, CarriedOK, RedisNamesTheOrder, OrdersOf, Refuse, Goto, Row,
           Ended
  <1>4. AnswersOK'
    BY CreationAssumption
       DEF IInv, TypeOK, AnswersOK, CarriedOK, OrdersOf, Refuse, Goto, Row, Ended
  <1> QED
    BY <1>1, <1>2, <1>3, <1>4 DEF IInv

LEMMA InsertKeeps ==
  ASSUME IInv, NEW r \in Requests, Insert(r)
  PROVE  IInv'
  <1>1. TypeOK'
    BY CreationAssumption
       DEF IInv, TypeOK, Insert, Goto, Fault, PCs, Row, OrdersOf, Ended
  <1>2. OneRow' /\ RedisNamesTheOrder'
    BY CreationAssumption
       DEF IInv, TypeOK, OneRow, RedisNamesTheOrder, CarriedOK, OrdersOf, Insert, Goto,
           Duplicate, Row
  <1>3. CarriedOK'
    BY CreationAssumption
       DEF IInv, TypeOK, CarriedOK, RedisNamesTheOrder, OrdersOf, Insert, Goto, Row, Ended
  <1>4. AnswersOK'
    BY CreationAssumption
       DEF IInv, TypeOK, AnswersOK, CarriedOK, OrdersOf, Insert, Goto, Row, Ended
  <1> QED
    BY <1>1, <1>2, <1>3, <1>4 DEF IInv

LEMMA RecoverKeeps ==
  ASSUME IInv, NEW r \in Requests, Recover(r)
  PROVE  IInv'
  <1>1. TypeOK'
    BY CreationAssumption
       DEF IInv, TypeOK, Recover, Fault, Goto, PCs, Row, OrdersOf, Ended
  <1>2. OneRow' /\ RedisNamesTheOrder'
    BY CreationAssumption
       DEF IInv, TypeOK, OneRow, RedisNamesTheOrder, CarriedOK, OrdersOf, Recover, Goto,
           Row
  <1>3. CarriedOK'
    BY CreationAssumption
       DEF IInv, TypeOK, CarriedOK, RedisNamesTheOrder, OrdersOf, Recover, Goto, Row,
           Ended
  <1>4. AnswersOK'
    BY CreationAssumption
       DEF IInv, TypeOK, AnswersOK, CarriedOK, OrdersOf, Recover, Goto, Row, Ended
  <1> QED
    BY <1>1, <1>2, <1>3, <1>4 DEF IInv

LEMMA AdoptKeeps ==
  ASSUME IInv, NEW r \in Requests, Adopt(r)
  PROVE  IInv'
  <1>1. TypeOK'
    BY CreationAssumption
       DEF IInv, TypeOK, CarriedOK, Adopt, Goto, Answer, Fault, PCs, Row, OrdersOf, Ended
  <1>2. OneRow' /\ RedisNamesTheOrder'
    BY CreationAssumption
       DEF IInv, TypeOK, OneRow, RedisNamesTheOrder, CarriedOK, OrdersOf, Adopt, Goto,
           Answer, Row
  <1>3. CarriedOK'
    BY CreationAssumption
       DEF IInv, TypeOK, CarriedOK, RedisNamesTheOrder, OrdersOf, Adopt, Goto, Answer, Row,
           Ended
  <1>4. AnswersOK'
    BY CreationAssumption
       DEF IInv, TypeOK, AnswersOK, CarriedOK, OrdersOf, Adopt, Goto, Answer, Row, Ended
  <1> QED
    BY <1>1, <1>2, <1>3, <1>4 DEF IInv

LEMMA PublishKeeps ==
  ASSUME IInv, NEW r \in Requests, Publish(r)
  PROVE  IInv'
  <1>1. TypeOK'
    BY CreationAssumption
       DEF IInv, TypeOK, Publish, Goto, PCs, Row, OrdersOf, Ended
  <1>2. OneRow' /\ RedisNamesTheOrder'
    BY CreationAssumption
       DEF IInv, TypeOK, OneRow, RedisNamesTheOrder, CarriedOK, OrdersOf, Publish, Goto,
           Row
  <1>3. CarriedOK'
    BY CreationAssumption
       DEF IInv, TypeOK, CarriedOK, RedisNamesTheOrder, OrdersOf, Publish, Goto, Row, Ended
  <1>4. AnswersOK'
    BY CreationAssumption
       DEF IInv, TypeOK, AnswersOK, CarriedOK, OrdersOf, Publish, Goto, Row, Ended
  <1> QED
    BY <1>1, <1>2, <1>3, <1>4 DEF IInv

LEMMA StoreKeeps ==
  ASSUME IInv, NEW r \in Requests, Store(r)
  PROVE  IInv'
  <1>1. TypeOK'
    BY CreationAssumption
       DEF IInv, TypeOK, Store, Goto, Answer, Fault, PCs, Row, OrdersOf, Ended
  <1>2. OneRow' /\ RedisNamesTheOrder'
    BY CreationAssumption
       DEF IInv, TypeOK, OneRow, RedisNamesTheOrder, CarriedOK, OrdersOf, Store, Goto,
           Answer, Row
  <1>3. CarriedOK'
    BY CreationAssumption
       DEF IInv, TypeOK, CarriedOK, RedisNamesTheOrder, OrdersOf, Store, Goto, Answer, Row,
           Ended
  <1>4. AnswersOK'
    BY CreationAssumption
       DEF IInv, TypeOK, AnswersOK, CarriedOK, OrdersOf, Store, Goto, Answer, Row, Ended
  <1> QED
    BY <1>1, <1>2, <1>3, <1>4 DEF IInv

LEMMA UndoKeeps ==
  ASSUME IInv, NEW r \in Requests, Undo(r)
  PROVE  IInv'
  <1>1. TypeOK'
    BY CreationAssumption
       DEF IInv, TypeOK, Undo, Goto, Fault, PCs, Row, OrdersOf, Ended
  <1>2. OneRow' /\ RedisNamesTheOrder'
    BY CreationAssumption
       DEF IInv, TypeOK, OneRow, RedisNamesTheOrder, CarriedOK, OrdersOf, Undo, Goto, Row
  <1>3. CarriedOK'
    BY CreationAssumption
       DEF IInv, TypeOK, CarriedOK, RedisNamesTheOrder, OrdersOf, Undo, Goto, Row, Ended
  <1>4. AnswersOK'
    BY CreationAssumption
       DEF IInv, TypeOK, AnswersOK, CarriedOK, OrdersOf, Undo, Goto, Row, Ended
  <1> QED
    BY <1>1, <1>2, <1>3, <1>4 DEF IInv

LEMMA CrashKeeps ==
  ASSUME IInv, NEW r \in Requests, Crash(r)
  PROVE  IInv'
  <1>1. TypeOK'
    BY CreationAssumption
       DEF IInv, TypeOK, Crash, PCs, Row, OrdersOf, Ended
  <1>2. OneRow' /\ RedisNamesTheOrder'
    BY CreationAssumption
       DEF IInv, TypeOK, OneRow, RedisNamesTheOrder, CarriedOK, OrdersOf, Crash, Row
  <1>3. CarriedOK'
    BY CreationAssumption
       DEF IInv, TypeOK, CarriedOK, RedisNamesTheOrder, OrdersOf, Crash, Row, Ended
  <1>4. AnswersOK'
    BY CreationAssumption
       DEF IInv, TypeOK, AnswersOK, CarriedOK, OrdersOf, Crash, Row, Ended
  <1> QED
    BY <1>1, <1>2, <1>3, <1>4 DEF IInv

LEMMA ProgressKeeps ==
  ASSUME IInv, NEW r \in Requests, Progress(r)
  PROVE  IInv'
  <1>1. TypeOK'
    BY CreationAssumption
       DEF IInv, TypeOK, Progress, PCs, Row, OrdersOf, Ended
  <1>2. OneRow' /\ RedisNamesTheOrder'
    BY CreationAssumption
       DEF IInv, TypeOK, OneRow, RedisNamesTheOrder, CarriedOK, OrdersOf, Progress, Row
  <1>3. CarriedOK'
    BY CreationAssumption
       DEF IInv, TypeOK, CarriedOK, RedisNamesTheOrder, OrdersOf, Progress, Row, Ended
  <1>4. AnswersOK'
    BY CreationAssumption
       DEF IInv, TypeOK, AnswersOK, CarriedOK, OrdersOf, Progress, Row, Ended
  <1> QED
    BY <1>1, <1>2, <1>3, <1>4 DEF IInv

LEMMA ForgetKeeps ==
  ASSUME IInv, NEW k \in Keys, Forget(k)
  PROVE  IInv'
  <1>1. TypeOK'
    BY DEF IInv, TypeOK, Forget, Fault
  <1>2. RedisNamesTheOrder'
    BY CreationAssumption DEF IInv, TypeOK, RedisNamesTheOrder, OrdersOf, Forget
  <1> QED
    BY <1>1, <1>2
       DEF IInv, OneRow, CarriedOK, AnswersOK, OrdersOf, Forget

LEMMA NextKeeps == IInv /\ [Next]_vars => IInv'
  <1> SUFFICES ASSUME IInv, [Next]_vars PROVE IInv'
    OBVIOUS
  <1>1. ASSUME NEW r \in Requests, Step(r) PROVE IInv'
    BY <1>1, GetKeeps, FindByIdKeeps, FindByKeyKeeps, AcquireKeeps, CheckoutKeeps,
       RefuseKeeps, InsertKeeps, RecoverKeeps, AdoptKeeps, PublishKeeps, StoreKeeps,
       UndoKeeps DEF Step
  <1>2. CASE UNCHANGED vars
    BY <1>2
       DEF vars, IInv, TypeOK, OneRow, RedisNamesTheOrder, CarriedOK, AnswersOK, OrdersOf
  <1> QED
    BY <1>1, <1>2, CrashKeeps, ProgressKeeps, ForgetKeeps DEF Next

LEMMA Invariance == Spec => []IInv
  BY InitIInv, NextKeeps, PTL DEF Spec

\* Redis never names an order that does not exist or has another key.
THEOREM RedisTellsTheTruth == Spec => []RedisNamesTheOrder
  <1>1. IInv => RedisNamesTheOrder
    BY DEF IInv
  <1> QED
    BY <1>1, Invariance, PTL

-----------------------------------------------------------------------------
(* Refinement: the insert places the order, an answer tells it, and every   *)
(* other await leaves the abstract state alone.                             *)

LEMMA KeyHasItsRow ==
  ASSUME OneRow, NEW k \in Keys, NEW o \in OrdersOf(k)
  PROVE  orderOfKey[k] = o
  <1>1. OrdersOf(k) = {o}
    BY DEF OneRow, OrdersOf
  <1> QED
    BY <1>1 DEF orderOfKey, TheOne

LEMMA InitRefines == Init => Promise!Init
  BY DEF Init, Promise!Init, orderOfKey, OrdersOf

\* orderOfKey depends on which rows exist, not on their status.
LEMMA SameRowsSameKeys ==
  ASSUME \A o \in Requests : rows[o] # None <=> rows'[o] # None
  PROVE  UNCHANGED orderOfKey
  <1>1. \A k : OrdersOf(k)' = OrdersOf(k)
    BY DEF OrdersOf
  <1> QED
    BY <1>1 DEF orderOfKey

\* An answer is the order of the request's key.
LEMMA AnswerTells ==
  ASSUME IInv, NEW r \in Requests, NEW here \in PCs \ Ended, NEW o,
         o \in OrdersOf(keyOf[r]), Answer(r, here, o), UNCHANGED rows
  PROVE  Promise!Tell(r)
  <1>1. keyOf[r] \in Keys
    BY CreationAssumption
  <1>2. orderOfKey[keyOf[r]] = o /\ o # None
    BY <1>1, KeyHasItsRow, CreationAssumption DEF IInv, OrdersOf
  <1>3. UNCHANGED orderOfKey
    BY SameRowsSameKeys
  <1>4. answer[r] = None
    BY DEF IInv, AnswersOK, Answer, Goto
  <1> QED
    BY <1>2, <1>3, <1>4 DEF Promise!Tell, Answer

LEMMA InsertPlaces ==
  ASSUME IInv, NEW r \in Requests, Insert(r), UNCHANGED answer
  PROVE  Promise!Place(r) \/ UNCHANGED <<orderOfKey, answer>>
  <1>1. CASE Duplicate(r)
    <2>1. UNCHANGED rows
      BY <1>1 DEF Insert
    <2> QED
      BY <2>1, SameRowsSameKeys
  <1>2. CASE ~Duplicate(r) /\ ~UNCHANGED rows
    <2>1. /\ rows' = [rows EXCEPT ![r] = "PENDING"]
          /\ rows'[r] # None
      BY <1>2, CreationAssumption DEF Insert, IInv, TypeOK
    <2>2. keyOf[r] \in Keys /\ OrdersOf(keyOf[r]) = {}
      BY <1>2, CreationAssumption DEF Duplicate, OrdersOf
    <2>3. orderOfKey[keyOf[r]] = None
      BY <2>2 DEF orderOfKey
    <2>4. OrdersOf(keyOf[r])' = {r}
      BY <2>1, <2>2 DEF OrdersOf, IInv, TypeOK
    <2>5. TheOne({r}) = r
      BY DEF TheOne
    <2>6. \A k \in Keys : k # keyOf[r] => OrdersOf(k)' = OrdersOf(k)
      BY <2>1 DEF OrdersOf, IInv, TypeOK
    <2>7. orderOfKey' = [orderOfKey EXCEPT ![keyOf[r]] = r]
      BY <2>2, <2>4, <2>5, <2>6 DEF orderOfKey
    <2> QED
      BY <2>3, <2>7 DEF Promise!Place
  <1> QED
    BY <1>1, <1>2, SameRowsSameKeys

LEMMA StepRefines ==
  ASSUME IInv, NEW r \in Requests, Step(r)
  PROVE  Promise!Place(r) \/ Promise!Tell(r) \/ UNCHANGED <<orderOfKey, answer>>
  <1>1. CASE Insert(r)
    BY <1>1, InsertPlaces DEF Insert
  <1>2. CASE FindById(r)
    <2>1. UNCHANGED rows
      BY <1>2 DEF FindById, ThrowsOutside
    <2>2. ASSUME NEW o \in Requests, o = seen[r], Answer(r, "byId", o)
          PROVE  Promise!Tell(r)
      <3>1. o \in OrdersOf(keyOf[r])
        BY <2>2 DEF IInv, CarriedOK, Answer, Goto
      <3> QED
        BY <2>1, <2>2, <3>1, AnswerTells DEF PCs, Ended
    <2> QED
      BY <1>2, <2>1, <2>2, SameRowsSameKeys DEF FindById, ThrowsOutside
  <1>3. CASE FindByKey(r)
    <2>1. UNCHANGED rows
      BY <1>3 DEF FindByKey, ThrowsOutside
    <2>2. ASSUME NEW o \in OrdersOf(keyOf[r]), Answer(r, "byKey", o)
          PROVE  Promise!Tell(r)
      BY <2>1, <2>2, AnswerTells DEF PCs, Ended
    <2> QED
      BY <1>3, <2>1, <2>2, SameRowsSameKeys DEF FindByKey, ThrowsOutside
  <1>4. CASE Adopt(r)
    <2>1. UNCHANGED rows
      BY <1>4 DEF Adopt
    <2>2. ASSUME Answer(r, "adopt", seen[r])
          PROVE  Promise!Tell(r)
      <3>1. seen[r] \in OrdersOf(keyOf[r])
        BY <2>2 DEF IInv, CarriedOK, Answer, Goto
      <3> QED
        BY <2>1, <2>2, <3>1, AnswerTells DEF PCs, Ended
    <2> QED
      BY <1>4, <2>1, <2>2, SameRowsSameKeys DEF Adopt
  <1>5. CASE Store(r)
    <2>1. UNCHANGED rows
      BY <1>5 DEF Store
    <2>2. ASSUME Answer(r, "store", r)
          PROVE  Promise!Tell(r)
      <3>1. r \in OrdersOf(keyOf[r])
        BY <2>2 DEF IInv, CarriedOK, Answer, Goto, OrdersOf
      <3> QED
        BY <2>1, <2>2, <3>1, AnswerTells DEF PCs, Ended
    <2> QED
      BY <1>5, <2>1, <2>2, SameRowsSameKeys DEF Store
  <1>6. CASE Get(r) \/ Acquire(r) \/ Checkout(r) \/ Refuse(r) \/ Recover(r) \/ Publish(r)
             \/ Undo(r)
    <2>1. UNCHANGED <<rows, answer>>
      BY <1>6 DEF Get, ThrowsOutside, Acquire, Checkout, Refuse, Recover, Publish, Undo
    <2> QED
      BY <2>1, SameRowsSameKeys
  <1> QED
    BY <1>1, <1>2, <1>3, <1>4, <1>5, <1>6 DEF Step

LEMMA NextRefines == IInv /\ [Next]_vars => [Promise!Next]_<<orderOfKey, answer>>
  <1> SUFFICES ASSUME IInv, [Next]_vars
               PROVE  Promise!Next \/ UNCHANGED <<orderOfKey, answer>>
    OBVIOUS
  <1>1. ASSUME NEW r \in Requests, Step(r)
        PROVE  Promise!Next \/ UNCHANGED <<orderOfKey, answer>>
    BY <1>1, StepRefines DEF Promise!Next
  <1>2. ASSUME NEW r \in Requests, Progress(r)
        PROVE  UNCHANGED <<orderOfKey, answer>>
    <2>1. \A o \in Requests : rows[o] # None <=> rows'[o] # None
      BY <1>2, CreationAssumption DEF Progress, IInv, TypeOK
    <2> QED
      BY <1>2, <2>1, SameRowsSameKeys DEF Progress
  <1>3. CASE \/ UNCHANGED vars
             \/ \E r \in Requests : Crash(r)
             \/ \E k \in Keys : Forget(k)
    <2>1. UNCHANGED <<rows, answer>>
      BY <1>3 DEF vars, Crash, Forget
    <2> QED
      BY <2>1, SameRowsSameKeys
  <1> QED
    BY <1>1, <1>2, <1>3 DEF Next

\* Whatever fails, whoever dies and however requests of one Idempotency-Key
\* interleave: the key stands for one order, and every client that is answered
\* with an order is answered with that one.
THEOREM CreatesOnce == Spec => OnceOnlySpec
  BY InitRefines, NextRefines, Invariance, PTL DEF Spec, OnceOnlySpec, Promise!Spec

-----------------------------------------------------------------------------
(* The lock, while no call to Redis or Supabase fails.                     *)

\* Requests that got the lock and have not given it back.
Holding == Creating \cup {"undo"}

\* The buyer's own product is never ordered.
OwnOrdersNothing ==
  own /\ faults = 0 =>
    \A r \in Requests : /\ rows[r] = None
                        /\ pc[r] \notin {"insert", "recover", "adopt", "publish", "store"}

\* A key is locked for the one request that holds it; before its insert the key
\* has no order, and a key with an order is locked or names it.  No request can
\* reach "adopt": another one would have to hold the key as well.
LockIsExclusive ==
  ~own /\ faults = 0 =>
    /\ \A r \in Requests :
         /\ pc[r] \notin {"refuse", "adopt"}
         /\ pc[r] \in Holding => redis[keyOf[r]] = "PROCESSING"
         /\ pc[r] \in {"checkout", "insert", "recover", "undo"} => OrdersOf(keyOf[r]) = {}
    /\ \A r, s \in Requests :
         pc[r] \in Holding /\ pc[s] \in Holding /\ keyOf[r] = keyOf[s] => r = s
    /\ \A k \in Keys : OrdersOf(k) # {} => redis[k] # None

LockIsInUse ==
  Unharmed =>
    \A k \in Keys : redis[k] = "PROCESSING" =>
      \E r \in Requests : keyOf[r] = k /\ pc[r] \in Creating \cup {"refuse", "undo"}

LockInv == OwnOrdersNothing /\ LockIsExclusive /\ LockIsInUse

LEMMA InitLockInv == Init => LockInv
  BY CreationAssumption
     DEF Init, LockInv, OwnOrdersNothing, LockIsExclusive, LockIsInUse, Holding, Creating,
         OrdersOf, Unharmed

\* Once a call failed nothing is said of a buyer's own product.
LEMMA FaultLeavesOwn ==
  ASSUME IInv, Fault
  PROVE  OwnOrdersNothing'
  <1>1. faults' # 0
    BY DEF IInv, TypeOK, Fault
  <1> QED
    BY <1>1 DEF OwnOrdersNothing

LEMMA GetKeepsLock ==
  ASSUME IInv, LockInv, NEW r \in Requests, Get(r)
  PROVE  LockInv'
  <1>1. OwnOrdersNothing'
    <2>1. CASE ThrowsOutside(r, "get")
      BY <2>1, FaultLeavesOwn DEF ThrowsOutside
    <2>2. CASE ~ThrowsOutside(r, "get")
      BY <2>2, CreationAssumption
         DEF IInv, TypeOK, LockInv, OwnOrdersNothing, OrdersOf, Get, Goto
    <2> QED
      BY <2>1, <2>2
  <1>2. LockIsExclusive'
    BY CreationAssumption
       DEF IInv, TypeOK, LockInv, LockIsExclusive, OrdersOf, Holding, Creating, Get,
           ThrowsOutside, Fault, Goto
  <1>3. LockIsInUse'
    BY CreationAssumption
       DEF IInv, TypeOK, LockInv, LockIsInUse, OrdersOf, Unharmed, Creating, Get,
           ThrowsOutside, Fault, Goto
  <1> QED
    BY <1>1, <1>2, <1>3 DEF LockInv

LEMMA FindByIdKeepsLock ==
  ASSUME IInv, LockInv, NEW r \in Requests, FindById(r)
  PROVE  LockInv'
  <1>1. OwnOrdersNothing'
    <2>1. CASE ThrowsOutside(r, "byId")
      BY <2>1, FaultLeavesOwn DEF ThrowsOutside
    <2>2. CASE ~ThrowsOutside(r, "byId")
      BY <2>2, CreationAssumption
         DEF IInv, TypeOK, LockInv, OwnOrdersNothing, OrdersOf, FindById, Goto, Answer
    <2> QED
      BY <2>1, <2>2
  <1>2. LockIsExclusive'
    BY CreationAssumption
       DEF IInv, TypeOK, LockInv, LockIsExclusive, OrdersOf, Holding, Creating, FindById,
           ThrowsOutside, Fault, Goto, Answer
  <1>3. LockIsInUse'
    BY CreationAssumption
       DEF IInv, TypeOK, LockInv, LockIsInUse, OrdersOf, Unharmed, Creating, FindById,
           ThrowsOutside, Fault, Goto, Answer
  <1> QED
    BY <1>1, <1>2, <1>3 DEF LockInv

LEMMA FindByKeyKeepsLock ==
  ASSUME IInv, LockInv, NEW r \in Requests, FindByKey(r)
  PROVE  LockInv'
  <1>1. OwnOrdersNothing'
    <2>1. CASE ThrowsOutside(r, "byKey")
      BY <2>1, FaultLeavesOwn DEF ThrowsOutside
    <2>2. CASE ~ThrowsOutside(r, "byKey")
      BY <2>2, CreationAssumption
         DEF IInv, TypeOK, LockInv, OwnOrdersNothing, OrdersOf, FindByKey, Goto, Answer
    <2> QED
      BY <2>1, <2>2
  <1>2. LockIsExclusive'
    BY CreationAssumption
       DEF IInv, TypeOK, LockInv, LockIsExclusive, OrdersOf, Holding, Creating,
           FindByKey, ThrowsOutside, Fault, Goto, Answer
  <1>3. LockIsInUse'
    BY CreationAssumption
       DEF IInv, TypeOK, LockInv, LockIsInUse, OrdersOf, Unharmed, Creating, FindByKey,
           ThrowsOutside, Fault, Goto, Answer
  <1> QED
    BY <1>1, <1>2, <1>3 DEF LockInv

LEMMA AcquireKeepsLock ==
  ASSUME IInv, LockInv, NEW r \in Requests, Acquire(r)
  PROVE  LockInv'
  <1>1. OwnOrdersNothing'
    BY CreationAssumption
       DEF IInv, TypeOK, LockInv, OwnOrdersNothing, OrdersOf, Acquire, Fault, Goto
  <1>2. LockIsExclusive'
    BY CreationAssumption
       DEF IInv, TypeOK, LockInv, LockIsExclusive, OrdersOf, Holding, Creating, Acquire,
           Fault, Goto
  <1>3. LockIsInUse'
    BY CreationAssumption
       DEF IInv, TypeOK, LockInv, LockIsInUse, OrdersOf, Unharmed, Creating, Acquire,
           Fault, Goto
  <1> QED
    BY <1>1, <1>2, <1>3 DEF LockInv

LEMMA CheckoutKeepsLock ==
  ASSUME IInv, LockInv, NEW r \in Requests, Checkout(r)
  PROVE  LockInv'
  <1>1. OwnOrdersNothing'
    BY CreationAssumption
       DEF IInv, TypeOK, LockInv, OwnOrdersNothing, OrdersOf, Checkout, Goto
  <1>2. LockIsExclusive'
    BY CreationAssumption
       DEF IInv, TypeOK, LockInv, LockIsExclusive, OrdersOf, Holding, Creating, Checkout,
           Goto
  <1>3. LockIsInUse'
    BY CreationAssumption
       DEF IInv, TypeOK, LockInv, LockIsInUse, OrdersOf, Unharmed, Creating, Checkout, Goto
  <1> QED
    BY <1>1, <1>2, <1>3 DEF LockInv

LEMMA RefuseKeepsLock ==
  ASSUME IInv, LockInv, NEW r \in Requests, Refuse(r)
  PROVE  LockInv'
  <1>1. OwnOrdersNothing'
    BY CreationAssumption
       DEF IInv, TypeOK, LockInv, OwnOrdersNothing, OrdersOf, Refuse, Fault, Goto
  <1>2. LockIsExclusive'
    BY CreationAssumption
       DEF IInv, TypeOK, LockInv, LockIsExclusive, OrdersOf, Holding, Creating, Refuse,
           Fault, Goto
  <1>3. LockIsInUse'
    BY CreationAssumption
       DEF IInv, TypeOK, LockInv, LockIsInUse, OrdersOf, Unharmed, Creating, Refuse,
           Fault, Goto
  <1> QED
    BY <1>1, <1>2, <1>3 DEF LockInv

LEMMA InsertKeepsLock ==
  ASSUME IInv, LockInv, NEW r \in Requests, Insert(r)
  PROVE  LockInv'
  <1>1. OwnOrdersNothing'
    BY CreationAssumption
       DEF IInv, TypeOK, LockInv, OwnOrdersNothing, OrdersOf, Insert, Goto, Fault,
           Duplicate
  <1>2. LockIsExclusive'
    BY CreationAssumption
       DEF IInv, TypeOK, LockInv, LockIsExclusive, OrdersOf, Holding, Creating, Insert,
           Goto, Fault, Duplicate
  <1>3. LockIsInUse'
    BY CreationAssumption
       DEF IInv, TypeOK, LockInv, LockIsInUse, OrdersOf, Unharmed, Creating, Insert, Goto,
           Fault, Duplicate
  <1> QED
    BY <1>1, <1>2, <1>3 DEF LockInv

LEMMA RecoverKeepsLock ==
  ASSUME IInv, LockInv, NEW r \in Requests, Recover(r)
  PROVE  LockInv'
  <1>1. OwnOrdersNothing'
    BY CreationAssumption
       DEF IInv, TypeOK, LockInv, OwnOrdersNothing, OrdersOf, Recover, Fault, Goto
  <1>2. LockIsExclusive'
    BY CreationAssumption
       DEF IInv, TypeOK, LockInv, LockIsExclusive, OrdersOf, Holding, Creating, Recover,
           Fault, Goto
  <1>3. LockIsInUse'
    BY CreationAssumption
       DEF IInv, TypeOK, LockInv, LockIsInUse, OrdersOf, Unharmed, Creating, Recover,
           Fault, Goto
  <1> QED
    BY <1>1, <1>2, <1>3 DEF LockInv

LEMMA AdoptKeepsLock ==
  ASSUME IInv, LockInv, NEW r \in Requests, Adopt(r)
  PROVE  LockInv'
  <1>1. OwnOrdersNothing'
    BY CreationAssumption
       DEF IInv, TypeOK, LockInv, OwnOrdersNothing, OrdersOf, Adopt, Goto, Answer, Fault
  <1>2. LockIsExclusive'
    BY CreationAssumption
       DEF IInv, TypeOK, LockInv, LockIsExclusive, OrdersOf, Holding, Creating, Adopt,
           Goto, Answer, Fault
  <1>3. LockIsInUse'
    BY CreationAssumption
       DEF IInv, TypeOK, CarriedOK, LockInv, LockIsInUse, OrdersOf, Unharmed, Creating,
           Adopt, Goto, Answer, Fault
  <1> QED
    BY <1>1, <1>2, <1>3 DEF LockInv

LEMMA PublishKeepsLock ==
  ASSUME IInv, LockInv, NEW r \in Requests, Publish(r)
  PROVE  LockInv'
  <1>1. OwnOrdersNothing'
    BY CreationAssumption
       DEF IInv, TypeOK, LockInv, OwnOrdersNothing, OrdersOf, Publish, Goto
  <1>2. LockIsExclusive'
    BY CreationAssumption
       DEF IInv, TypeOK, LockInv, LockIsExclusive, OrdersOf, Holding, Creating, Publish,
           Goto
  <1>3. LockIsInUse'
    BY CreationAssumption
       DEF IInv, TypeOK, LockInv, LockIsInUse, OrdersOf, Unharmed, Creating, Publish, Goto
  <1> QED
    BY <1>1, <1>2, <1>3 DEF LockInv

LEMMA StoreKeepsLock ==
  ASSUME IInv, LockInv, NEW r \in Requests, Store(r)
  PROVE  LockInv'
  <1>1. OwnOrdersNothing'
    BY CreationAssumption
       DEF IInv, TypeOK, LockInv, OwnOrdersNothing, OrdersOf, Store, Goto, Answer, Fault
  <1>2. LockIsExclusive'
    BY CreationAssumption
       DEF IInv, TypeOK, LockInv, LockIsExclusive, OrdersOf, Holding, Creating, Store,
           Goto, Answer, Fault
  <1>3. LockIsInUse'
    BY CreationAssumption
       DEF IInv, TypeOK, LockInv, LockIsInUse, OrdersOf, Unharmed, Creating, Store, Goto,
           Answer, Fault
  <1> QED
    BY <1>1, <1>2, <1>3 DEF LockInv

LEMMA UndoKeepsLock ==
  ASSUME IInv, LockInv, NEW r \in Requests, Undo(r)
  PROVE  LockInv'
  <1>1. OwnOrdersNothing'
    BY CreationAssumption
       DEF IInv, TypeOK, LockInv, OwnOrdersNothing, OrdersOf, Undo, Goto, Fault
  <1>2. LockIsExclusive'
    <2>1. SUFFICES ASSUME ~own', faults' = 0 PROVE LockIsExclusive'
      BY DEF LockIsExclusive
    <2>2. /\ ~own /\ faults = 0 /\ LockIsExclusive
          /\ pc[r] = "undo" /\ pc' = [pc EXCEPT ![r] = "failed"]
          /\ redis' = [redis EXCEPT ![keyOf[r]] = None] /\ rows' = rows
      BY <2>1 DEF IInv, TypeOK, LockInv, Undo, Goto, Fault
    <2>3. r \in {s \in Requests : pc[s] \in Holding} /\ OrdersOf(keyOf[r]) = {}
      BY <2>2 DEF LockIsExclusive, Holding, Creating
    <2>4. \A s \in Requests : pc'[s] \in Holding => pc[s] \in Holding /\ pc'[s] = pc[s] /\ s # r
      BY <2>2 DEF IInv, TypeOK, Holding, Creating
    <2>5. \A s \in Requests : pc'[s] \in Holding => keyOf[s] # keyOf[r]
      BY <2>2, <2>3, <2>4 DEF LockIsExclusive
    <2>6. \A k \in Keys : OrdersOf(k)' = OrdersOf(k) /\ (k # keyOf[r] => redis'[k] = redis[k])
      BY <2>2 DEF IInv, TypeOK, OrdersOf
    <2>7. \A s \in Requests : keyOf[s] \in Keys
      BY CreationAssumption
    <2>8. \A s \in Requests :
             /\ pc'[s] \notin {"refuse", "adopt"}
             /\ pc'[s] \in Holding => redis'[keyOf[s]] = "PROCESSING"
      BY <2>2, <2>4, <2>5, <2>6, <2>7 DEF LockIsExclusive, IInv, TypeOK
    <2>9. \A s \in Requests :
             pc'[s] \in {"checkout", "insert", "recover", "undo"} => OrdersOf(keyOf[s])' = {}
      BY <2>2, <2>4, <2>6, <2>7 DEF LockIsExclusive, Holding, Creating
    <2> QED
      BY <2>2, <2>3, <2>4, <2>6, <2>8, <2>9 DEF LockIsExclusive
  <1>3. LockIsInUse'
    BY CreationAssumption
       DEF IInv, TypeOK, LockInv, LockIsInUse, OrdersOf, Unharmed, Creating, Undo, Goto,
           Fault
  <1> QED
    BY <1>1, <1>2, <1>3 DEF LockInv

LEMMA CrashKeepsLock ==
  ASSUME IInv, LockInv, NEW r \in Requests, Crash(r)
  PROVE  LockInv'
  <1>1. OwnOrdersNothing'
    BY CreationAssumption
       DEF IInv, TypeOK, LockInv, OwnOrdersNothing, OrdersOf, Crash, Goto
  <1>2. LockIsExclusive'
    BY CreationAssumption
       DEF IInv, TypeOK, LockInv, LockIsExclusive, OrdersOf, Holding, Creating, Crash, Goto
  <1>3. LockIsInUse'
    BY CreationAssumption
       DEF IInv, TypeOK, LockInv, LockIsInUse, OrdersOf, Unharmed, Creating, Crash, Goto
  <1> QED
    BY <1>1, <1>2, <1>3 DEF LockInv

LEMMA ProgressKeepsLock ==
  ASSUME IInv, LockInv, NEW r \in Requests, Progress(r)
  PROVE  LockInv'
  <1>1. OwnOrdersNothing'
    BY CreationAssumption
       DEF IInv, TypeOK, LockInv, OwnOrdersNothing, OrdersOf, Progress, Goto
  <1>2. LockIsExclusive'
    BY CreationAssumption
       DEF IInv, TypeOK, LockInv, LockIsExclusive, OrdersOf, Holding, Creating, Progress,
           Goto
  <1>3. LockIsInUse'
    BY CreationAssumption
       DEF IInv, TypeOK, LockInv, LockIsInUse, OrdersOf, Unharmed, Creating, Progress, Goto
  <1> QED
    BY <1>1, <1>2, <1>3 DEF LockInv

LEMMA ForgetKeepsLock ==
  ASSUME IInv, LockInv, NEW k \in Keys, Forget(k)
  PROVE  LockInv'
  <1>1. faults' # 0
    BY DEF Forget, Fault, IInv, TypeOK
  <1> QED
    BY <1>1 DEF LockInv, OwnOrdersNothing, LockIsExclusive, LockIsInUse, Unharmed

LEMMA NextKeepsLock == IInv /\ LockInv /\ [Next]_vars => LockInv'
  <1> SUFFICES ASSUME IInv, LockInv, [Next]_vars PROVE LockInv'
    OBVIOUS
  <1>1. ASSUME NEW r \in Requests, Step(r) \/ Crash(r) \/ Progress(r) PROVE LockInv'
    BY <1>1, GetKeepsLock, FindByIdKeepsLock, FindByKeyKeepsLock, AcquireKeepsLock,
       CheckoutKeepsLock, RefuseKeepsLock, InsertKeepsLock, RecoverKeepsLock,
       AdoptKeepsLock, PublishKeepsLock, StoreKeepsLock, UndoKeepsLock, CrashKeepsLock,
       ProgressKeepsLock DEF Step
  <1>2. ASSUME NEW k \in Keys, Forget(k) PROVE LockInv'
    BY <1>2, ForgetKeepsLock
  <1>3. CASE UNCHANGED vars
    BY <1>3 DEF vars, LockInv, OwnOrdersNothing, LockIsExclusive, LockIsInUse, OrdersOf, Unharmed
  <1> QED
    BY <1>1, <1>2, <1>3 DEF Next

LEMMA LockInvariance == Spec => [](IInv /\ LockInv)
  BY InitIInv, NextKeeps, InitLockInv, NextKeepsLock, PTL DEF Spec

\* For any number of requests and keys, and however many of them die, a client
\* is told "failed" only when no order of its key exists.
THEOREM FailureIsHonest == Spec => []FailedMeansNoOrder
  <1>1. IInv /\ LockInv => FailedMeansNoOrder
    BY CreationAssumption
       DEF IInv, TypeOK, LockInv, OwnOrdersNothing, LockIsExclusive, OrdersOf,
           FailedMeansNoOrder
  <1> QED
    BY LockInvariance, <1>1, PTL

\* Likewise for the lock: it is held whenever it must be, and by somebody who
\* will give it back.
THEOREM LockFollowsWork == Spec => []LockedWhileAtWork
  <1>1. IInv /\ LockInv => LockedWhileAtWork
    BY DEF LockInv, LockIsExclusive, LockIsInUse, Holding, LockedWhileAtWork
  <1> QED
    BY LockInvariance, <1>1, PTL
=============================================================================
