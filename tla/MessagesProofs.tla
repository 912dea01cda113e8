---------------------------- MODULE MessagesProofs ----------------------------
(***************************************************************************)
(* What holds of notices, of the matching of items, of the chat of a tab,  *)
(* of a lost or found item with its claims and of the limit on OCR         *)
(* requests, whatever the number of replicas, copies, words, messages,     *)
(* claims and requests; and, with PagesProofs, of all the parts that       *)
(* MCMessages explores together.                                           *)
(***************************************************************************)
EXTENDS MCMessages, PagesProofs

-----------------------------------------------------------------------------
(* Notices.                                                                *)

NoticesSpec == (\E e \in NoticeEvents : NoticesInitWith(e)) /\ [][NoticesNext]_noticeVars

NoticesPlaced ==
  /\ NoticesTypeOK
  /\ committed <= finished /\ finished < position /\ position <= copies + 1
  /\ \A r \in NoticeReplicas :
       handler[r] # Resting =>
         handler[r].copy <= copies /\ (handler[r].failed => handler[r].todo = <<>>)
  /\ handler[owner] # Resting => finished < handler[owner].copy /\ handler[owner].copy < position

Told == Range(Tells(event))

AllTold == \A p \in Told : notices[p] > 0

\* A parked row that nobody retries: an admin sees it.
Parked == \E i \in 1..Len(dlq) : i \notin retrying /\ dlq[i] = "PENDING"

Dealt == forgotten \/ AllTold \/ Parked

\* r handles the copy published last.
OnLast(r) == handler[r] # Resting /\ handler[r].copy = copies

\* What its handler has not told yet it will, or its fate is settled.
HandlersTell ==
  \A r \in NoticeReplicas :
    OnLast(r) /\ ~handler[r].failed =>
      \/ forgotten \/ Parked
      \/ \A p \in Told : notices[p] > 0 \/ p \in Range(handler[r].todo)

FinishedIsDealt == finished = copies => Dealt

LastIsAlive == position <= copies \/ Dealt \/ \E r \in NoticeReplicas : OnLast(r)

NoticesIInv == NoticesPlaced /\ HandlersTell /\ FinishedIsDealt /\ LastIsAlive

LEMMA OneTold == ASSUME NEW S, NEW a \in S PROVE <<a>> \in Seq(S) /\ Range(<<a>>) = {a}
  BY DEF Range

LEMMA TwoTold == ASSUME NEW S, NEW a \in S, NEW b \in S PROVE <<a, b>> \in Seq(S) /\ Range(<<a, b>>) = {a, b}
  BY DEF Range

\* Whom an event concerns are persons, and the other side of an order is among them.
LEMMA TellsPersons == ASSUME NEW e \in NoticeEvents PROVE Tells(e) \in Seq(Persons)
<1>1. /\ \A a \in Persons : <<a>> \in Seq(Persons)
      /\ \A a, b \in Persons : <<a, b>> \in Seq(Persons)
  BY OneTold, TwoTold
<1>2. BothParties \in Seq(Persons) /\ NotTheActor(e) \in Seq(Persons) /\ PaymentTells(e) \in Seq(Persons)
  BY <1>1 DEF BothParties, NotTheActor, PaymentTells, Persons
<1>3. e.topic \in {"lostfound.analyzed", "lostfound.match", "lostfound.claim.created", "lostfound.claim.resolved"}
        => LostFoundTells(e) \in Seq(Persons)
  BY <1>1 DEF LostFoundTells, Persons
<1> QED
  BY <1>1, <1>2, <1>3 DEF Tells, Persons, NoticeEvents, OrderEvents, OtherEvents, TellsSeller, TellsBoth, TellsTheOther,
       BySeller, ByBuyer, ByEither, ByAdmin, BySystem

LEMMA OtherSideTold == event \in NoticeEvents => OtherSide \subseteq Told
<1> SUFFICES ASSUME event \in OrderEvents, event.by # "system"
             PROVE  {"buyer", "seller"} \ {event.by} \subseteq Range(Tells(event))
  BY DEF OtherSide, Told
<1>1. /\ Range(<<"buyer">>) = {"buyer"} /\ Range(<<"seller">>) = {"seller"}
      /\ Range(BothParties) = {"buyer", "seller"}
  BY OneTold, TwoTold, ZenonT(30) DEF BothParties
<1> QED
  BY <1>1 DEF OrderEvents, BySeller, ByBuyer, ByEither, ByAdmin, BySystem, Tells, TellsSeller, TellsBoth,
       TellsTheOther, NotTheActor, PaymentTells

LEMMA HeadOrTail ==
  ASSUME NEW S, NEW s \in Seq(S), s # <<>>, NEW p \in Range(s)
  PROVE  p = Head(s) \/ p \in Range(Tail(s))
<1>1. /\ Len(s) \in Nat \ {0} /\ DOMAIN s = 1..Len(s)
      /\ DOMAIN Tail(s) = 1..Len(s) - 1 /\ \A i \in 1..Len(s) - 1 : Tail(s)[i] = s[i + 1]
      /\ Head(s) = s[1]
  BY HeadTailProperties, LenProperties, EmptySeq
<1> PICK i \in 1..Len(s) : p = s[i]
  BY <1>1 DEF Range
<1>2. CASE i = 1
  BY <1>1, <1>2
<1>3. CASE i > 1
  <2>1. i - 1 \in 1..Len(s) - 1 /\ Tail(s)[i - 1] = p
    BY <1>1, <1>3
  <2> QED
    BY <1>1, <2>1 DEF Range
<1> QED
  BY <1>1, <1>2, <1>3

LEMMA NoticesStart ==
  ASSUME NEW e \in NoticeEvents, NoticesInitWith(e)
  PROVE  NoticesIInv
<1>1. event \in NoticeEvents /\ forgotten \in BOOLEAN
  BY DEF NoticesInitWith
<1>2. notices \in [Persons -> Nat] /\ handler \in [NoticeReplicas -> Handling \cup {Resting}]
  BY DEF NoticesInitWith
<1>3. dlq \in Seq({"PENDING", "RETRYING", "deleted"}) /\ retrying \subseteq 1..Len(dlq)
  BY EmptySeq DEF NoticesInitWith
<1>4. /\ copies \in 1..MaxCopies /\ position \in 1..MaxCopies + 1
      /\ finished \in 0..MaxCopies /\ committed \in 0..MaxCopies /\ noticeFaults \in Nat
      /\ owner \in NoticeReplicas
  BY NoticesAssumption DEF NoticesInitWith
<1>5. NoticesTypeOK
  BY <1>1, <1>2, <1>3, <1>4 DEF NoticesTypeOK
<1> QED
  BY <1>5, NoticesAssumption DEF NoticesInitWith, NoticesIInv, NoticesPlaced, HandlersTell, FinishedIsDealt, LastIsAlive, OnLast

LEMMA ReceiveKeeps ==
  ASSUME NoticesIInv, NEW r \in NoticeReplicas, Receive(r)
  PROVE  NoticesIInv'
<1> USE DEF NoticesIInv
<1> PICK t : t = [copy |-> position, todo |-> Tells(event), failed |-> FALSE]
  OBVIOUS
<1>1. t \in Handling /\ t.copy = position /\ t.todo = Tells(event) /\ ~t.failed
  <2>1. position \in 1..MaxCopies
    BY NoticesAssumption DEF NoticesPlaced, NoticesTypeOK, Receive
  <2> QED
    BY <2>1, TellsPersons DEF NoticesPlaced, NoticesTypeOK, Handling
<1>2. t # Resting
  BY <1>1, NoticesAssumption
<1>3. handler' = [handler EXCEPT ![r] = t] /\ position' = position + 1 /\ position <= copies
  BY DEF Receive
<1>4. UNCHANGED <<event, copies, finished, committed, owner, notices, dlq, retrying, forgotten, noticeFaults>>
  BY DEF Receive
<1>5. handler \in [NoticeReplicas -> Handling \cup {Resting}]
  BY DEF NoticesPlaced, NoticesTypeOK
<1>6. NoticesTypeOK'
  <2>1. position' \in 1..MaxCopies + 1
    BY <1>3, NoticesAssumption DEF NoticesPlaced, NoticesTypeOK
  <2> QED
    BY <1>1, <1>3, <1>4, <2>1 DEF NoticesPlaced, NoticesTypeOK
<1>7. NoticesPlaced'
  <2>1. committed' <= finished' /\ finished' < position' /\ position' <= copies' + 1
    BY <1>3, <1>4, NoticesAssumption DEF NoticesPlaced, NoticesTypeOK
  <2>2. \A q \in NoticeReplicas : handler'[q] # Resting =>
           handler'[q].copy <= copies' /\ (handler'[q].failed => handler'[q].todo = <<>>)
    BY <1>1, <1>3, <1>4, <1>5 DEF NoticesPlaced
  <2>3. handler'[owner'] # Resting => finished' < handler'[owner'].copy /\ handler'[owner'].copy < position'
    BY <1>1, <1>3, <1>4, <1>5, NoticesAssumption DEF Receive, NoticesPlaced, NoticesTypeOK
  <2> QED
    BY <1>6, <2>1, <2>2, <2>3 DEF NoticesPlaced
<1>8. Told' = Told /\ Dealt' = Dealt /\ Parked' = Parked
  BY <1>4 DEF Told, Dealt, AllTold, Parked
<1>9. HandlersTell'
  BY <1>1, <1>3, <1>4, <1>5, <1>8 DEF HandlersTell, OnLast, Told
<1>10. FinishedIsDealt'
  BY <1>4, <1>8 DEF FinishedIsDealt
<1>11. LastIsAlive'
  <2>1. CASE position = copies
    BY <1>1, <1>2, <1>3, <1>4, <1>5, <2>1 DEF LastIsAlive, OnLast
  <2>2. CASE position # copies
    BY <1>3, <1>4, <2>2, NoticesAssumption DEF LastIsAlive, NoticesPlaced, NoticesTypeOK
  <2> QED
    BY <2>1, <2>2
<1> QED
  BY <1>7, <1>9, <1>10, <1>11

\* A replica goes on with the copy it has.
LEMMA HandlerMoves ==
  ASSUME NoticesIInv, NEW r \in NoticeReplicas, handler[r] # Resting,
         NEW t \in Handling, t.copy = handler[r].copy, handler' = [handler EXCEPT ![r] = t],
         t.failed => t.todo = <<>>,
         UNCHANGED <<event, copies, position, finished, committed, owner, retrying>>,
         NoticesTypeOK', Dealt => Dealt',
         forgotten => forgotten', Parked => Parked', \A p \in Persons : notices[p] > 0 => notices'[p] > 0,
         OnLast(r) /\ ~t.failed =>
           (forgotten \/ Parked)' \/ \A p \in Told : notices'[p] > 0 \/ p \in Range(t.todo)
  PROVE  NoticesIInv'
<1> USE DEF NoticesIInv
<1>1. handler \in [NoticeReplicas -> Handling \cup {Resting}] /\ t # Resting
  BY NoticesAssumption DEF NoticesPlaced, NoticesTypeOK
<1>2. NoticesPlaced'
  <2>1. \A q \in NoticeReplicas : handler'[q] # Resting => handler[q] # Resting /\ handler'[q].copy = handler[q].copy
    BY <1>1
  <2>2. owner \in NoticeReplicas
    BY DEF NoticesPlaced, NoticesTypeOK
  <2>3. handler'[owner'] # Resting => finished' < handler'[owner'].copy /\ handler'[owner'].copy < position'
    BY <2>1, <2>2 DEF NoticesPlaced
  <2> QED
    BY <1>1, <2>3 DEF NoticesPlaced
<1>3. \A q \in NoticeReplicas : OnLast(q)' <=> OnLast(q)
  BY <1>1 DEF OnLast
<1>4. Told' = Told /\ Told \subseteq Persons
  <2>1. Tells(event) \in Seq(Persons)
    BY TellsPersons DEF NoticesPlaced, NoticesTypeOK
  <2> QED
    BY <2>1 DEF Told, Range
<1>5. HandlersTell'
  <2> SUFFICES ASSUME NEW q \in NoticeReplicas, OnLast(q), ~handler'[q].failed
               PROVE  (forgotten \/ Parked)' \/ \A p \in Told : notices'[p] > 0 \/ p \in Range(handler'[q].todo)
    BY <1>3, <1>4 DEF HandlersTell
  <2>1. CASE q = r
    BY <2>1, <1>1
  <2>2. CASE q # r
    <3>1. handler'[q] = handler[q]
      BY <2>2, <1>1
    <3>2. forgotten \/ Parked \/ \A p \in Told : notices[p] > 0 \/ p \in Range(handler[q].todo)
      BY <3>1 DEF HandlersTell
    <3> QED
      BY <3>1, <3>2, <1>4
  <2> QED
    BY <2>1, <2>2
<1>6. FinishedIsDealt'
  BY DEF FinishedIsDealt
<1>7. LastIsAlive'
  BY <1>3 DEF LastIsAlive
<1> QED
  BY <1>2, <1>5, <1>6, <1>7

LEMMA SendNotificationKeeps ==
  ASSUME NoticesIInv, NEW r \in NoticeReplicas, SendNotification(r)
  PROVE  NoticesIInv'
<1> USE DEF NoticesIInv
<1> PICK h : h = handler[r]
  OBVIOUS
<1>1. h \in Handling /\ h # Resting /\ h.todo # <<>> /\ ~h.failed
  BY DEF SendNotification, NoticesPlaced, NoticesTypeOK
<1>2. h.todo \in Seq(Persons)
  BY <1>1 DEF Handling
<1>3. UNCHANGED <<event, copies, position, finished, committed, owner, dlq, retrying>>
  BY DEF SendNotification
<1>4. Told' = Told /\ Told \subseteq Persons
  <2>1. Tells(event) \in Seq(Persons)
    BY TellsPersons DEF NoticesPlaced, NoticesTypeOK
  <2> QED
    BY <1>3, <2>1 DEF Told, Range
<1>5. ASSUME notices' = [notices EXCEPT ![Head(h.todo)] = @ + 1],
             handler' = [handler EXCEPT ![r].todo = Tail(@)],
             UNCHANGED <<forgotten, noticeFaults>>
      PROVE  NoticesIInv'
  <2> PICK t : t = [h EXCEPT !.todo = Tail(h.todo)]
    OBVIOUS
  <2>1. t \in Handling /\ t.copy = h.copy /\ ~t.failed /\ t.todo = Tail(h.todo)
    BY <1>1, <1>2, HeadTailProperties DEF Handling
  <2>2. handler' = [handler EXCEPT ![r] = t]
    BY <1>5
  <2>3. Head(h.todo) \in Persons
    BY <1>1, <1>2, HeadTailProperties
  <2>4. /\ notices' \in [Persons -> Nat] /\ notices'[Head(h.todo)] > 0
        /\ \A p \in Persons : notices[p] > 0 => notices'[p] > 0
    <3> PICK a \in Persons : a = Head(h.todo)
      BY <2>3
    <3>1. notices \in [Persons -> Nat] /\ notices' = [notices EXCEPT ![a] = notices[a] + 1]
      BY <1>5 DEF NoticesPlaced, NoticesTypeOK
    <3>2. notices' \in [Persons -> Nat] /\ notices'[a] > 0
      BY <3>1
    <3>3. \A p \in Persons : notices[p] > 0 => notices'[p] > 0
      BY <3>1
    <3> QED
      BY <3>2, <3>3
  <2>5. NoticesTypeOK'
    BY <1>3, <1>5, <2>1, <2>2, <2>4 DEF NoticesPlaced, NoticesTypeOK
  <2>6. (Parked <=> Parked') /\ (Dealt => Dealt')
    BY <1>3, <1>4, <1>5, <2>4 DEF Parked, Dealt, AllTold
  <2>7. OnLast(r) => (forgotten \/ Parked)' \/ \A p \in Told : notices'[p] > 0 \/ p \in Range(t.todo)
    <3> SUFFICES ASSUME OnLast(r), ~(forgotten \/ Parked), NEW p \in Told, notices'[p] = 0
                 PROVE  p \in Range(t.todo)
      BY <1>4, <1>5, <2>4, <2>6
    <3>1. notices[p] > 0 \/ p \in Range(h.todo)
      BY <1>1 DEF HandlersTell
    <3>2. p \in Range(h.todo) /\ p # Head(h.todo)
      BY <3>1, <1>4, <2>4
    <3> QED
      BY <3>2, <1>1, <1>2, <2>1, HeadOrTail
  <2> QED
    BY <1>1, <1>3, <1>5, <2>1, <2>2, <2>4, <2>5, <2>6, <2>7, HandlerMoves, ZenonT(30)
<1>6. ASSUME NoticeFault, handler' = [handler EXCEPT ![r].todo = <<>>, ![r].failed = ~LogsOnly(event)],
             forgotten' = (forgotten \/ LogsOnly(event)), UNCHANGED notices
      PROVE  NoticesIInv'
  <2> PICK t : t = [h EXCEPT !.todo = <<>>, !.failed = ~LogsOnly(event)]
    OBVIOUS
  <2>1. t \in Handling /\ t.copy = h.copy /\ (t.failed <=> ~LogsOnly(event)) /\ t.todo = <<>>
    <3>1. LogsOnly(event) \in BOOLEAN /\ <<>> \in Seq(Persons)
      BY EmptySeq DEF LogsOnly
    <3> HIDE DEF LogsOnly
    <3> QED
      BY <1>1, <3>1 DEF Handling
  <2>2. handler' = [handler EXCEPT ![r] = t]
    BY <1>6
  <2>3. forgotten' \in BOOLEAN /\ noticeFaults' \in Nat
    BY <1>6 DEF NoticeFault, NoticesPlaced, NoticesTypeOK
  <2>4. NoticesTypeOK'
    BY <1>3, <1>6, <2>1, <2>2, <2>3 DEF NoticesPlaced, NoticesTypeOK
  <2>5. (Parked <=> Parked') /\ (Dealt => Dealt')
    BY <1>3, <1>4, <1>6 DEF Parked, Dealt, AllTold
  <2>6. ~t.failed => forgotten'
    BY <1>6, <2>1
  <2>7. (forgotten => forgotten') /\ \A p \in Persons : notices[p] > 0 => notices'[p] > 0
    BY <1>6
  <2> QED
    BY <1>1, <1>3, <2>1, <2>2, <2>4, <2>5, <2>6, <2>7, HandlerMoves
<1> QED
  BY <1>5, <1>6 DEF SendNotification

LEMMA ParkKeeps ==
  ASSUME NoticesIInv, NEW r \in NoticeReplicas, Park(r)
  PROVE  NoticesIInv'
<1> USE DEF NoticesIInv
<1> PICK h : h = handler[r]
  OBVIOUS
<1>1. h \in Handling /\ h # Resting /\ h.failed /\ h.todo = <<>>
  BY DEF Park, NoticesPlaced, NoticesTypeOK
<1> PICK t : t = [h EXCEPT !.failed = FALSE]
  OBVIOUS
<1>2. t \in Handling /\ t.copy = h.copy /\ ~t.failed
  BY <1>1 DEF Handling
<1>3. handler' = [handler EXCEPT ![r] = t]
  BY DEF Park
<1>4. UNCHANGED <<event, copies, position, finished, committed, owner, notices, retrying>>
  BY DEF Park
<1>5. Len(dlq) \in Nat /\ dlq \in Seq({"PENDING", "RETRYING", "deleted"}) /\ retrying \subseteq 1..Len(dlq)
  BY LenProperties DEF NoticesPlaced, NoticesTypeOK
<1>6. ASSUME dlq' = Append(dlq, "PENDING"), UNCHANGED <<forgotten, noticeFaults>>
      PROVE  NoticesIInv'
  <2>1. dlq' \in Seq({"PENDING", "RETRYING", "deleted"}) /\ Len(dlq') = Len(dlq) + 1 /\ dlq'[Len(dlq) + 1] = "PENDING"
    BY <1>5, <1>6, AppendProperties
  <2>2. Parked'
    <3>1. Len(dlq) + 1 \in 1..Len(dlq') /\ Len(dlq) + 1 \notin retrying'
      BY <1>4, <1>5, <2>1
    <3> QED
      BY <2>1, <3>1 DEF Parked
  <2>3. retrying' \subseteq 1..Len(dlq')
    BY <1>4, <1>5, <2>1
  <2>4. NoticesTypeOK'
    BY <1>2, <1>3, <1>4, <1>6, <2>1, <2>3 DEF NoticesPlaced, NoticesTypeOK
  <2> QED
    BY <1>1, <1>2, <1>3, <1>4, <1>6, <2>2, <2>4, HandlerMoves DEF Dealt
<1>7. ASSUME NoticeFault, forgotten' = TRUE, UNCHANGED dlq
      PROVE  NoticesIInv'
  <2>1. noticeFaults' \in Nat
    BY <1>7 DEF NoticeFault, NoticesPlaced, NoticesTypeOK
  <2>2. NoticesTypeOK'
    BY <1>2, <1>3, <1>4, <1>7, <2>1 DEF NoticesPlaced, NoticesTypeOK
  <2>3. Parked => Parked'
    BY <1>4, <1>7 DEF Parked
  <2> QED
    BY <1>1, <1>2, <1>3, <1>4, <1>7, <2>2, <2>3, HandlerMoves DEF Dealt
<1> QED
  BY <1>6, <1>7 DEF Park

LEMMA FinishKeeps ==
  ASSUME NoticesIInv, NEW r \in NoticeReplicas, Finish(r)
  PROVE  NoticesIInv'
<1> USE DEF NoticesIInv
<1> PICK h : h = handler[r]
  OBVIOUS
<1>1. h \in Handling /\ h # Resting /\ ~h.failed /\ h.todo = <<>> /\ h.copy <= copies
  BY DEF Finish, NoticesPlaced, NoticesTypeOK
<1>2. handler' = [handler EXCEPT ![r] = Resting]
  BY DEF Finish
<1>3. finished' = finished \/ (finished' = h.copy /\ h.copy < position /\ owner = r)
  BY DEF Finish
<1>4. UNCHANGED <<event, copies, position, committed, owner, notices, dlq, retrying, forgotten, noticeFaults>>
  BY DEF Finish
<1>5. handler \in [NoticeReplicas -> Handling \cup {Resting}] /\ h.copy \in 1..MaxCopies
  BY <1>1 DEF NoticesPlaced, NoticesTypeOK, Handling
<1>6. h.copy = copies => Dealt
  <2>1. \A p : p \notin Range(<<>>)
    BY DEF Range
  <2> QED
    BY <1>1, <2>1 DEF HandlersTell, OnLast, Dealt, AllTold
<1>7. (Dealt <=> Dealt') /\ (Parked <=> Parked') /\ Told' = Told
  BY <1>4 DEF Dealt, AllTold, Parked, Told
<1>8. NoticesPlaced'
  <2>1. finished' \in 0..MaxCopies
    BY <1>3, <1>5, NoticesAssumption DEF NoticesPlaced, NoticesTypeOK
  <2>2. NoticesTypeOK'
    BY <1>2, <1>4, <1>5, <2>1 DEF NoticesPlaced, NoticesTypeOK
  <2>3. committed <= finished' /\ finished' < position
    BY <1>1, <1>3, <1>5, NoticesAssumption DEF NoticesPlaced, NoticesTypeOK
  <2>4. handler'[owner'] # Resting => finished' < handler'[owner'].copy /\ handler'[owner'].copy < position'
    <3> SUFFICES ASSUME owner # r, handler[owner] # Resting
                 PROVE  finished < handler[owner].copy /\ handler[owner].copy < position /\ finished' = finished
      BY <1>2, <1>3, <1>4, <1>5 DEF NoticesPlaced, NoticesTypeOK
    <3> QED
      BY <1>3 DEF NoticesPlaced
  <2>5. \A q \in NoticeReplicas : handler'[q] # Resting =>
           handler'[q].copy <= copies' /\ (handler'[q].failed => handler'[q].todo = <<>>)
    BY <1>2, <1>4, <1>5 DEF NoticesPlaced
  <2> QED
    BY <1>4, <2>2, <2>3, <2>4, <2>5 DEF NoticesPlaced
<1>9. HandlersTell'
  BY <1>2, <1>4, <1>5, <1>7 DEF HandlersTell, OnLast
<1>10. FinishedIsDealt'
  BY <1>3, <1>4, <1>6, <1>7 DEF FinishedIsDealt
<1>11. LastIsAlive'
  BY <1>1, <1>2, <1>4, <1>5, <1>6, <1>7 DEF LastIsAlive, OnLast
<1> QED
  BY <1>8, <1>9, <1>10, <1>11

LEMMA CommitOffsetsKeeps ==
  ASSUME NoticesIInv, CommitOffsets
  PROVE  NoticesIInv'
<1> USE DEF NoticesIInv
<1>1. committed' = finished
  BY DEF CommitOffsets
<1>2. UNCHANGED <<event, copies, position, finished, owner, handler, notices, dlq, retrying, forgotten, noticeFaults>>
  BY DEF CommitOffsets
<1>3. NoticesPlaced'
  BY <1>1, <1>2, NoticesAssumption DEF NoticesPlaced, NoticesTypeOK
<1>4. HandlersTell' /\ FinishedIsDealt' /\ LastIsAlive'
  BY <1>2 DEF HandlersTell, FinishedIsDealt, LastIsAlive, Dealt, AllTold, Parked, Told, OnLast
<1> QED
  BY <1>3, <1>4

LEMMA RebalanceKeeps ==
  ASSUME NoticesIInv, NEW r \in NoticeReplicas, NEW s \in NoticeReplicas, NEW crashed \in BOOLEAN,
         Rebalance(r, s, crashed)
  PROVE  NoticesIInv'
<1> USE DEF NoticesIInv
<1>1. /\ handler' = [handler EXCEPT ![r] = Resting] \/ handler' = handler
      /\ owner' = s /\ handler'[s] = Resting /\ position' = committed + 1 /\ finished' = committed
      /\ noticeFaults' = noticeFaults + 1
  BY DEF Rebalance, NoticeFault
<1>2. UNCHANGED <<event, copies, committed, notices, dlq, retrying, forgotten>>
  BY DEF Rebalance
<1>3. handler \in [NoticeReplicas -> Handling \cup {Resting}]
  BY DEF NoticesPlaced, NoticesTypeOK
<1>4. \A q \in NoticeReplicas : handler'[q] = Resting \/ handler'[q] = handler[q]
  BY <1>1, <1>3
<1>5. NoticesPlaced'
  <2>1. position' \in 1..MaxCopies + 1 /\ finished' \in 0..MaxCopies /\ noticeFaults' \in Nat
    BY <1>1, NoticesAssumption DEF NoticesPlaced, NoticesTypeOK
  <2>2. NoticesTypeOK'
    BY <1>1, <1>2, <1>3, <2>1 DEF NoticesPlaced, NoticesTypeOK
  <2>3. committed <= finished' /\ finished' < position' /\ position' <= copies + 1
    BY <1>1, NoticesAssumption DEF NoticesPlaced, NoticesTypeOK
  <2> QED
    BY <1>1, <1>2, <1>4, <2>2, <2>3 DEF NoticesPlaced
<1>6. (Dealt <=> Dealt') /\ (Parked <=> Parked') /\ Told' = Told
  BY <1>2 DEF Dealt, AllTold, Parked, Told
<1>7. HandlersTell'
  BY <1>2, <1>4, <1>6 DEF HandlersTell, OnLast
<1>8. committed = copies => Dealt
  BY NoticesAssumption DEF FinishedIsDealt, NoticesPlaced, NoticesTypeOK
<1>9. FinishedIsDealt'
  BY <1>1, <1>2, <1>6, <1>8 DEF FinishedIsDealt
<1>10. LastIsAlive'
  <2>1. committed = copies \/ position' <= copies
    BY <1>1, NoticesAssumption DEF NoticesPlaced, NoticesTypeOK
  <2> QED
    BY <1>2, <1>6, <1>8, <2>1 DEF LastIsAlive
<1> QED
  BY <1>5, <1>7, <1>9, <1>10

LEMMA RetryEventKeeps ==
  ASSUME NoticesIInv, NEW i \in 1..Len(dlq), RetryEvent(i)
  PROVE  NoticesIInv'
<1> USE DEF NoticesIInv
<1>1. copies < MaxCopies /\ copies' = copies + 1 /\ retrying' = retrying \cup {i}
  BY DEF RetryEvent
<1>2. UNCHANGED <<event, position, finished, committed, owner, handler, notices, dlq, forgotten, noticeFaults>>
  BY DEF RetryEvent
<1>3. NoticesPlaced'
  <2>1. copies' \in 1..MaxCopies /\ position <= copies' + 1
    BY <1>1, NoticesAssumption DEF NoticesPlaced, NoticesTypeOK
  <2>2. NoticesTypeOK'
    BY <1>1, <1>2, <2>1 DEF NoticesPlaced, NoticesTypeOK
  <2>3. \A q \in NoticeReplicas : handler[q] # Resting => handler[q].copy \in Nat
    BY DEF NoticesPlaced, NoticesTypeOK, Handling
  <2> QED
    BY <1>1, <1>2, <2>1, <2>2, <2>3, NoticesAssumption DEF NoticesPlaced, NoticesTypeOK
<1>4. HandlersTell'
  <2>1. \A q \in NoticeReplicas : handler[q] # Resting => handler[q].copy # copies'
    BY <1>1, NoticesAssumption DEF NoticesPlaced, NoticesTypeOK, Handling
  <2> QED
    BY <1>2, <2>1 DEF HandlersTell, OnLast
<1>5. FinishedIsDealt' /\ LastIsAlive'
  BY <1>1, <1>2, NoticesAssumption DEF FinishedIsDealt, LastIsAlive, NoticesPlaced, NoticesTypeOK
<1> QED
  BY <1>3, <1>4, <1>5

\* What an admin does to row i takes no row away that is parked, but at the price of
\* forgetting.
LEMMA RowMoves ==
  ASSUME NoticesIInv, NEW i \in 1..Len(dlq), NEW d \in {"RETRYING", "deleted"},
         dlq' = dlq \/ dlq' = [dlq EXCEPT ![i] = d],
         retrying' \in {retrying, retrying \ {i}},
         UNCHANGED <<event, copies, position, finished, committed, owner, handler, notices>>,
         noticeFaults' \in Nat, forgotten' \in BOOLEAN, forgotten => forgotten',
         dlq[i] = "PENDING" /\ i \notin retrying => forgotten'
  PROVE  NoticesIInv'
<1> USE DEF NoticesIInv
<1>1. dlq \in Seq({"PENDING", "RETRYING", "deleted"}) /\ retrying \subseteq 1..Len(dlq)
  BY DEF NoticesPlaced, NoticesTypeOK
<1>2. /\ dlq' \in Seq({"PENDING", "RETRYING", "deleted"}) /\ Len(dlq') = Len(dlq)
      /\ \A j \in 1..Len(dlq) : j # i => dlq'[j] = dlq[j]
  BY <1>1, ExceptSeq
<1>3. Parked => forgotten' \/ Parked'
  BY <1>2 DEF Parked
<1>4. Dealt => Dealt'
  BY <1>3 DEF Dealt, AllTold, Told
<1>5. NoticesPlaced'
  BY <1>1, <1>2 DEF NoticesPlaced, NoticesTypeOK
<1>6. HandlersTell'
  BY <1>3 DEF HandlersTell, OnLast, Told
<1>7. FinishedIsDealt' /\ LastIsAlive'
  BY <1>4 DEF FinishedIsDealt, LastIsAlive, OnLast
<1> QED
  BY <1>5, <1>6, <1>7

LEMMA SaveRetriedKeeps ==
  ASSUME NoticesIInv, NEW i \in 1..Len(dlq), SaveRetried(i)
  PROVE  NoticesIInv'
<1>1. /\ i \in retrying /\ retrying' = retrying \ {i}
      /\ dlq' = dlq \/ dlq' = [dlq EXCEPT ![i] = "RETRYING"]
      /\ UNCHANGED <<event, copies, position, finished, committed, owner, handler, notices, forgotten>>
  BY DEF SaveRetried
<1>2. noticeFaults' \in Nat /\ forgotten' \in BOOLEAN
  BY DEF SaveRetried, NoticeFault, NoticesIInv, NoticesPlaced, NoticesTypeOK
<1> QED
  BY <1>1, <1>2, RowMoves

LEMMA DismissEventKeeps ==
  ASSUME NoticesIInv, NEW i \in 1..Len(dlq), DismissEvent(i)
  PROVE  NoticesIInv'
<1>1. /\ dlq' = [dlq EXCEPT ![i] = "deleted"] /\ retrying' = retrying
      /\ UNCHANGED <<event, copies, position, finished, committed, owner, handler, notices, noticeFaults>>
      /\ forgotten' = (forgotten \/ (dlq[i] = "PENDING" /\ i \notin retrying))
  BY DEF DismissEvent
<1>2. forgotten' \in BOOLEAN /\ (forgotten => forgotten') /\ (dlq[i] = "PENDING" /\ i \notin retrying => forgotten')
  BY <1>1 DEF NoticesIInv, NoticesPlaced, NoticesTypeOK
<1>3. noticeFaults' \in Nat
  BY <1>1 DEF NoticesIInv, NoticesPlaced, NoticesTypeOK
<1> QED
  BY <1>1, <1>2, <1>3, RowMoves

LEMMA NoticesStep == NoticesIInv /\ [NoticesNext]_noticeVars => NoticesIInv'
<1> SUFFICES ASSUME NoticesIInv, [NoticesNext]_noticeVars PROVE NoticesIInv'
  OBVIOUS
<1>1. ASSUME NEW r \in NoticeReplicas, Receive(r) \/ SendNotification(r) \/ Park(r) \/ Finish(r)
      PROVE  NoticesIInv'
  BY <1>1, ReceiveKeeps, SendNotificationKeeps, ParkKeeps, FinishKeeps
<1>2. ASSUME NEW r \in NoticeReplicas, NEW s \in NoticeReplicas, NEW crashed \in BOOLEAN, Rebalance(r, s, crashed)
      PROVE  NoticesIInv'
  BY <1>2, RebalanceKeeps
<1>3. CASE CommitOffsets
  BY <1>3, CommitOffsetsKeeps
<1>4. ASSUME NEW i \in 1..Len(dlq), RetryEvent(i) \/ SaveRetried(i) \/ DismissEvent(i)
      PROVE  NoticesIInv'
  BY <1>4, RetryEventKeeps, SaveRetriedKeeps, DismissEventKeeps
<1>5. CASE UNCHANGED noticeVars
  BY <1>5 DEF noticeVars, NoticesIInv, NoticesPlaced, NoticesTypeOK, HandlersTell, FinishedIsDealt, LastIsAlive,
              Dealt, AllTold, Parked, Told, OnLast
<1> QED
  BY <1>1, <1>2, <1>3, <1>4, <1>5 DEF NoticesNext

LEMMA NoticesInvariant == NoticesSpec => []NoticesIInv
<1>1. (\E e \in NoticeEvents : NoticesInitWith(e)) => NoticesIInv
  BY NoticesStart
<1> QED
  BY <1>1, NoticesStep, PTL DEF NoticesSpec

\* Whatever the event, and however many replicas crash, lose the partition, fail to
\* write and are handed the event again: unless it is forgotten in one of the three
\* recorded ways, a copy of the event is still to be read or handled, a parked copy is
\* shown as pending, or everyone it concerns has a notice.
THEOREM EventsReachPeople == NoticesSpec => []NobodyIsForgotten
<1>1. NoticesIInv => NobodyIsForgotten
  <2> SUFFICES ASSUME NoticesIInv, ~forgotten, ~(position <= copies), ~(\E r \in NoticeReplicas : handler[r] # Resting),
                      ~(\E i \in 1..Len(dlq) : dlq[i] = "PENDING")
               PROVE  \A p \in Range(Tells(event)) \cup OtherSide : notices[p] > 0
    BY DEF NobodyIsForgotten
  <2>1. AllTold
    BY DEF NoticesIInv, LastIsAlive, OnLast, Dealt, Parked
  <2>2. OtherSide \subseteq Told
    BY OtherSideTold DEF NoticesIInv, NoticesPlaced, NoticesTypeOK
  <2> QED
    BY <2>1, <2>2 DEF AllTold, Told
<1> QED
  BY <1>1, NoticesInvariant, PTL

-----------------------------------------------------------------------------
(* Matching.                                                               *)

MatchingSpec == MatchingInitWith(NewPost) /\ [][MatchingNext]_matchingVars

MatchingTypes ==
  /\ posting \in [Sides -> {"new", "created", "posted"}]
  /\ analysing \in [Sides -> {"none", "queued", "running", "saved", "done"}]
  /\ published \in BOOLEAN /\ missed \in BOOLEAN

\* Two items that find each other are published, or one of them has still to look,
\* or looked in vain.
OneStillLooks ==
  (\A i \in Sides : FindMatches(i)) =>
    published \/ missed \/ \E i \in Sides : posting[i] = "created" \/ analysing[i] = "saved"

MatchingIInv == MatchingTypes /\ OneStillLooks

LEMMA OppositeSides ==
  ASSUME NEW i \in Sides
  PROVE  Opposite(i) \in Sides /\ Opposite(i) # i /\ Opposite(Opposite(i)) = i
<1>1. Opposite("LOST") = "FOUND" /\ Opposite("FOUND") = "LOST"
  BY DEF Opposite, Sides
<1> QED
  BY <1>1 DEF Sides

LEMMA JaccardCommutes == ASSUME NEW A, NEW B PROVE Jaccard(A, B) = Jaccard(B, A)
<1>1. A \cup B = B \cup A /\ A \cap B = B \cap A
  OBVIOUS
<1> QED
  BY <1>1 DEF Jaccard

\* Score and weights do not depend on who looks.
LEMMA ScoreIsMutual ==
  ASSUME NEW s, NEW c
  PROVE  CalculateMatchScore(s, c) = CalculateMatchScore(c, s)
<1>1. /\ Jaccard(s.title, c.title) = Jaccard(c.title, s.title)
      /\ Jaccard(s.description, c.description) = Jaccard(c.description, s.description)
      /\ Jaccard(s.tags, c.tags) = Jaccard(c.tags, s.tags)
      /\ Jaccard(s.location, c.location) = Jaccard(c.location, s.location)
  BY JaccardCommutes
<1> QED
  BY <1>1 DEF CalculateMatchScore

LEMMA CompatibleIsMutual ==
  ASSUME NEW s, NEW c, Compatible(s, c)
  PROVE  Compatible(c, s) /\ Candidate(c, s)
  BY DEF Compatible, CategoriesCompatible, DetectedTypesCompatible, InferredTypesCompatible, Candidate

\* A word that an item repeats counts as two shared ones for it and as one for
\* an item that does not, and two are needed if neither category nor type agree.
Repeated(i) ==
  ~(EnoughShared(items[i], items[Opposite(i)]) <=> EnoughShared(items[Opposite(i)], items[i]))

\* Of two items posted, one that finds the other is found by it: the filter of
\* candidates loses none that the score would take, from either side, unless a
\* repeated word decides (matching.service.js, findMatches and calculateMatchScore).
FindingIsMutual ==
  (\A i \in Sides : posting[i] # "new") =>
    \A i \in Sides : FindMatches(i) /\ ~Repeated(i) => FindMatches(Opposite(i))

\* The filter of candidates loses no match, whichever item looks.
LEMMA FoundFinds ==
  ASSUME NEW i \in Sides, posting[i] # "new", FindMatches(i), ~Repeated(i)
  PROVE  FindMatches(Opposite(i))
<1> PICK j : j = Opposite(i)
  OBVIOUS
<1>1. Opposite(j) = i
  BY OppositeSides
<1>2. Compatible(items[i], items[j]) /\ EnoughShared(items[i], items[j])
      /\ 2 * CalculateMatchScore(items[i], items[j]).score >= CalculateMatchScore(items[i], items[j]).weights
  BY DEF FindMatches, Reaches
<1>3. EnoughShared(items[j], items[i])
  BY <1>2 DEF Repeated
<1>4. Compatible(items[j], items[i]) /\ Candidate(items[j], items[i])
  BY <1>2, CompatibleIsMutual
<1>5. CalculateMatchScore(items[i], items[j]) = CalculateMatchScore(items[j], items[i])
  BY ScoreIsMutual
<1>6. Reaches(items[j], items[i])
  BY <1>2, <1>3, <1>4, <1>5 DEF Reaches
<1> QED
  BY <1>1, <1>4, <1>6 DEF FindMatches

LEMMA MatchingStart == MatchingInitWith(NewPost) => MatchingIInv
<1> SUFFICES ASSUME MatchingInitWith(NewPost) PROVE MatchingIInv
  OBVIOUS
<1>1. MatchingTypes
  BY DEF MatchingInitWith, MatchingTypes
<1>2. ~FindMatches("LOST")
  BY OppositeSides DEF FindMatches, MatchingInitWith, Sides
<1> QED
  BY <1>1, <1>2 DEF MatchingIInv, OneStillLooks, Sides

\* Nobody finds more than before by a step that leaves the items alone and posts none.
LEMMA SameItemsSameMatches ==
  ASSUME items' = items, \A i \in Sides : posting'[i] = "new" <=> posting[i] = "new"
  PROVE  \A i \in Sides : FindMatches(i)' <=> FindMatches(i)
<1> SUFFICES ASSUME NEW i \in Sides PROVE FindMatches(i)' <=> FindMatches(i)
  OBVIOUS
<1> PICK j \in Sides : j = Opposite(i)
  BY OppositeSides
<1>1. FindMatches(i) <=> posting[j] # "new" /\ Candidate(items[i], items[j]) /\ Reaches(items[i], items[j])
  BY DEF FindMatches
<1>2. FindMatches(i)' <=> posting'[j] # "new" /\ Candidate(items'[i], items'[j]) /\ Reaches(items'[i], items'[j])
  BY DEF FindMatches
<1> QED
  BY <1>1, <1>2

\* An item that looks publishes what it finds, or it is recorded that it did not.
LEMMA LookingTells ==
  ASSUME NEW i \in Sides, Looks(i), published \in BOOLEAN, missed \in BOOLEAN
  PROVE  /\ published' \in BOOLEAN /\ missed' \in BOOLEAN
         /\ (published' \/ missed') <=> (published \/ missed \/ FindMatches(i))
<1>1. CASE published' = (published \/ FindMatches(i)) /\ missed' = missed
  BY <1>1
<1>2. CASE missed' = (missed \/ FindMatches(i)) /\ published' = published
  BY <1>2
<1> QED
  BY <1>1, <1>2 DEF Looks

LEMMA MatchingStep == MatchingIInv /\ [MatchingNext]_matchingVars => MatchingIInv'
<1> SUFFICES ASSUME MatchingIInv, [MatchingNext]_matchingVars PROVE MatchingIInv'
  OBVIOUS
<1> USE DEF MatchingIInv
<1>1. ASSUME NEW i \in Sides, CreateItem(i) PROVE MatchingIInv'
  <2>1. MatchingTypes'
    BY <1>1 DEF CreateItem, MatchingTypes
  <2>2. posting'[i] = "created"
    BY <1>1 DEF CreateItem, MatchingTypes
  <2> QED
    BY <2>1, <2>2 DEF OneStillLooks
<1>2. ASSUME NEW i \in Sides, AutoMatchOnCreate(i) PROVE MatchingIInv'
  <2>1. /\ posting' = [posting EXCEPT ![i] = "posted"] /\ posting[i] = "created"
        /\ items' = items /\ analysing' = analysing
        /\ published' \in BOOLEAN /\ missed' \in BOOLEAN
        /\ (published' \/ missed') <=> (published \/ missed \/ FindMatches(i))
    BY <1>2, LookingTells DEF AutoMatchOnCreate, MatchingTypes
  <2>2. MatchingTypes'
    BY <2>1 DEF MatchingTypes
  <2>3. \A k \in Sides : FindMatches(k)' <=> FindMatches(k)
    BY <2>1, SameItemsSameMatches DEF MatchingTypes
  <2> QED
    BY <2>1, <2>2, <2>3 DEF OneStillLooks
<1>3. ASSUME NEW i \in Sides, AnalyzeItem(i) \/ AnalysisFails(i) PROVE MatchingIInv'
  <2>1. /\ items' = items /\ posting' = posting /\ published' = published /\ missed' = missed
        /\ analysing[i] # "saved"
        /\ analysing' = [analysing EXCEPT ![i] = "running"] \/ analysing' = [analysing EXCEPT ![i] = "done"]
    BY <1>3 DEF AnalyzeItem, AnalysisFails
  <2>2. MatchingTypes' /\ \A k \in Sides : analysing[k] = "saved" => analysing'[k] = "saved"
    BY <2>1 DEF MatchingTypes
  <2>3. \A k \in Sides : FindMatches(k)' <=> FindMatches(k)
    BY <2>1, SameItemsSameMatches
  <2> QED
    BY <2>1, <2>2, <2>3 DEF OneStillLooks
<1>4. ASSUME NEW i \in Sides, SaveAnalysis(i) PROVE MatchingIInv'
  <2>1. /\ analysing' = [analysing EXCEPT ![i] = "saved"] /\ posting' = posting
        /\ published' = published /\ missed' = missed
    BY <1>4 DEF SaveAnalysis
  <2>2. MatchingTypes' /\ analysing'[i] = "saved"
    BY <2>1 DEF MatchingTypes
  <2> QED
    BY <2>2 DEF OneStillLooks
<1>5. ASSUME NEW i \in Sides, MatchAnalysed(i) PROVE MatchingIInv'
  <2>1. /\ analysing' = [analysing EXCEPT ![i] = "done"]
        /\ items' = items /\ posting' = posting
        /\ published' \in BOOLEAN /\ missed' \in BOOLEAN
        /\ (published' \/ missed') <=> (published \/ missed \/ FindMatches(i))
    BY <1>5, LookingTells DEF MatchAnalysed, MatchingTypes
  <2>2. MatchingTypes'
    BY <2>1 DEF MatchingTypes
  <2>3. \A k \in Sides : FindMatches(k)' <=> FindMatches(k)
    BY <2>1, SameItemsSameMatches
  <2> QED
    BY <2>1, <2>2, <2>3 DEF OneStillLooks
<1>6. CASE UNCHANGED matchingVars
  <2>1. /\ items' = items /\ posting' = posting /\ analysing' = analysing
        /\ published' = published /\ missed' = missed
    BY <1>6 DEF matchingVars
  <2>2. \A k \in Sides : FindMatches(k)' <=> FindMatches(k)
    BY <2>1, SameItemsSameMatches
  <2> QED
    BY <2>1, <2>2 DEF MatchingTypes, OneStillLooks
<1> QED
  BY <1>1, <1>2, <1>3, <1>4, <1>5, <1>6 DEF MatchingNext

LEMMA MatchingInvariant == MatchingSpec => []MatchingIInv
  BY MatchingStart, MatchingStep, PTL DEF MatchingSpec

\* Whatever words, categories, tags and places there are: of two posted items, one that
\* finds the other is found by it, unless a repeated word decides.
THEOREM MatchesAreMutual == MatchingSpec => []FindingIsMutual
<1>1. MatchingIInv => FindingIsMutual
  BY FoundFinds DEF FindingIsMutual
<1> QED
  BY <1>1, MatchingInvariant, PTL

\* In whatever order two items are posted and analysed: when both are done and each
\* finds the other, the match was published, unless a search that had found it failed.
THEOREM MatchesArePublished == MatchingSpec => []NoMatchIsMissed
<1>1. MatchingIInv => NoMatchIsMissed
  BY DEF MatchingIInv, OneStillLooks, NoMatchIsMissed, Sides
<1> QED
  BY <1>1, MatchingInvariant, PTL

\* An item as it may be stored: one that was analysed has at least its type for a tag.
StoredPost ==
  [title : Titles, description : Descriptions, tags : Tags \cup {{t} : t \in DetectedTypes},
   location : Places, category : AllCategories, detectedType : DetectedTypes \cup {NoType},
   images : BOOLEAN]

\* Whatever the words and the report, an analysis finds a type that is known.
LEMMA AnalysisFindsType ==
  ASSUME NEW described, NEW report
  PROVE  HybridAnalyze(described, report) \in DetectedTypes
<1>1. \A words : FromWords(words) \in DetectedTypes \cup {NoType}
  BY DEF FromWords, DetectedTypes, ItemTypes
<1>2. \A category : FromCategory(category) \in DetectedTypes \cup {NoType}
  BY DEF FromCategory, DetectedTypes, ItemTypes
<1>3. "student_card" \in DetectedTypes /\ "document" \in DetectedTypes /\ "unknown" \in DetectedTypes
  BY DEF DetectedTypes, ItemTypes
<1> DEFINE w == FromWords(described.title \cup described.description)
<1> HIDE DEF w
<1>4. w \in DetectedTypes \cup {NoType}
  BY <1>1 DEF w
<1>5. /\ FromWords(described.tags) \in DetectedTypes \cup {NoType}
      /\ FromCategory(described.category) \in DetectedTypes \cup {NoType}
  BY <1>1, <1>2
<1>6. HybridAnalyze(described, report) =
        CASE w # NoType -> w
          [] w = NoType /\ report = "student_card" -> "student_card"
          [] w = NoType /\ report = "numbered" -> "document"
          [] OTHER -> IF FromWords(described.tags) # NoType THEN FromWords(described.tags)
                      ELSE IF FromCategory(described.category) # NoType THEN FromCategory(described.category)
                      ELSE IF report = "text" THEN "document" ELSE "unknown"
  BY DEF HybridAnalyze, w
<1> QED
  BY <1>3, <1>4, <1>5, <1>6

LEMMA AnalysedIsStored ==
  ASSUME NEW d \in StoredPost, NEW type \in DetectedTypes
  PROVE  Analysed(d, type) \in StoredPost
<1> DEFINE category == IF d.category = "OTHER" THEN InferCategory[type] ELSE d.category
           tags == IF d.tags = {} THEN {type} ELSE d.tags
<1>1. Analysed(d, type) = [d EXCEPT !.detectedType = type, !.category = category, !.tags = tags]
  BY DEF Analysed, StoredPost
<1>2. category \in AllCategories
  BY DEF StoredPost, InferCategory, AllCategories, DetectedTypes, ItemTypes
<1>3. tags \in Tags \cup {{t} : t \in DetectedTypes}
  BY DEF StoredPost
<1> HIDE DEF category, tags
<1> QED
  BY <1>1, <1>2, <1>3 DEF StoredPost

LEMMA MatchingTypesHold == MatchingSpec => []MatchingTypeOK
<1> DEFINE Inv == items \in [Sides -> StoredPost] /\ MatchingTypeOK
<1>1. MatchingInitWith(NewPost) => Inv
  <2>1. NewPost \subseteq StoredPost
    BY MatchingAssumption DEF NewPost, StoredPost
  <2>2. ASSUME MatchingInitWith(NewPost) PROVE items \in [Sides -> StoredPost]
    BY <2>1, <2>2 DEF MatchingInitWith
  <2> QED
    BY <2>2 DEF MatchingInitWith, MatchingTypeOK, StoredPost
<1>2. ASSUME Inv, [MatchingNext]_matchingVars PROVE Inv'
  <2>1. ASSUME NEW i \in Sides, SaveAnalysis(i) PROVE items' \in [Sides -> StoredPost]
    <3>1. PICK report \in Reports : items' = [items EXCEPT ![i] = Analysed(items[i], HybridAnalyze(items[i], report))]
      BY <2>1 DEF SaveAnalysis
    <3>2. Analysed(items[i], HybridAnalyze(items[i], report)) \in StoredPost
      BY <1>2, AnalysisFindsType, AnalysedIsStored
    <3> QED
      BY <1>2, <3>1, <3>2
  <2>2. items' \in [Sides -> StoredPost]
    <3>1. (\E i \in Sides : SaveAnalysis(i)) \/ items' = items
      BY <1>2 DEF MatchingNext, CreateItem, AutoMatchOnCreate, AnalyzeItem, AnalysisFails, MatchAnalysed,
                  matchingVars
    <3> QED
      BY <1>2, <2>1, <3>1
  <2>3. published' \in BOOLEAN /\ missed' \in BOOLEAN
    <3>1. (published' = published /\ missed' = missed) \/ \E i \in Sides : Looks(i)
      BY <1>2 DEF MatchingNext, CreateItem, AutoMatchOnCreate, AnalyzeItem, SaveAnalysis, AnalysisFails,
                  MatchAnalysed, matchingVars
    <3> QED
      BY <1>2, <3>1, LookingTells DEF MatchingTypeOK
  <2>4. /\ posting' \in [Sides -> {"new", "created", "posted"}]
        /\ analysing' \in [Sides -> {"none", "queued", "running", "saved", "done"}]
    BY <1>2 DEF MatchingNext, CreateItem, AutoMatchOnCreate, AnalyzeItem, SaveAnalysis, AnalysisFails,
                MatchAnalysed, matchingVars, MatchingTypeOK
  <2> QED
    BY <2>2, <2>3, <2>4 DEF MatchingTypeOK, StoredPost
<1> QED
  BY <1>1, <1>2, PTL DEF MatchingSpec

-----------------------------------------------------------------------------
(* Chat.                                                                   *)

ChatSpec == ChatInit /\ [][ChatNext]_chatVars

Frame == [kind : {"subscribe", "unsubscribe"}, topic : Partners \cup {NoPartner}, sub : Nat]
           \cup [kind : {"send"}, topic : Partners, sub : Nat]
DownFrame == [id : Nat, sub : Nat]
History == [of : Partners, sub : Nat, read : BOOLEAN, has : SUBSET Nat]
Chats == [with : Partners, sub : Nat \ {0}]

ChatTypes ==
  /\ stored \in Seq(Partners) /\ Len(stored) <= MaxMessages
  /\ posts \in [Posts -> Post \cup {NoPartner}]
  /\ pendingFrames \in Seq(Partners) /\ down \in Seq(DownFrame)
  /\ opened \in Nat
  /\ activeChat = NoChat \/ (activeChat \in Chats /\ activeChat.sub <= opened)
  /\ shows \in [Messages -> 0..1] /\ histories \subseteq History

\* A subscription of the chat shown, or one that a frame behind it ends.
Lasts(f, chat, n) == f.sub \in 1..n /\ (f.sub = chat.sub => f.topic = chat.with)
Ends(f, g) == g.kind = "unsubscribe" /\ g.sub = f.sub

\* The session of the gateway, once it has read the frames u: it listens to its queue
\* and to the conversation of the chat, and nothing else.
SessionFollows(u, S, chat, n) ==
  /\ u \in Seq(Frame) /\ S \subseteq Frame
  /\ \A i \in 1..Len(u) : u[i].sub <= n
  /\ \A i \in 1..Len(u) : u[i].kind = "subscribe" /\ u[i] # Queue =>
       /\ Lasts(u[i], chat, n)
       /\ u[i].sub = chat.sub \/ \E j \in (i + 1)..Len(u) : Ends(u[i], u[j])
  /\ \A s \in S : s.kind = "subscribe" /\ (s # Queue =>
       /\ Lasts(s, chat, n)
       /\ s.sub = chat.sub \/ \E j \in 1..Len(u) : Ends(s, u[j]))
  /\ chat # NoChat =>
       /\ Topic(chat) \in S \/ \E i \in 1..Len(u) : u[i] = Topic(chat)
       /\ \A i \in 1..Len(u) : u[i].kind = "unsubscribe" =>
            u[i].sub # chat.sub /\ \E j \in (i + 1)..Len(u) : u[j] = Topic(chat)

LinkFollows ==
  IF link = "on" THEN SessionFollows(up, subs, activeChat, opened)
  ELSE up = <<>> /\ down = <<>> /\ subs = {}

\* What is on its way is stored, in the conversation it is on its way to.
PostsAreStored ==
  \A k \in Posts : posts[k] # NoPartner =>
    IF posts[k].at = "stored"
      THEN posts[k].id \in 1..Len(stored) /\ stored[posts[k].id] = posts[k].to
      ELSE posts[k].id = 0

FramesAreStored ==
  \A i \in 1..Len(down) :
    /\ down[i].id \in 1..Len(stored) /\ down[i].sub <= opened
    /\ down[i].sub # 0 /\ down[i].sub = activeChat.sub => stored[down[i].id] = activeChat.with

\* One history at most is under way, the window's.
HistoryIsCurrent ==
  /\ \A h, g \in histories : h = g
  /\ \A h \in histories :
       /\ activeChat # NoChat /\ h.of = activeChat.with
       /\ \A m \in h.has : m \in 1..Len(stored) /\ stored[m] = activeChat.with

ShownIsOwn ==
  histories = {} => \A m \in Messages : shows[m] > 0 => m \in 1..Len(stored) /\ stored[m] = activeChat.with

OnItsWay(m) == \E i \in 1..Len(down) : down[i].id = m /\ down[i].sub = activeChat.sub

\* A message of the window's conversation is shown, will be, or fell into a gap.
NothingMissing ==
  activeChat # NoChat => \A m \in 1..Len(stored) : stored[m] = activeChat.with =>
    \/ MayMiss(m) \/ OnItsWay(m)
    \/ histories = {} /\ shows[m] > 0
    \/ \E h \in histories : ~h.read \/ m \in h.has

Window == HistoryIsCurrent /\ ShownIsOwn /\ NothingMissing

ChatGood == ChatTypes /\ LinkFollows /\ PostsAreStored /\ FramesAreStored /\ Window

\* Once crossed, nothing more is claimed.
ChatIInv == crossed \/ ChatGood

-----------------------------------------------------------------------------
\* Frames for the gateway.

LEMMA FramesAre ==
  /\ Queue \in Frame /\ Queue.kind = "subscribe" /\ Queue.sub = 0 /\ Queue.topic = NoPartner
  /\ \A p \in Partners : Send(p) \in Frame /\ Send(p).kind = "send" /\ Send(p).sub = 0
  /\ \A c \in Chats : /\ Topic(c) \in Frame /\ Topic(c).kind = "subscribe"
                      /\ Topic(c).sub = c.sub /\ Topic(c).topic = c.with /\ Topic(c) # Queue
                      /\ Leave(c) \in Frame /\ Leave(c).kind = "unsubscribe" /\ Leave(c).sub = c.sub
                      /\ c # NoChat
  BY ChatAssumption DEF Queue, Send, Topic, Leave, Frame, Chats, NoChat

\* A message is sent.
LEMMA FollowsSend ==
  ASSUME NEW u, NEW S, NEW chat, NEW n \in Nat, SessionFollows(u, S, chat, n), NEW p \in Partners
  PROVE  SessionFollows(Append(u, Send(p)), S, chat, n)
  <1> DEFINE v == Append(u, Send(p))
  <1>1. u \in Seq(Frame) /\ S \subseteq Frame
    BY DEF SessionFollows
  <1>2. /\ v \in Seq(Frame) /\ Len(v) = Len(u) + 1 /\ Len(u) \in Nat
        /\ \A i \in 1..Len(u) : v[i] = u[i]
        /\ v[Len(u) + 1].kind = "send" /\ v[Len(u) + 1].sub = 0
    BY <1>1, AppendProperties, LenProperties, FramesAre
  <1> HIDE DEF v
  <1>3. ASSUME NEW i \in 1..Len(v), v[i].kind # "send"
        PROVE  i \in 1..Len(u) /\ v[i] = u[i] /\ (i + 1)..Len(u) \subseteq (i + 1)..Len(v)
    BY <1>2, <1>3
  <1>4. \A i \in 1..Len(v) : v[i].kind = "subscribe" /\ v[i] # Queue =>
       /\ Lasts(v[i], chat, n)
       /\ v[i].sub = chat.sub \/ \E j \in (i + 1)..Len(v) : Ends(v[i], v[j])
    BY <1>2, <1>3 DEF SessionFollows
  <1>5. \A s \in S : s.kind = "subscribe" /\ (s # Queue =>
       /\ Lasts(s, chat, n)
       /\ s.sub = chat.sub \/ \E j \in 1..Len(v) : Ends(s, v[j]))
    BY <1>2 DEF SessionFollows
  <1>6. chat # NoChat =>
       /\ Topic(chat) \in S \/ \E i \in 1..Len(v) : v[i] = Topic(chat)
       /\ \A i \in 1..Len(v) : v[i].kind = "unsubscribe" =>
            v[i].sub # chat.sub /\ \E j \in (i + 1)..Len(v) : v[j] = Topic(chat)
    BY <1>2, <1>3 DEF SessionFollows
  <1>7. \A i \in 1..Len(v) : v[i].sub <= n
    BY <1>2 DEF SessionFollows
  <1> QED
    BY <1>1, <1>2, <1>4, <1>5, <1>6, <1>7 DEF SessionFollows, v

\* The window closes.
LEMMA FollowsLeave ==
  ASSUME NEW u, NEW S, NEW chat \in Chats, NEW n \in Nat, chat.sub <= n, SessionFollows(u, S, chat, n)
  PROVE  SessionFollows(Append(u, Leave(chat)), S, NoChat, n)
  <1> DEFINE v == Append(u, Leave(chat))
  <1>1. u \in Seq(Frame) /\ S \subseteq Frame
    BY DEF SessionFollows
  <1>2. /\ v \in Seq(Frame) /\ Len(v) = Len(u) + 1 /\ Len(u) \in Nat
        /\ \A i \in 1..Len(u) : v[i] = u[i]
        /\ v[Len(u) + 1].kind = "unsubscribe" /\ v[Len(u) + 1].sub = chat.sub
    BY <1>1, AppendProperties, LenProperties, FramesAre
  <1> HIDE DEF v
  <1>3. \A f : Lasts(f, chat, n) => Lasts(f, NoChat, n)
    BY DEF Lasts, NoChat
  <1>4. ASSUME NEW i \in 1..Len(v), v[i].kind = "subscribe", v[i] # Queue
        PROVE  Lasts(v[i], NoChat, n) /\ \E j \in (i + 1)..Len(v) : Ends(v[i], v[j])
    <2>1. i \in 1..Len(u) /\ v[i] = u[i]
      BY <1>2, <1>4
    <2>2. Lasts(u[i], chat, n) /\ (u[i].sub = chat.sub \/ \E j \in (i + 1)..Len(u) : Ends(u[i], u[j]))
      BY <1>4, <2>1 DEF SessionFollows
    <2>3. CASE u[i].sub = chat.sub
      <3>1. Len(u) + 1 \in (i + 1)..Len(v) /\ Ends(v[i], v[Len(u) + 1])
        BY <1>2, <2>1, <2>3 DEF Ends
      <3> QED
        BY <1>3, <2>1, <2>2, <3>1
    <2>4. CASE \E j \in (i + 1)..Len(u) : Ends(u[i], u[j])
      <3>1. PICK j \in (i + 1)..Len(u) : Ends(u[i], u[j])
        BY <2>4
      <3>2. j \in (i + 1)..Len(v) /\ v[j] = u[j]
        BY <1>2
      <3> QED
        BY <1>3, <2>1, <2>2, <3>1, <3>2
    <2> QED
      BY <2>2, <2>3, <2>4
  <1>5. ASSUME NEW s \in S, s # Queue
        PROVE  Lasts(s, NoChat, n) /\ \E j \in 1..Len(v) : Ends(s, v[j])
    <2>1. Lasts(s, chat, n) /\ (s.sub = chat.sub \/ \E j \in 1..Len(u) : Ends(s, u[j]))
      BY <1>5 DEF SessionFollows
    <2>2. CASE s.sub = chat.sub
      <3>1. Len(u) + 1 \in 1..Len(v) /\ Ends(s, v[Len(u) + 1])
        BY <1>2, <2>2 DEF Ends
      <3> QED
        BY <1>3, <2>1, <3>1
    <2>3. CASE \E j \in 1..Len(u) : Ends(s, u[j])
      <3>1. PICK j \in 1..Len(u) : Ends(s, u[j])
        BY <2>3
      <3>2. j \in 1..Len(v) /\ v[j] = u[j]
        BY <1>2
      <3> QED
        BY <1>3, <2>1, <3>1, <3>2
    <2> QED
      BY <2>1, <2>2, <2>3
  <1>6. \A s \in S : s.kind = "subscribe"
    BY DEF SessionFollows
  <1>7. \A i \in 1..Len(v) : v[i].sub <= n
    BY <1>2 DEF SessionFollows
  <1> QED
    BY <1>1, <1>2, <1>4, <1>5, <1>6, <1>7 DEF SessionFollows, v

\* A window opens.
LEMMA FollowsTopic ==
  ASSUME NEW u, NEW S, NEW n \in Nat, SessionFollows(u, S, NoChat, n), NEW chat \in Chats, chat.sub = n + 1
  PROVE  SessionFollows(Append(u, Topic(chat)), S, chat, n + 1)
  <1> DEFINE v == Append(u, Topic(chat))
  <1>1. u \in Seq(Frame) /\ S \subseteq Frame /\ NoChat.sub = 0
    BY DEF SessionFollows, NoChat
  <1>2. /\ v \in Seq(Frame) /\ Len(v) = Len(u) + 1 /\ Len(u) \in Nat
        /\ \A i \in 1..Len(u) : v[i] = u[i]
        /\ v[Len(u) + 1] = Topic(chat)
    BY <1>1, AppendProperties, LenProperties, FramesAre
  <1> HIDE DEF v
  <1>3. /\ Topic(chat).kind = "subscribe" /\ Topic(chat).sub = n + 1 /\ Topic(chat).topic = chat.with
        /\ \A f : Lasts(f, NoChat, n) => Lasts(f, chat, n + 1) /\ f.sub # NoChat.sub
        /\ Lasts(Topic(chat), chat, n + 1)
    <2>1. Topic(chat).kind = "subscribe" /\ Topic(chat).sub = n + 1 /\ Topic(chat).topic = chat.with
      BY FramesAre
    <2>2. ASSUME NEW f, Lasts(f, NoChat, n) PROVE Lasts(f, chat, n + 1) /\ f.sub # NoChat.sub
      BY <1>1, <2>2 DEF Lasts
    <2>3. Lasts(Topic(chat), chat, n + 1)
      BY <2>1 DEF Lasts
    <2> QED
      BY <2>1, <2>2, <2>3
  <1>4. ASSUME NEW i \in 1..Len(v), v[i].kind = "subscribe", v[i] # Queue
        PROVE  /\ Lasts(v[i], chat, n + 1)
               /\ v[i].sub = chat.sub \/ \E j \in (i + 1)..Len(v) : Ends(v[i], v[j])
    <2>1. CASE i = Len(u) + 1
      BY <1>2, <1>3, <2>1
    <2>2. CASE i # Len(u) + 1
      <3>1. i \in 1..Len(u) /\ v[i] = u[i]
        BY <1>2, <2>2
      <3>2. Lasts(u[i], NoChat, n)
        BY <1>4, <3>1 DEF SessionFollows
      <3>3. \E j \in (i + 1)..Len(u) : Ends(u[i], u[j])
        BY <1>3, <1>4, <3>1, <3>2 DEF SessionFollows
      <3>4. \A j \in (i + 1)..Len(u) : j \in (i + 1)..Len(v) /\ v[j] = u[j]
        BY <1>2
      <3> QED
        BY <1>3, <3>1, <3>2, <3>3, <3>4
    <2> QED
      BY <2>1, <2>2
  <1>5. ASSUME NEW s \in S, s # Queue
        PROVE  Lasts(s, chat, n + 1) /\ \E j \in 1..Len(v) : Ends(s, v[j])
    <2>1. Lasts(s, NoChat, n)
      BY <1>5 DEF SessionFollows
    <2>2. \E j \in 1..Len(u) : Ends(s, u[j])
      BY <1>3, <1>5, <2>1 DEF SessionFollows
    <2>3. \A j \in 1..Len(u) : j \in 1..Len(v) /\ v[j] = u[j]
      BY <1>2
    <2> QED
      BY <1>3, <2>1, <2>2, <2>3
  <1>6. \A s \in S : s.kind = "subscribe"
    BY DEF SessionFollows
  <1>7. ASSUME NEW i \in 1..Len(v), v[i].kind = "unsubscribe"
        PROVE  \E j \in (i + 1)..Len(v) : v[j] = Topic(chat)
    BY <1>2, <1>3, <1>7
  <1>8. \A i \in 1..Len(v) : v[i].sub <= n + 1
    <2>1. \A i \in 1..Len(u) : u[i].sub \in Nat /\ u[i].sub <= n
      <3>1. \A i \in 1..Len(u) : u[i] \in Frame
        BY <1>1, ElementOfSeq
      <3> QED
        BY <3>1 DEF SessionFollows, Frame
    <2> QED
      BY <1>2, <1>3, <2>1
  <1>9. ASSUME NEW i \in 1..Len(v), v[i].kind = "unsubscribe" PROVE v[i].sub # chat.sub
    <2>1. i \in 1..Len(u) /\ v[i] = u[i]
      BY <1>2, <1>3, <1>9
    <2>2. u[i].sub <= n /\ u[i].sub \in Nat
      <3>1. u[i] \in Frame
        BY <1>1, <2>1, ElementOfSeq
      <3> QED
        BY <2>1, <3>1 DEF SessionFollows, Frame
    <2> QED
      BY <2>1, <2>2
  <1>10. Topic(chat) \in S \/ \E i \in 1..Len(v) : v[i] = Topic(chat)
    BY <1>2
  <1> QED
    BY <1>1, <1>2, <1>4, <1>5, <1>6, <1>7, <1>8, <1>9, <1>10 DEF SessionFollows, v

\* The gateway reads a frame.
LEMMA FollowsRead ==
  ASSUME NEW u, NEW S, NEW chat, NEW n \in Nat, chat = NoChat \/ chat \in Chats,
         SessionFollows(u, S, chat, n), u # <<>>, NEW T,
         \/ Head(u).kind = "subscribe" /\ T = S \cup {Head(u)}
         \/ Head(u).kind = "unsubscribe" /\ T = {s \in S : s.sub # Head(u).sub}
         \/ Head(u).kind = "send" /\ T = S
  PROVE  SessionFollows(Tail(u), T, chat, n)
  <1> DEFINE v == Tail(u)
  <1>1. u \in Seq(Frame) /\ S \subseteq Frame
    BY DEF SessionFollows
  <1>2. /\ v \in Seq(Frame) /\ Len(v) = Len(u) - 1 /\ Len(u) \in Nat \ {0}
        /\ \A i \in 1..Len(v) : v[i] = u[i + 1]
        /\ Head(u) = u[1] /\ 1 \in 1..Len(u) /\ u[1] \in Frame
    <2>1. /\ v \in Seq(Frame) /\ Len(v) = Len(u) - 1 /\ Len(u) \in Nat \ {0}
          /\ \A i \in 1..Len(v) : v[i] = u[i + 1]
      BY <1>1, HeadTailProperties, EmptySeq
    <2>2. Head(u) = u[1] /\ 1 \in 1..Len(u)
      BY <1>1, <2>1
    <2> QED
      BY <1>1, <2>1, <2>2, ElementOfSeq
  <1> HIDE DEF v
  <1>3. PICK f \in Frame : f = u[1]
    BY <1>2
  <1>4. \A i \in 1..Len(v) : i + 1 \in 1..Len(u)
    BY <1>2
  <1>5. T \subseteq Frame
    BY <1>1, <1>2
  <1>6. \A i \in 1..Len(v) : v[i].sub <= n
    BY <1>2, <1>4 DEF SessionFollows
  <1>7. ASSUME NEW i \in 0..Len(v), NEW g, NEW j \in (i + 2)..Len(u), Ends(g, u[j])
        PROVE  j - 1 \in (i + 1)..Len(v) /\ Ends(g, v[j - 1])
    <2>1. j - 1 \in (i + 1)..Len(v) /\ (j - 1) + 1 = j /\ j - 1 \in 1..Len(v)
      BY <1>2
    <2>2. v[j - 1] = u[j]
      BY <1>2, <2>1
    <2> QED
      BY <1>7, <2>1, <2>2
  <1>8. ASSUME NEW i \in 1..Len(v), v[i].kind = "subscribe", v[i] # Queue
        PROVE  /\ Lasts(v[i], chat, n)
               /\ v[i].sub = chat.sub \/ \E j \in (i + 1)..Len(v) : Ends(v[i], v[j])
    <2>1. v[i] = u[i + 1] /\ i + 1 \in 1..Len(u)
      BY <1>2, <1>4
    <2>2. Lasts(u[i + 1], chat, n)
      BY <1>8, <2>1 DEF SessionFollows
    <2>3. u[i + 1].sub = chat.sub \/ \E j \in (i + 2)..Len(u) : Ends(u[i + 1], u[j])
      <3>1. (i + 1) + 1 = i + 2
        OBVIOUS
      <3>2. u[i + 1].sub = chat.sub \/ \E j \in ((i + 1) + 1)..Len(u) : Ends(u[i + 1], u[j])
        BY <1>8, <2>1 DEF SessionFollows
      <3> QED
        BY <3>1, <3>2
    <2>4. CASE \E j \in (i + 2)..Len(u) : Ends(u[i + 1], u[j])
      <3>1. PICK j \in (i + 2)..Len(u) : Ends(u[i + 1], u[j])
        BY <2>4
      <3>2. i \in 0..Len(v)
        OBVIOUS
      <3>3. j - 1 \in (i + 1)..Len(v) /\ Ends(u[i + 1], v[j - 1])
        BY <1>7, <3>1, <3>2
      <3> QED
        BY <2>1, <2>2, <3>3
    <2> QED
      BY <2>1, <2>2, <2>3, <2>4
  <1>9. ASSUME NEW s \in T
        PROVE  /\ s.kind = "subscribe"
               /\ s # Queue => /\ Lasts(s, chat, n)
                               /\ s.sub = chat.sub \/ \E j \in 1..Len(v) : Ends(s, v[j])
    <2>1. CASE s = f /\ f.kind = "subscribe"
      <3>1. SUFFICES ASSUME s # Queue
                     PROVE  Lasts(s, chat, n) /\ (s.sub = chat.sub \/ \E j \in 1..Len(v) : Ends(s, v[j]))
        BY <2>1
      <3>2. /\ Lasts(s, chat, n)
            /\ s.sub = chat.sub \/ \E j \in (1 + 1)..Len(u) : Ends(s, u[j])
        BY <1>2, <1>3, <2>1, <3>1 DEF SessionFollows
      <3>3. CASE \E j \in (1 + 1)..Len(u) : Ends(s, u[j])
        <4>1. PICK j \in (0 + 2)..Len(u) : Ends(s, u[j])
          BY <3>3
        <4>2. 0 \in 0..Len(v)
          BY <1>2
        <4>3. j - 1 \in (0 + 1)..Len(v) /\ Ends(s, v[j - 1])
          BY <1>7, <4>1, <4>2
        <4> QED
          BY <3>2, <4>3
      <3> QED
        BY <3>2, <3>3
    <2>2. CASE s \in S /\ (f.kind = "unsubscribe" => s.sub # f.sub)
      <3>1. s.kind = "subscribe"
        BY <2>2 DEF SessionFollows
      <3>2. SUFFICES ASSUME s # Queue
                     PROVE  Lasts(s, chat, n) /\ (s.sub = chat.sub \/ \E j \in 1..Len(v) : Ends(s, v[j]))
        BY <3>1
      <3>3. Lasts(s, chat, n) /\ (s.sub = chat.sub \/ \E j \in 1..Len(u) : Ends(s, u[j]))
        BY <2>2, <3>2 DEF SessionFollows
      <3>4. CASE \E j \in 1..Len(u) : Ends(s, u[j])
        <4>1. PICK j \in 1..Len(u) : Ends(s, u[j])
          BY <3>4
        <4>2. j # 1
          BY <1>3, <2>2, <4>1 DEF Ends
        <4>3. j \in (0 + 2)..Len(u) /\ 0 \in 0..Len(v)
          BY <1>2, <4>2
        <4>4. j - 1 \in (0 + 1)..Len(v) /\ Ends(s, v[j - 1])
          BY <1>7, <4>1, <4>3
        <4> QED
          BY <3>3, <4>4
      <3> QED
        BY <3>3, <3>4
    <2> QED
      BY <1>2, <1>3, <1>9, <2>1, <2>2
  <1>10. ASSUME chat # NoChat
         PROVE  /\ Topic(chat) \in T \/ \E i \in 1..Len(v) : v[i] = Topic(chat)
                /\ \A i \in 1..Len(v) : v[i].kind = "unsubscribe" =>
                     v[i].sub # chat.sub /\ \E j \in (i + 1)..Len(v) : v[j] = Topic(chat)
    <2>1. /\ Topic(chat) \in S \/ \E i \in 1..Len(u) : u[i] = Topic(chat)
          /\ \A i \in 1..Len(u) : u[i].kind = "unsubscribe" =>
               u[i].sub # chat.sub /\ \E j \in (i + 1)..Len(u) : u[j] = Topic(chat)
      BY <1>10 DEF SessionFollows
    <2>2. Topic(chat).kind = "subscribe" /\ Topic(chat).sub = chat.sub
      BY <1>10, FramesAre
    <2>3. Topic(chat) \in T \/ \E i \in 1..Len(v) : v[i] = Topic(chat)
      <3>1. CASE Topic(chat) \in S
        BY <1>2, <1>3, <2>1, <2>2, <3>1
      <3>2. CASE \E i \in 1..Len(u) : u[i] = Topic(chat)
        <4>1. PICK i \in 1..Len(u) : u[i] = Topic(chat)
          BY <3>2
        <4>2. CASE i = 1
          BY <1>2, <2>2, <4>1, <4>2
        <4>3. CASE i # 1
          <5>1. i - 1 \in 1..Len(v) /\ (i - 1) + 1 = i
            BY <1>2, <4>3
          <5> QED
            BY <1>2, <4>1, <5>1
        <4> QED
          BY <4>2, <4>3
      <3> QED
        BY <2>1, <3>1, <3>2
    <2>4. ASSUME NEW i \in 1..Len(v), v[i].kind = "unsubscribe"
          PROVE  v[i].sub # chat.sub /\ \E j \in (i + 1)..Len(v) : v[j] = Topic(chat)
      <3>1. i + 1 \in 1..Len(u) /\ v[i] = u[i + 1]
        BY <1>2, <1>4
      <3>2. u[i + 1].sub # chat.sub /\ \E j \in ((i + 1) + 1)..Len(u) : u[j] = Topic(chat)
        BY <2>1, <2>4, <3>1
      <3>3. PICK j \in ((i + 1) + 1)..Len(u) : u[j] = Topic(chat)
        BY <3>2
      <3>4. j - 1 \in (i + 1)..Len(v) /\ j - 1 \in 1..Len(v) /\ (j - 1) + 1 = j
        BY <1>2
      <3>5. v[j - 1] = u[j]
        BY <1>2, <3>4
      <3> QED
        BY <3>1, <3>2, <3>3, <3>4, <3>5
    <2> QED
      BY <2>3, <2>4
  <1> QED
    BY <1>2, <1>5, <1>6, <1>8, <1>9, <1>10 DEF SessionFollows, v

\* More windows may have been opened.
LEMMA FollowsMore ==
  ASSUME NEW u, NEW S, NEW chat, NEW n \in Nat, NEW m \in Nat, n <= m, SessionFollows(u, S, chat, n)
  PROVE  SessionFollows(u, S, chat, m)
  <1>1. \A f : Lasts(f, chat, n) => Lasts(f, chat, m)
    BY DEF Lasts
  <1>2. u \in Seq(Frame) /\ \A i \in 1..Len(u) : u[i].sub <= n
    BY DEF SessionFollows
  <1>3. \A i \in 1..Len(u) : u[i].sub <= m
    <2>1. \A i \in 1..Len(u) : u[i] \in Frame
      BY <1>2, ElementOfSeq
    <2>2. \A i \in 1..Len(u) : u[i].sub \in Nat
      BY <2>1 DEF Frame
    <2> QED
      BY <1>2, <2>2
  <1> QED
    BY <1>1, <1>3 DEF SessionFollows

\* A connection starts: the queue, the frames that waited, then the window's topic.
LEMMA FollowsConnected ==
  ASSUME ChatTypes
  PROVE  SessionFollows(<<Queue>> \o Flushed
             \o (IF activeChat = NoChat THEN <<>> ELSE <<Topic(activeChat)>>), {}, activeChat, opened)
  <1>1. PICK w : w = <<Queue>> \o Flushed
    OBVIOUS
  <1>2. /\ w \in Seq(Frame) /\ Len(w) \in Nat
        /\ \A i \in 1..Len(w) : w[i] = Queue \/ (w[i].kind = "send" /\ w[i].sub = 0)
    <2>1. Flushed \in Seq(Frame) /\ \A i \in 1..Len(Flushed) : Flushed[i].kind = "send" /\ Flushed[i].sub = 0
      <3>1. pendingFrames \in Seq(Partners) /\ Len(pendingFrames) \in Nat
        BY LenProperties DEF ChatTypes
      <3>2. \A i \in 1..Len(pendingFrames) : pendingFrames[i] \in Partners
        BY <3>1, ElementOfSeq
      <3>3. Flushed \in [1..Len(pendingFrames) -> Frame]
        BY <3>2, FramesAre DEF Flushed
      <3>4. Flushed \in Seq(Frame)
        BY <3>1, <3>3
      <3>5. Len(Flushed) = Len(pendingFrames)
        BY <3>1, <3>3, <3>4, LenProperties
      <3> QED
        BY <3>2, <3>4, <3>5, FramesAre DEF Flushed
    <2>2. <<Queue>> \in Seq(Frame) /\ Len(<<Queue>>) = 1 /\ <<Queue>>[1] = Queue
      BY FramesAre
    <2>3. PICK a \in Seq(Frame) : a = Flushed
      BY <2>1
    <2>4. PICK q \in Seq(Frame) : q = <<Queue>>
      BY <2>2
    <2>5. /\ w \in Seq(Frame) /\ Len(w) = Len(q) + Len(a) /\ Len(q) = 1 /\ q[1] = Queue
          /\ \A i \in 1..Len(w) : w[i] = IF i <= Len(q) THEN q[i] ELSE a[i - Len(q)]
      BY <1>1, <2>2, <2>3, <2>4, ConcatProperties
    <2>6. Len(a) \in Nat /\ \A i \in 1..Len(a) : a[i].kind = "send" /\ a[i].sub = 0
      BY <2>1, <2>3, LenProperties
    <2> QED
      BY <2>5, <2>6
  <1>3. ASSUME NEW n \in Nat PROVE SessionFollows(w, {}, NoChat, n)
    BY <1>2, FramesAre DEF SessionFollows
  <1>4. CASE activeChat = NoChat
    <2>1. w \o <<>> = w /\ opened \in Nat
      BY <1>2, ConcatEmptySeq DEF ChatTypes
    <2> QED
      BY <1>1, <1>3, <1>4, <2>1
  <1>5. CASE activeChat # NoChat
    <2>1. activeChat \in Chats /\ activeChat.sub <= opened /\ opened \in Nat
      BY <1>5 DEF ChatTypes
    <2>2. PICK n \in Nat : activeChat.sub = n + 1
      <3>1. activeChat.sub - 1 \in Nat /\ activeChat.sub = (activeChat.sub - 1) + 1
        BY <2>1 DEF Chats
      <3> QED
        BY <3>1
    <2>3. SessionFollows(Append(w, Topic(activeChat)), {}, activeChat, n + 1)
      BY <1>3, <2>1, <2>2, FollowsTopic
    <2>4. Append(w, Topic(activeChat)) = w \o <<Topic(activeChat)>>
      BY <1>2, <2>1, FramesAre, AppendIsConcat
    <2>5. SessionFollows(w \o <<Topic(activeChat)>>, {}, activeChat, opened)
      BY <2>1, <2>2, <2>3, <2>4, FollowsMore
    <2> QED
      BY <1>1, <1>5, <2>5
  <1> QED
    BY <1>4, <1>5

-----------------------------------------------------------------------------
\* The window stays; what was on its way still is, has been told or is excused.
LEMMA WindowStays ==
  ASSUME ChatGood, UNCHANGED <<activeChat, shows, histories>>,
         Len(stored) \in Nat, Len(stored') \in Nat, Len(stored) <= Len(stored'),
         \A m \in 1..Len(stored) : stored'[m] = stored[m],
         \A m \in 1..Len(stored) : activeChat # NoChat /\ stored[m] = activeChat.with =>
           (MayMiss(m) \/ OnItsWay(m) => (MayMiss(m) \/ OnItsWay(m))'),
         \A m \in 1..Len(stored') : m \notin 1..Len(stored) => MayMiss(m)'
  PROVE  Window'
  <1>1. \A m \in 1..Len(stored) : m \in 1..Len(stored')
    OBVIOUS
  <1>2. HistoryIsCurrent'
    BY <1>1 DEF ChatGood, Window, HistoryIsCurrent
  <1>3. ShownIsOwn'
    BY <1>1 DEF ChatGood, Window, ShownIsOwn
  <1>4. NothingMissing'
    <2>1. SUFFICES ASSUME activeChat # NoChat, NEW m \in 1..Len(stored'), stored'[m] = activeChat.with
                   PROVE  \/ (MayMiss(m) \/ OnItsWay(m))'
                          \/ histories = {} /\ shows[m] > 0
                          \/ \E h \in histories : ~h.read \/ m \in h.has
      BY DEF NothingMissing
    <2>2. CASE m \in 1..Len(stored)
      BY <2>1, <2>2 DEF ChatGood, Window, NothingMissing
    <2>3. CASE m \notin 1..Len(stored)
      BY <2>1, <2>3
    <2> QED
      BY <2>2, <2>3
  <1> QED
    BY <1>2, <1>3, <1>4 DEF Window

LEMMA StoredLength ==
  ASSUME ChatTypes PROVE Len(stored) \in Nat /\ Len(down) \in Nat /\ DOMAIN stored = 1..Len(stored)
  BY LenProperties DEF ChatTypes

LEMMA ConnectKeeps == ASSUME ChatGood, Connect PROVE ChatGood'
  <1>1. link = "off" /\ link' = "connecting"
        /\ UNCHANGED <<stored, posts, pendingFrames, up, down, subs, activeChat, shows, histories, opened, excused>>
    BY DEF Connect, windowVars
  <1>2. ChatTypes' /\ LinkFollows'
    <2>1. ChatTypes'
      BY <1>1 DEF ChatGood, ChatTypes
    <2>2. LinkFollows'
      BY <1>1 DEF ChatGood, LinkFollows
    <2> QED
      BY <2>1, <2>2
  <1>3. PostsAreStored' /\ FramesAreStored'
    BY <1>1 DEF ChatGood, PostsAreStored, FramesAreStored
  <1>4. Window'
    BY <1>1, WindowStays, StoredLength DEF ChatGood, MayMiss, OnItsWay
  <1> QED
    BY <1>2, <1>3, <1>4 DEF ChatGood

LEMMA ConnectedKeeps == ASSUME ChatGood, Connected PROVE ChatGood'
  <1>1. /\ link = "connecting" /\ link' = "on" /\ pendingFrames' = <<>>
        /\ UNCHANGED <<stored, posts, down, subs, activeChat, shows, histories, opened, excused>>
    BY DEF Connected, windowVars
  <1>2. ChatTypes'
    BY <1>1, EmptySeq DEF ChatGood, ChatTypes
  <1>3. LinkFollows'
    <2>1. subs = {}
      BY <1>1 DEF ChatGood, LinkFollows
    <2>2. SessionFollows(up', {}, activeChat, opened)
      BY FollowsConnected DEF Connected, ChatGood
    <2> QED
      BY <1>1, <2>1, <2>2 DEF LinkFollows
  <1>4. PostsAreStored' /\ FramesAreStored'
    BY <1>1 DEF ChatGood, PostsAreStored, FramesAreStored
  <1>5. Window'
    BY <1>1, WindowStays, StoredLength DEF ChatGood, MayMiss, OnItsWay
  <1> QED
    BY <1>2, <1>3, <1>4, <1>5 DEF ChatGood

LEMMA DropKeeps == ASSUME ChatGood, Drop PROVE ChatGood'
  <1>1. /\ link' = "off" /\ up' = <<>> /\ down' = <<>> /\ subs' = {}
        /\ excused' = excused \cup {down[i].id : i \in 1..Len(down)}
        /\ UNCHANGED <<stored, posts, pendingFrames, activeChat, shows, histories, opened>>
    BY DEF Drop, windowVars
  <1>2. ChatTypes' /\ LinkFollows'
    BY <1>1, EmptySeq DEF ChatGood, ChatTypes, LinkFollows
  <1>3. PostsAreStored' /\ FramesAreStored'
    BY <1>1, EmptySeq DEF ChatGood, PostsAreStored, FramesAreStored
  <1>4. Window'
    BY <1>1, WindowStays, StoredLength DEF ChatGood, MayMiss, OnItsWay
  <1> QED
    BY <1>2, <1>3, <1>4 DEF ChatGood

LEMMA SendMessageKeeps == ASSUME ChatGood, SendMessage PROVE ChatGood'
  <1>1. /\ activeChat # NoChat
        /\ UNCHANGED <<stored, posts, down, subs, activeChat, shows, histories, opened, excused>>
    BY DEF SendMessage, windowVars
  <1>2. activeChat.with \in Partners /\ opened \in Nat
    BY <1>1 DEF ChatGood, ChatTypes, Chats
  <1>3. ChatTypes' /\ LinkFollows'
    <2>1. CASE /\ link = "on" /\ up' = Append(up, Send(activeChat.with))
               /\ UNCHANGED <<pendingFrames, link>>
      <3>1. LinkFollows'
        BY <1>1, <1>2, <2>1, FollowsSend DEF ChatGood, LinkFollows
      <3> QED
        BY <1>1, <2>1, <3>1 DEF ChatGood, ChatTypes
    <2>2. CASE /\ link # "on" /\ pendingFrames' = Append(pendingFrames, activeChat.with)
               /\ link' = "connecting" /\ UNCHANGED up
      <3>1. pendingFrames' \in Seq(Partners)
        BY <1>2, <2>2, AppendProperties DEF ChatGood, ChatTypes
      <3>2. LinkFollows'
        BY <1>1, <2>2 DEF ChatGood, LinkFollows
      <3> QED
        BY <1>1, <2>2, <3>1, <3>2 DEF ChatGood, ChatTypes
    <2> QED
      BY <2>1, <2>2 DEF SendMessage
  <1>4. PostsAreStored' /\ FramesAreStored'
    BY <1>1 DEF ChatGood, PostsAreStored, FramesAreStored
  <1>5. Window'
    BY <1>1, WindowStays, StoredLength DEF ChatGood, MayMiss, OnItsWay
  <1> QED
    BY <1>3, <1>4, <1>5 DEF ChatGood

LEMMA PostedIsPost ==
  ASSUME NEW p \in Partners, NEW mine \in BOOLEAN
  PROVE  Posted(p, mine) \in Post /\ Posted(p, mine).at = "posted" /\ Posted(p, mine).id = 0
         /\ Posted(p, mine) # NoPartner
  BY ChatAssumption DEF Posted, Post

\* A message is on its way to chat-service.
LEMMA PostKeeps ==
  ASSUME ChatGood, NEW k \in Posts, posts[k] = NoPartner, NEW p \in Partners, NEW mine \in BOOLEAN,
         posts' = [posts EXCEPT ![k] = Posted(p, mine)],
         UNCHANGED <<stored, pendingFrames, down, activeChat, shows, histories, opened, excused>>, LinkFollows'
  PROVE  ChatGood'
  <1>1. ChatTypes'
    BY PostedIsPost DEF ChatGood, ChatTypes
  <1>2. posts'[k] = Posted(p, mine) /\ \A j \in Posts \ {k} : posts'[j] = posts[j]
    BY DEF ChatGood, ChatTypes
  <1>3. PostsAreStored' /\ FramesAreStored'
    BY <1>2, PostedIsPost DEF ChatGood, PostsAreStored, FramesAreStored
  <1>4. Window'
    BY <1>2, WindowStays, StoredLength DEF ChatGood, MayMiss, OnItsWay
  <1> QED
    BY <1>1, <1>3, <1>4 DEF ChatGood

LEMMA PartnerSendsKeeps == ASSUME ChatGood, NEW p \in Partners, NEW k \in Posts, PartnerSends(p, k) PROVE ChatGood'
  BY PostKeeps DEF PartnerSends, linkVars, windowVars, LinkFollows, ChatGood

LEMMA ReadFrameKeeps == ASSUME ChatGood, ReadFrame PROVE ChatGood'
  <1>1. /\ up # <<>> /\ up' = Tail(up)
        /\ UNCHANGED <<stored, pendingFrames, link, down, activeChat, shows, histories, opened, excused>>
    BY DEF ReadFrame, windowVars
  <1>2. link = "on" /\ SessionFollows(up, subs, activeChat, opened)
    BY <1>1 DEF ChatGood, LinkFollows
  <1>3. PICK f \in Frame : f = Head(up)
    <2>1. up \in Seq(Frame)
      BY <1>2 DEF SessionFollows
    <2> QED
      BY <1>1, <2>1, HeadTailProperties
  <1>4. \/ f.kind = "subscribe" /\ subs' = subs \cup {f} /\ UNCHANGED posts
        \/ f.kind = "unsubscribe" /\ subs' = {s \in subs : s.sub # f.sub} /\ UNCHANGED posts
        \/ /\ f.kind = "send" /\ subs' = subs
           /\ \E k \in Posts : posts[k] = NoPartner /\ posts' = [posts EXCEPT ![k] = Posted(f.topic, TRUE)]
    BY <1>3 DEF ReadFrame
  <1>5. LinkFollows'
    <2>1. opened \in Nat /\ (activeChat = NoChat \/ activeChat \in Chats)
      BY DEF ChatGood, ChatTypes
    <2>2. SessionFollows(Tail(up), subs', activeChat, opened)
      BY <1>1, <1>2, <1>3, <1>4, <2>1, FollowsRead
    <2> QED
      BY <1>1, <1>2, <2>2 DEF LinkFollows
  <1>6. CASE UNCHANGED posts
    <2>1. ChatTypes'
      BY <1>1, <1>6 DEF ChatGood, ChatTypes
    <2>2. PostsAreStored' /\ FramesAreStored'
      BY <1>1, <1>6 DEF ChatGood, PostsAreStored, FramesAreStored
    <2>3. Window'
      BY <1>1, <1>6, WindowStays, StoredLength DEF ChatGood, MayMiss, OnItsWay
    <2> QED
      BY <1>5, <2>1, <2>2, <2>3 DEF ChatGood
  <1>7. ASSUME NEW k \in Posts, f.kind = "send", posts[k] = NoPartner,
               posts' = [posts EXCEPT ![k] = Posted(f.topic, TRUE)]
        PROVE  ChatGood'
    <2>1. f.topic \in Partners
      BY <1>7 DEF Frame
    <2> QED
      BY <1>1, <1>5, <1>7, <2>1, PostKeeps
  <1> QED
    BY <1>4, <1>6, <1>7

LEMMA CreateMessageKeeps == ASSUME ChatGood, NEW k \in Posts, CreateMessage(k) PROVE ChatGood'
  <1>1. /\ posts[k] # NoPartner /\ posts[k].at = "posted" /\ Len(stored) < MaxMessages
        /\ stored' = Append(stored, posts[k].to)
        /\ posts' = [posts EXCEPT ![k].at = "stored", ![k].id = Len(stored) + 1]
        /\ UNCHANGED <<pendingFrames, link, up, down, subs, activeChat, shows, histories, opened, excused>>
    BY DEF CreateMessage, linkVars, windowVars
  <1>2. posts[k] \in Post /\ Len(stored) \in Nat /\ posts[k].id = 0
    BY <1>1, StoredLength DEF ChatGood, ChatTypes, PostsAreStored
  <1>3. PICK d : d = [posts[k] EXCEPT !.at = "stored", !.id = Len(stored) + 1]
    OBVIOUS
  <1>4. d \in Post /\ d.at = "stored" /\ d.id = Len(stored) + 1 /\ d.to = posts[k].to /\ d # NoPartner
    <2>1. PICK p : p = posts[k]
      OBVIOUS
    <2>2. p \in Post /\ d = [p EXCEPT !.at = "stored", !.id = Len(stored) + 1]
      BY <1>2, <1>3, <2>1
    <2>3. d = [to |-> p.to, mine |-> p.mine, at |-> "stored", id |-> Len(stored) + 1]
      BY <2>2 DEF Post
    <2>4. d \in Post /\ d.at = "stored" /\ d.id = Len(stored) + 1 /\ d.to = p.to
      BY <1>2, <2>2, <2>3 DEF Post
    <2> QED
      BY <2>1, <2>4, ChatAssumption
  <1>5. posts' = [posts EXCEPT ![k] = d]
    BY <1>1, <1>3
  <1>6. posts'[k] = d /\ \A j \in Posts \ {k} : posts'[j] = posts[j]
    BY <1>5 DEF ChatGood, ChatTypes
  <1>7. /\ stored' \in Seq(Partners) /\ Len(stored') = Len(stored) + 1
        /\ stored'[Len(stored) + 1] = posts[k].to
        /\ \A m \in 1..Len(stored) : stored'[m] = stored[m]
    BY <1>1, <1>2, AppendProperties DEF ChatGood, ChatTypes, Post
  <1>8. ChatTypes'
    <2>1. Len(stored') <= MaxMessages
      BY <1>1, <1>2, <1>7, ChatAssumption
    <2> QED
      BY <1>1, <1>4, <1>5, <1>7, <2>1 DEF ChatGood, ChatTypes
  <1>9. LinkFollows'
    BY <1>1 DEF ChatGood, LinkFollows
  <1>10. PostsAreStored'
    <2>1. ASSUME NEW j \in Posts \ {k}, posts[j] # NoPartner
          PROVE  IF posts[j].at = "stored"
                   THEN posts[j].id \in 1..Len(stored') /\ stored'[posts[j].id] = posts[j].to
                   ELSE posts[j].id = 0
      BY <1>2, <1>7, <2>1 DEF ChatGood, PostsAreStored
    <2>2. d.id \in 1..Len(stored') /\ stored'[d.id] = d.to
      BY <1>2, <1>4, <1>7
    <2> QED
      BY <1>4, <1>6, <2>1, <2>2 DEF PostsAreStored
  <1>11. FramesAreStored'
    <2>1. \A m \in 1..Len(stored) : m \in 1..Len(stored')
      BY <1>2, <1>7
    <2> QED
      BY <1>1, <1>7, <2>1 DEF ChatGood, FramesAreStored
  <1>12. Window'
    <2>1. ASSUME NEW m \in 1..Len(stored), MayMiss(m) PROVE MayMiss(m)'
      <3>1. CASE m \in excused
        BY <1>1, <3>1 DEF MayMiss
      <3>2. CASE m \notin excused
        <4>1. PICK j \in Posts : posts[j] # NoPartner /\ posts[j].id = m
          BY <2>1, <3>2 DEF MayMiss
        <4>2. j # k
          BY <1>2, <4>1
        <4>3. posts'[j] # NoPartner /\ posts'[j].id = m
          BY <1>6, <4>1, <4>2
        <4> QED
          BY <4>3 DEF MayMiss
      <3> QED
        BY <3>1, <3>2
    <2>2. ASSUME NEW m, OnItsWay(m) PROVE OnItsWay(m)'
      BY <1>1, <2>2 DEF OnItsWay
    <2>3. ASSUME NEW m \in 1..Len(stored'), m \notin 1..Len(stored) PROVE MayMiss(m)'
      <3>1. m = d.id
        BY <1>2, <1>4, <1>7, <2>3
      <3> QED
        BY <1>4, <1>6, <3>1 DEF MayMiss
    <2> QED
      BY <1>1, <1>2, <1>7, <2>1, <2>2, <2>3, WindowStays
  <1> QED
    BY <1>8, <1>9, <1>10, <1>11, <1>12 DEF ChatGood

\* Where nobody is deaf, a subscription to the window's conversation is the window's.
LEMMA HeardByWindow ==
  ASSUME ChatGood, activeChat # NoChat, ~Deaf(activeChat.with)
  PROVE  /\ \E s \in subs : s.topic = activeChat.with
         /\ \A s \in subs : s.topic = activeChat.with => s.sub = activeChat.sub
  <1>1. link = "on" /\ SessionFollows(up, subs, activeChat, opened)
    BY DEF Deaf, ChatGood, LinkFollows
  <1>2. activeChat \in Chats /\ activeChat.with # NoPartner
    BY ChatAssumption DEF ChatGood, ChatTypes, Chats
  <1>3. \A i \in 1..Len(up) : up[i] # Topic(activeChat)
    BY <1>2, FramesAre DEF Deaf
  <1>4. Topic(activeChat) \in subs
    BY <1>1, <1>3 DEF SessionFollows
  <1>5. \A i \in 1..Len(up) : up[i].kind # "unsubscribe"
    <2>1. SUFFICES ASSUME NEW i \in 1..Len(up), up[i].kind = "unsubscribe" PROVE FALSE
      OBVIOUS
    <2>2. PICK j \in (i + 1)..Len(up) : up[j] = Topic(activeChat)
      BY <1>1, <2>1 DEF SessionFollows
    <2>3. j \in 1..Len(up)
      OBVIOUS
    <2> QED
      BY <1>3, <2>2, <2>3
  <1>6. ASSUME NEW s \in subs, s.topic = activeChat.with PROVE s.sub = activeChat.sub
    <2>1. s # Queue
      BY <1>2, <1>6, FramesAre
    <2>2. s.sub = activeChat.sub \/ \E j \in 1..Len(up) : Ends(s, up[j])
      BY <1>1, <2>1 DEF SessionFollows
    <2> QED
      BY <1>5, <2>2 DEF Ends
  <1> QED
    BY <1>2, <1>4, <1>6, FramesAre

LEMMA BroadcastKeeps == ASSUME ChatGood, NEW k \in Posts, Broadcast(k) PROVE ChatGood'
  <1>1. PICK m : m = posts[k]
    OBVIOUS
  <1>2. PICK topics : topics = {s \in subs : s.topic = m.to}
    OBVIOUS
  <1>3. PICK queues : queues = {s \in subs : s = Queue /\ ~m.mine}
    OBVIOUS
  <1> DEFINE order(S) == IF S = {} THEN <<>> ELSE <<[id |-> m.id, sub |-> (CHOOSE s \in S : TRUE).sub]>>
  <1>4. PICK a : a = order(topics)
    OBVIOUS
  <1>5. PICK b : b = order(queues)
    OBVIOUS
  <1>6. /\ m # NoPartner /\ m.at = "stored"
        /\ down' = down \o a \o b
        /\ posts' = [posts EXCEPT ![k] = NoPartner]
        /\ excused' = IF Deaf(m.to) THEN excused \cup {m.id} ELSE excused
        /\ UNCHANGED <<stored, pendingFrames, link, up, subs, activeChat, shows, histories, opened>>
    BY <1>1, <1>2, <1>3, <1>4, <1>5 DEF Broadcast, windowVars
  <1>7. m \in Post /\ m.id \in 1..Len(stored) /\ stored[m.id] = m.to /\ m.to \in Partners
    BY <1>1, <1>6 DEF ChatGood, ChatTypes, PostsAreStored, Post
  <1>8. opened \in Nat /\ Len(down) \in Nat /\ down \in Seq(DownFrame) /\ m.to # NoPartner
    BY <1>7, StoredLength, ChatAssumption DEF ChatGood, ChatTypes
  <1>9. ASSUME NEW s \in subs
        PROVE  /\ s.sub \in Nat /\ s.sub <= opened
               /\ s.sub # 0 /\ s.sub = activeChat.sub => s.topic = activeChat.with
    <2>1. CASE s = Queue
      BY <1>8, <2>1, FramesAre
    <2>2. CASE s # Queue
      <3>1. Lasts(s, activeChat, opened)
        BY <2>2 DEF ChatGood, LinkFollows, SessionFollows
      <3> QED
        BY <1>8, <3>1 DEF Lasts
    <2> QED
      BY <2>1, <2>2
  <1>10. /\ a \in Seq(DownFrame) /\ Len(a) \in Nat
         /\ \A i \in 1..Len(a) : a[i].id = m.id /\ \E s \in topics : a[i].sub = s.sub
         /\ topics # {} => Len(a) = 1
    <2>1. CASE topics = {}
      BY <1>4, <2>1, EmptySeq
    <2>2. CASE topics # {}
      <3>1. PICK s \in topics : s = CHOOSE t \in topics : TRUE
        BY <2>2
      <3>2. s \in subs
        BY <1>2
      <3>3. PICK g : g = [id |-> m.id, sub |-> s.sub]
        OBVIOUS
      <3>4. a = <<g>> /\ g.id = m.id /\ g.sub = s.sub
        BY <1>4, <2>2, <3>1, <3>3
      <3>5. g \in DownFrame
        BY <1>7, <1>9, <3>2, <3>3 DEF DownFrame
      <3> QED
        BY <3>4, <3>5
    <2> QED
      BY <2>1, <2>2
  <1>11. /\ b \in Seq(DownFrame) /\ Len(b) \in Nat
         /\ \A i \in 1..Len(b) : b[i].id = m.id /\ b[i].sub = 0
    <2>1. CASE queues = {}
      BY <1>5, <2>1, EmptySeq
    <2>2. CASE queues # {}
      <3>1. (CHOOSE t \in queues : TRUE) = Queue
        BY <1>3, <2>2
      <3>2. PICK g : g = [id |-> m.id, sub |-> Queue.sub]
        OBVIOUS
      <3>3. b = <<g>> /\ g.id = m.id /\ g.sub = 0
        BY <1>5, <2>2, <3>1, <3>2, FramesAre
      <3>4. g \in DownFrame
        BY <1>7, <3>2, FramesAre DEF DownFrame
      <3> QED
        BY <3>3, <3>4
    <2> QED
      BY <2>1, <2>2
  <1> HIDE DEF order
  <1>12. PICK c : c = down \o a
    OBVIOUS
  <1>13. /\ c \in Seq(DownFrame) /\ Len(c) = Len(down) + Len(a)
         /\ \A i \in 1..Len(c) : c[i] = IF i <= Len(down) THEN down[i] ELSE a[i - Len(down)]
    BY <1>8, <1>10, <1>12, ConcatProperties
  <1>14. /\ down' \in Seq(DownFrame) /\ Len(down') = Len(down) + Len(a) + Len(b)
         /\ \A i \in 1..Len(down') : down'[i] = IF i <= Len(c) THEN c[i] ELSE b[i - Len(c)]
    BY <1>6, <1>8, <1>10, <1>11, <1>12, <1>13, ConcatProperties
  <1>15. \A i \in 1..Len(down) : i \in 1..Len(down') /\ down'[i] = down[i]
    BY <1>8, <1>10, <1>11, <1>13, <1>14
  <1>16. ASSUME NEW i \in 1..Len(down'), i > Len(down)
         PROVE  down'[i].id = m.id /\ (down'[i].sub = 0 \/ \E s \in topics : down'[i].sub = s.sub)
    <2>1. CASE i <= Len(c)
      <3>1. i - Len(down) \in 1..Len(a) /\ i \in 1..Len(c)
        BY <1>8, <1>10, <1>13, <1>16, <2>1
      <3>2. down'[i] = a[i - Len(down)]
        BY <1>8, <1>13, <1>14, <1>16, <2>1, <3>1
      <3> QED
        BY <1>10, <3>1, <3>2
    <2>2. CASE ~(i <= Len(c))
      <3>1. i - Len(c) \in 1..Len(b)
        BY <1>8, <1>10, <1>11, <1>13, <1>14, <2>2
      <3>2. down'[i] = b[i - Len(c)]
        BY <1>14, <2>2
      <3> QED
        BY <1>11, <3>1, <3>2
    <2> QED
      BY <2>1, <2>2
  <1>17. posts'[k] = NoPartner /\ \A j \in Posts \ {k} : posts'[j] = posts[j]
    BY <1>6 DEF ChatGood, ChatTypes
  <1>18. ChatTypes'
    BY <1>6, <1>14 DEF ChatGood, ChatTypes
  <1>19. LinkFollows'
    <2>1. CASE link = "on"
      BY <1>6, <2>1 DEF ChatGood, LinkFollows
    <2>2. CASE link # "on"
      <3>1. up = <<>> /\ down = <<>> /\ subs = {}
        BY <2>2 DEF ChatGood, LinkFollows
      <3>2. a = <<>> /\ b = <<>>
        BY <1>2, <1>3, <1>4, <1>5, <3>1 DEF order
      <3>3. down' = <<>>
        BY <1>6, <3>1, <3>2
      <3> QED
        BY <1>6, <2>2, <3>1, <3>3 DEF LinkFollows
    <2> QED
      BY <2>1, <2>2
  <1>20. PostsAreStored'
    BY <1>6, <1>17 DEF ChatGood, PostsAreStored
  <1>21. FramesAreStored'
    <2>1. ASSUME NEW i \in 1..Len(down')
          PROVE  /\ down'[i].id \in 1..Len(stored) /\ down'[i].sub <= opened
                 /\ down'[i].sub # 0 /\ down'[i].sub = activeChat.sub => stored[down'[i].id] = activeChat.with
      <3>1. CASE i <= Len(down)
        BY <1>15, <3>1 DEF ChatGood, FramesAreStored
      <3>2. CASE i > Len(down)
        <4>1. down'[i].id = m.id /\ (down'[i].sub = 0 \/ \E s \in topics : down'[i].sub = s.sub)
          BY <1>16, <3>2
        <4>2. \A s \in topics : s \in subs /\ s.topic = m.to
          BY <1>2
        <4> QED
          BY <1>7, <1>8, <1>9, <4>1, <4>2
      <3> QED
        BY <1>8, <1>14, <3>1, <3>2
    <2> QED
      BY <1>6, <2>1 DEF FramesAreStored
  <1>22. Window'
    <2>1. ASSUME NEW n, OnItsWay(n) PROVE OnItsWay(n)'
      BY <1>6, <1>15, <2>1 DEF OnItsWay
    <2>2. ASSUME NEW n \in 1..Len(stored), MayMiss(n), n # m.id PROVE MayMiss(n)'
      BY <1>1, <1>6, <1>17, <2>2 DEF MayMiss
    <2>3. ASSUME activeChat # NoChat, stored[m.id] = activeChat.with
          PROVE  (MayMiss(m.id) \/ OnItsWay(m.id))'
      <3>1. CASE Deaf(m.to)
        BY <1>6, <3>1 DEF MayMiss
      <3>2. CASE ~Deaf(m.to)
        <4>1. topics # {} /\ \A s \in topics : s.sub = activeChat.sub
          BY <1>2, <1>7, <2>3, <3>2, HeardByWindow
        <4>2. Len(down) + 1 \in 1..Len(down') /\ Len(down) + 1 \in 1..Len(c)
          <5>1. Len(a) = 1
            BY <1>10, <4>1
          <5>2. Len(c) = Len(down) + 1 /\ Len(down') = Len(down) + 1 + Len(b)
            BY <1>13, <1>14, <5>1
          <5> QED
            BY <1>8, <1>11, <5>2
        <4>3. down'[Len(down) + 1] = a[1]
          BY <1>8, <1>13, <1>14, <4>2
        <4>4. a[1].id = m.id /\ a[1].sub = activeChat.sub
          BY <1>10, <4>1
        <4> QED
          BY <1>6, <4>2, <4>3, <4>4 DEF OnItsWay
      <3> QED
        BY <3>1, <3>2
    <2> QED
      BY <1>6, <1>7, <2>1, <2>2, <2>3, StoredLength, WindowStays DEF ChatGood
  <1> QED
    BY <1>18, <1>19, <1>20, <1>21, <1>22 DEF ChatGood

LEMMA PostFailsKeeps == ASSUME ChatGood, NEW k \in Posts, PostFails(k) PROVE ChatGood'
  <1>1. /\ posts[k] # NoPartner /\ posts' = [posts EXCEPT ![k] = NoPartner]
        /\ excused' = IF posts[k].at = "stored" THEN excused \cup {posts[k].id} ELSE excused
        /\ UNCHANGED <<stored, pendingFrames, link, up, down, subs, activeChat, shows, histories, opened>>
    BY DEF PostFails, linkVars, windowVars
  <1>2. posts'[k] = NoPartner /\ \A j \in Posts \ {k} : posts'[j] = posts[j]
    BY <1>1 DEF ChatGood, ChatTypes
  <1>3. ChatTypes' /\ LinkFollows'
    BY <1>1 DEF ChatGood, ChatTypes, LinkFollows
  <1>4. PostsAreStored' /\ FramesAreStored'
    BY <1>1, <1>2 DEF ChatGood, PostsAreStored, FramesAreStored
  <1>5. Window'
    <2>1. ASSUME NEW m \in 1..Len(stored), MayMiss(m) PROVE MayMiss(m)'
      <3>1. posts[k].at # "stored" => posts[k].id = 0
        BY <1>1 DEF ChatGood, PostsAreStored
      <3> QED
        BY <1>1, <1>2, <2>1, <3>1 DEF MayMiss
    <2>2. ASSUME NEW m, OnItsWay(m) PROVE OnItsWay(m)'
      BY <1>1, <2>2 DEF OnItsWay
    <2> QED
      BY <1>1, <2>1, <2>2, StoredLength, WindowStays DEF ChatGood
  <1> QED
    BY <1>3, <1>4, <1>5 DEF ChatGood

-----------------------------------------------------------------------------
\* A chat is opened by hand or by a frame of the queue.  Its history is asked for, so
\* nothing is claimed of what the window shows until it comes.
LEMMA OpensKeeps ==
  ASSUME ChatGood, NEW p \in Partners, Opens(p), ~crossed',
         down' \in Seq(DownFrame), \A i \in 1..Len(down') : \E j \in 1..Len(down) : down'[i] = down[j],
         IF link = "on"
           THEN \E v : /\ SessionFollows(v, subs, NoChat, opened)
                       /\ up' = Append(v, Topic(activeChat'))
           ELSE up' = up /\ down' = down,
         UNCHANGED <<stored, posts, pendingFrames, link, subs, shows>>
  PROVE  ChatGood'
  <1>1. opened \in Nat /\ opened' = opened + 1
    BY DEF ChatGood, ChatTypes, Opens
  <1>2. histories = {}
    BY DEF Opens
  <1>3. PICK chat : chat = [with |-> p, sub |-> opened + 1]
    OBVIOUS
  <1>4. chat \in Chats /\ chat.sub = opened + 1 /\ chat.with = p /\ activeChat' = chat /\ chat # NoChat
    <2>1. chat \in Chats /\ chat.sub = opened + 1 /\ chat.with = p
      BY <1>1, <1>3 DEF Chats
    <2> QED
      BY <1>3, <2>1, FramesAre DEF Opens
  <1>5. PICK h : h = [of |-> p, sub |-> opened + 1, read |-> FALSE, has |-> {}]
    OBVIOUS
  <1>6. h \in History /\ h.of = p /\ h.read = FALSE /\ h.has = {}
    BY <1>1, <1>5 DEF History
  <1>7. histories' = {h}
    BY <1>2, <1>5 DEF Opens
  <1>8. ChatTypes'
    <2>1. activeChat' \in Chats /\ activeChat'.sub <= opened' /\ opened' \in Nat
      BY <1>1, <1>4
    <2> QED
      BY <1>6, <1>7, <2>1 DEF ChatGood, ChatTypes
  <1>9. LinkFollows'
    <2>1. CASE link = "on"
      <3>1. PICK v : SessionFollows(v, subs, NoChat, opened) /\ up' = Append(v, Topic(activeChat'))
        BY <2>1
      <3>2. SessionFollows(up', subs, activeChat', opened')
        BY <1>1, <1>4, <3>1, FollowsTopic
      <3> QED
        BY <2>1, <3>2 DEF LinkFollows
    <2>2. CASE link # "on"
      BY <2>2 DEF ChatGood, LinkFollows
    <2> QED
      BY <2>1, <2>2
  <1>10. PostsAreStored'
    BY DEF ChatGood, PostsAreStored
  <1>11. FramesAreStored'
    <2>1. ASSUME NEW i \in 1..Len(down')
          PROVE  down'[i].id \in 1..Len(stored) /\ down'[i].sub <= opened + 1 /\ down'[i].sub # chat.sub
      <3>1. PICK j \in 1..Len(down) : down'[i] = down[j]
        OBVIOUS
      <3>2. down[j].id \in 1..Len(stored) /\ down[j].sub <= opened
        BY DEF ChatGood, FramesAreStored
      <3>3. down[j] \in DownFrame
        BY ElementOfSeq DEF ChatGood, ChatTypes
      <3>4. down[j].sub \in Nat
        BY <3>3 DEF DownFrame
      <3>5. down[j].sub <= opened + 1 /\ down[j].sub # opened + 1
        BY <1>1, <3>2, <3>4
      <3> QED
        BY <1>4, <3>1, <3>2, <3>5
    <2> QED
      BY <1>1, <1>4, <2>1 DEF FramesAreStored
  <1>12. HistoryIsCurrent' /\ ShownIsOwn' /\ NothingMissing'
    <2>1. HistoryIsCurrent'
      BY <1>4, <1>6, <1>7 DEF HistoryIsCurrent
    <2>2. ShownIsOwn'
      BY <1>7 DEF ShownIsOwn
    <2>3. NothingMissing'
      BY <1>6, <1>7 DEF NothingMissing
    <2> QED
      BY <2>1, <2>2, <2>3
  <1> QED
    BY <1>8, <1>9, <1>10, <1>11, <1>12 DEF ChatGood, Window

LEMMA OpenChatKeeps == ASSUME ChatGood, NEW p \in Partners, OpenChat(p), ~crossed' PROVE ChatGood'
  <1>1. /\ Opens(p)
        /\ up' = IF link # "on" THEN up
                 ELSE (IF activeChat = NoChat THEN up ELSE Append(up, Leave(activeChat))) \o <<Topic(activeChat')>>
        /\ UNCHANGED <<stored, posts, pendingFrames, link, down, subs, shows>>
    BY DEF OpenChat
  <1>2. opened \in Nat /\ down' \in Seq(DownFrame)
    BY <1>1 DEF ChatGood, ChatTypes
  <1>3. CASE link = "on"
    <2>1. PICK v : v = IF activeChat = NoChat THEN up ELSE Append(up, Leave(activeChat))
      OBVIOUS
    <2>2. SessionFollows(up, subs, activeChat, opened)
      BY <1>3 DEF ChatGood, LinkFollows
    <2>3. SessionFollows(v, subs, NoChat, opened)
      <3>1. CASE activeChat = NoChat
        BY <2>1, <2>2, <3>1
      <3>2. CASE activeChat # NoChat
        <4>1. activeChat \in Chats /\ activeChat.sub <= opened
          BY <3>2 DEF ChatGood, ChatTypes
        <4> QED
          BY <1>2, <2>1, <2>2, <3>2, <4>1, FollowsLeave
      <3> QED
        BY <3>1, <3>2
    <2>4. v \in Seq(Frame)
      BY <2>3 DEF SessionFollows
    <2>5. Topic(activeChat') \in Frame
      <3>1. activeChat' = [with |-> p, sub |-> opened + 1]
        BY <1>1 DEF Opens
      <3>2. activeChat' \in Chats
        BY <1>2, <3>1 DEF Chats
      <3> QED
        BY <3>2, FramesAre
    <2>6. up' = Append(v, Topic(activeChat'))
      <3>1. up' = v \o <<Topic(activeChat')>>
        BY <1>1, <1>3, <2>1
      <3> QED
        BY <2>4, <2>5, <3>1, AppendIsConcat
    <2> QED
      BY <1>1, <1>2, <1>3, <2>3, <2>6, OpensKeeps
  <1>4. CASE link # "on"
    BY <1>1, <1>2, <1>4, OpensKeeps
  <1> QED
    BY <1>3, <1>4

LEMMA CloseChatKeeps == ASSUME ChatGood, CloseChat PROVE ChatGood'
  <1>1. /\ activeChat # NoChat /\ activeChat' = NoChat
        /\ shows' = [m \in Messages |-> 0] /\ histories' = {}
        /\ up' = IF link = "on" THEN Append(up, Leave(activeChat)) ELSE up
        /\ UNCHANGED <<stored, posts, pendingFrames, link, down, subs, opened, excused>>
    BY DEF CloseChat
  <1>2. activeChat \in Chats /\ activeChat.sub <= opened /\ opened \in Nat
    BY <1>1 DEF ChatGood, ChatTypes
  <1>3. ChatTypes'
    BY <1>1 DEF ChatGood, ChatTypes
  <1>4. LinkFollows'
    <2>1. CASE link = "on"
      <3>1. SessionFollows(up', subs, NoChat, opened)
        BY <1>1, <1>2, <2>1, FollowsLeave DEF ChatGood, LinkFollows
      <3> QED
        BY <1>1, <2>1, <3>1 DEF LinkFollows
    <2>2. CASE link # "on"
      BY <1>1, <2>2 DEF ChatGood, LinkFollows
    <2> QED
      BY <2>1, <2>2
  <1>5. PostsAreStored' /\ FramesAreStored'
    BY <1>1 DEF ChatGood, PostsAreStored, FramesAreStored, NoChat
  <1>6. Window'
    BY <1>1 DEF Window, HistoryIsCurrent, ShownIsOwn, NothingMissing
  <1> QED
    BY <1>3, <1>4, <1>5, <1>6 DEF ChatGood

\* The history of the window changes, or what it shows does: nothing else moves.
LEMMA WindowMoves ==
  ASSUME ChatGood, shows' \in [Messages -> 0..1], histories' \subseteq History, Window',
         UNCHANGED <<stored, posts, pendingFrames, link, up, down, subs, activeChat, opened>>
  PROVE  ChatGood'
  BY DEF ChatGood, ChatTypes, LinkFollows, PostsAreStored, FramesAreStored

LEMMA ReadHistoryKeeps == ASSUME ChatGood, NEW h \in histories, ReadHistory(h) PROVE ChatGood'
  <1>1. /\ histories' = (histories \ {h})
             \cup {[h EXCEPT !.read = TRUE, !.has = {m \in 1..Len(stored) : stored[m] = h.of}]}
        /\ UNCHANGED <<stored, posts, pendingFrames, link, up, down, subs, activeChat, shows, opened>>
    BY DEF ReadHistory, linkVars
  <1>2. PICK g : g = [h EXCEPT !.read = TRUE, !.has = {m \in 1..Len(stored) : stored[m] = h.of}]
    OBVIOUS
  <1>3. h \in History /\ histories = {h} /\ h.of = activeChat.with /\ activeChat # NoChat
    BY DEF ChatGood, ChatTypes, Window, HistoryIsCurrent
  <1>4. histories' = {g}
    BY <1>1, <1>2, <1>3
  <1>5. g \in History /\ g.of = activeChat.with /\ g.has = {m \in 1..Len(stored) : stored[m] = activeChat.with}
    <2>1. PICK s : s = {m \in 1..Len(stored) : stored[m] = h.of}
      OBVIOUS
    <2>2. s \subseteq Nat /\ s = {m \in 1..Len(stored) : stored[m] = activeChat.with}
      BY <1>3, <2>1
    <2>3. g = [of |-> h.of, sub |-> h.sub, read |-> TRUE, has |-> s]
      BY <1>2, <1>3, <2>1 DEF History
    <2> QED
      BY <1>3, <2>2, <2>3 DEF History
  <1>6. Window'
    <2>1. HistoryIsCurrent'
      BY <1>1, <1>3, <1>4, <1>5 DEF HistoryIsCurrent
    <2>2. ShownIsOwn'
      BY <1>4 DEF ShownIsOwn
    <2>3. NothingMissing'
      BY <1>1, <1>4, <1>5 DEF NothingMissing
    <2> QED
      BY <2>1, <2>2, <2>3 DEF Window
  <1>7. histories' \subseteq History /\ shows' \in [Messages -> 0..1]
    BY <1>1, <1>4, <1>5 DEF ChatGood, ChatTypes
  <1> QED
    BY <1>1, <1>6, <1>7, WindowMoves

LEMMA ShowHistoryKeeps == ASSUME ChatGood, NEW h \in histories, ShowHistory(h) PROVE ChatGood'
  <1>1. /\ h.read /\ histories' = histories \ {h}
        /\ shows' = [m \in Messages |-> IF m \in h.has THEN 1 ELSE 0]
        /\ UNCHANGED <<stored, posts, pendingFrames, link, up, down, subs, activeChat, opened, excused>>
    BY DEF ShowHistory, linkVars
  <1>2. histories = {h} /\ \A m \in h.has : m \in 1..Len(stored) /\ stored[m] = activeChat.with
    BY DEF ChatGood, Window, HistoryIsCurrent
  <1>3. histories' = {}
    BY <1>1, <1>2
  <1>4. Window'
    <2>1. ShownIsOwn'
      BY <1>1, <1>2 DEF ShownIsOwn
    <2>2. NothingMissing'
      <3>1. \A m \in 1..Len(stored) : m \in Messages
        BY StoredLength, ChatAssumption DEF ChatGood, ChatTypes, Messages
      <3>2. SUFFICES ASSUME activeChat # NoChat, NEW m \in 1..Len(stored), stored[m] = activeChat.with
                     PROVE  MayMiss(m)' \/ OnItsWay(m)' \/ (histories' = {} /\ shows'[m] > 0)
        BY <1>1 DEF NothingMissing
      <3>3. MayMiss(m) \/ OnItsWay(m) \/ m \in h.has
        BY <1>1, <1>2, <3>2 DEF ChatGood, Window, NothingMissing
      <3>4. CASE MayMiss(m) \/ OnItsWay(m)
        BY <1>1, <3>4 DEF MayMiss, OnItsWay
      <3>5. CASE m \in h.has
        BY <1>1, <1>3, <3>1, <3>5
      <3> QED
        BY <3>3, <3>4, <3>5
    <2> QED
      BY <1>3, <2>1, <2>2 DEF Window, HistoryIsCurrent
  <1>5. histories' \subseteq History /\ shows' \in [Messages -> 0..1]
    BY <1>1, <1>3
  <1> QED
    BY <1>1, <1>4, <1>5, WindowMoves

LEMMA HistoryFailsKeeps == ASSUME ChatGood, NEW h \in histories, HistoryFails(h) PROVE ChatGood'
  <1>1. /\ histories' = histories \ {h} /\ shows' = [m \in Messages |-> 0]
        /\ excused' = excused \cup 1..Len(stored)
        /\ UNCHANGED <<stored, posts, pendingFrames, link, up, down, subs, activeChat, opened>>
    BY DEF HistoryFails, linkVars
  <1>2. histories' = {}
    BY <1>1 DEF ChatGood, Window, HistoryIsCurrent
  <1>3. Window'
    BY <1>1, <1>2 DEF Window, HistoryIsCurrent, ShownIsOwn, NothingMissing, MayMiss
  <1>4. histories' \subseteq History /\ shows' \in [Messages -> 0..1]
    BY <1>1, <1>2
  <1> QED
    BY <1>1, <1>3, <1>4, WindowMoves

-----------------------------------------------------------------------------
\* The tab reads a frame: the window shows it, or it is not of the window's conversation.
LEMMA FrameIsTold ==
  ASSUME ChatGood, down # <<>>, down' = Tail(down), NEW f, f = Head(down),
         \/ /\ activeChat.with = stored[f.id] /\ shows' = AppendMessage(f.id)
            /\ excused' = IF Swallows(f.id) THEN excused \cup {f.id} ELSE excused
         \/ (activeChat = NoChat \/ f.sub # activeChat.sub) /\ UNCHANGED <<shows, excused>>,
         UNCHANGED <<stored, posts, pendingFrames, link, up, subs, activeChat, histories, opened>>
  PROVE  ChatGood'
  <1>1. /\ down' \in Seq(DownFrame) /\ Len(down) \in Nat \ {0} /\ Len(down') = Len(down) - 1
        /\ \A i \in 1..Len(down') : down'[i] = down[i + 1]
    BY HeadTailProperties, EmptySeq DEF ChatGood, ChatTypes
  <1>2. f = down[1] /\ 1 \in 1..Len(down)
    BY <1>1 DEF ChatGood, ChatTypes
  <1>3. f.id \in 1..Len(stored)
    BY <1>2 DEF ChatGood, FramesAreStored
  <1>4. f.id \in Messages
    BY <1>3, StoredLength, ChatAssumption DEF ChatGood, ChatTypes, Messages
  <1>5. shows' \in [Messages -> 0..1]
    BY <1>4 DEF ChatGood, ChatTypes, AppendMessage
  <1>6. link = "on"
    BY DEF ChatGood, LinkFollows
  <1>7. ChatTypes' /\ LinkFollows'
    <2>1. ChatTypes'
      BY <1>1, <1>5 DEF ChatGood, ChatTypes
    <2>2. LinkFollows'
      BY <1>6 DEF ChatGood, LinkFollows
    <2> QED
      BY <2>1, <2>2
  <1>8. PostsAreStored' /\ FramesAreStored'
    <2>1. \A i \in 1..Len(down') : i + 1 \in 1..Len(down) /\ down'[i] = down[i + 1]
      BY <1>1
    <2>2. FramesAreStored'
      BY <2>1 DEF ChatGood, FramesAreStored
    <2> QED
      BY <2>2 DEF ChatGood, PostsAreStored
  <1>9. \A m \in Messages : shows'[m] = shows[m] \/ (m = f.id /\ activeChat.with = stored[f.id])
    BY <1>4 DEF ChatGood, ChatTypes, AppendMessage
  <1>10. ShownIsOwn'
    BY <1>3, <1>9 DEF ChatGood, Window, ShownIsOwn
  <1>11. NothingMissing'
    <2>1. SUFFICES ASSUME activeChat # NoChat, NEW m \in 1..Len(stored), stored[m] = activeChat.with
                   PROVE  \/ MayMiss(m)' \/ OnItsWay(m)'
                          \/ histories = {} /\ shows'[m] > 0
                          \/ \E h \in histories : ~h.read \/ m \in h.has
      BY DEF NothingMissing
    <2>2. \/ MayMiss(m) \/ OnItsWay(m)
          \/ histories = {} /\ shows[m] > 0
          \/ \E h \in histories : ~h.read \/ m \in h.has
      BY <2>1 DEF ChatGood, Window, NothingMissing
    <2>3. MayMiss(m) => MayMiss(m)'
      BY DEF MayMiss
    <2>4. CASE m = f.id /\ shows' = AppendMessage(f.id)
               /\ excused' = IF Swallows(f.id) THEN excused \cup {f.id} ELSE excused
      <3>1. shows'[m] > 0
        BY <1>4, <2>4 DEF ChatGood, ChatTypes, AppendMessage
      <3>2. CASE histories = {}
        BY <3>1, <3>2
      <3>3. CASE Swallows(m)
        BY <2>4, <3>3 DEF MayMiss
      <3>4. CASE histories # {} /\ ~Swallows(m)
        BY <3>4 DEF Swallows
      <3> QED
        BY <3>2, <3>3, <3>4
    <2>5. CASE m # f.id \/ (f.sub # activeChat.sub /\ UNCHANGED shows)
      <3>1. shows[m] = shows'[m]
        <4>1. m \in Messages
          BY StoredLength, ChatAssumption DEF ChatGood, ChatTypes, Messages
        <4> QED
          BY <1>9, <2>5, <4>1
      <3>2. OnItsWay(m) => OnItsWay(m)'
        <4>1. SUFFICES ASSUME NEW i \in 1..Len(down), down[i].id = m, down[i].sub = activeChat.sub
                       PROVE  OnItsWay(m)'
          BY DEF OnItsWay
        <4>2. i # 1
          BY <1>2, <2>5, <4>1
        <4>3. i - 1 \in 1..Len(down') /\ (i - 1) + 1 = i
          BY <1>1, <4>2
        <4>4. down'[i - 1] = down[i]
          BY <1>1, <4>3
        <4> QED
          BY <4>1, <4>3, <4>4 DEF OnItsWay
      <3> QED
        BY <2>2, <2>3, <3>1, <3>2
    <2> QED
      BY <2>1, <2>4, <2>5
  <1>12. HistoryIsCurrent'
    BY DEF ChatGood, Window, HistoryIsCurrent
  <1> QED
    BY <1>7, <1>8, <1>10, <1>11, <1>12 DEF ChatGood, Window

LEMMA DeliverKeeps == ASSUME ChatGood, Deliver, ~crossed' PROVE ChatGood'
  <1>1. /\ down # <<>> /\ down' = Tail(down)
        /\ TopicFrame(Head(down)) \/ QueueFrame(Head(down))
        /\ UNCHANGED <<stored, posts, pendingFrames, link, subs>>
    BY DEF Deliver
  <1>2. PICK f : f = Head(down)
    OBVIOUS
  <1>3. /\ down' \in Seq(DownFrame) /\ Len(down) \in Nat \ {0} /\ Len(down') = Len(down) - 1
        /\ \A i \in 1..Len(down') : down'[i] = down[i + 1]
    BY <1>1, HeadTailProperties, EmptySeq DEF ChatGood, ChatTypes
  <1>4. f = down[1] /\ 1 \in 1..Len(down)
    BY <1>2, <1>3 DEF ChatGood, ChatTypes
  <1>5. /\ f.id \in 1..Len(stored)
        /\ f.sub # 0 /\ f.sub = activeChat.sub => stored[f.id] = activeChat.with
    BY <1>4 DEF ChatGood, FramesAreStored
  <1>6. stored[f.id] \in Partners /\ stored[f.id] # NoPartner
    <2>1. stored[f.id] \in Partners
      BY <1>5, ElementOfSeq DEF ChatGood, ChatTypes
    <2> QED
      BY <2>1, ChatAssumption
  <1>7. CASE TopicFrame(f)
    BY <1>1, <1>2, <1>5, <1>7, FrameIsTold DEF TopicFrame
  <1>8. CASE QueueFrame(f) /\ UNCHANGED <<activeChat, shows, histories, opened, excused, crossed, up>>
    <2>1. activeChat = NoChat \/ f.sub # activeChat.sub
      BY <1>8 DEF QueueFrame, ChatGood, ChatTypes, Chats
    <2> QED
      BY <1>1, <1>2, <1>8, <2>1, FrameIsTold
  <1>9. CASE /\ activeChat.with = stored[f.id] /\ shows' = AppendMessage(f.id)
             /\ excused' = IF Swallows(f.id) THEN excused \cup {f.id} ELSE excused
             /\ UNCHANGED <<activeChat, histories, opened, crossed, up>>
    BY <1>1, <1>2, <1>9, FrameIsTold
  <1>10. CASE /\ activeChat = NoChat /\ Opens(stored[f.id])
              /\ up' = Append(up, Topic(activeChat')) /\ UNCHANGED <<shows, excused>>
    <2>1. link = "on" /\ SessionFollows(up, subs, NoChat, opened)
      BY <1>1, <1>10 DEF ChatGood, LinkFollows
    <2>2. \A i \in 1..Len(down') : \E j \in 1..Len(down) : down'[i] = down[j]
      <3>1. \A i \in 1..Len(down') : i + 1 \in 1..Len(down) /\ down'[i] = down[i + 1]
        BY <1>3
      <3> QED
        BY <3>1
    <2> QED
      BY <1>1, <1>3, <1>6, <1>10, <2>1, <2>2, OpensKeeps
  <1> QED
    BY <1>1, <1>2, <1>7, <1>8, <1>9, <1>10 DEF QueueFrame

-----------------------------------------------------------------------------
LEMMA ChatInitGood == ChatInit => ChatIInv
  <1>1. SUFFICES ASSUME ChatInit PROVE ChatGood
    BY DEF ChatIInv
  <1>2. /\ stored = <<>> /\ posts = [k \in Posts |-> NoPartner] /\ pendingFrames = <<>> /\ link = "off"
        /\ up = <<>> /\ down = <<>> /\ subs = {} /\ activeChat = NoChat
        /\ shows = [m \in Messages |-> 0] /\ histories = {} /\ opened = 0
    BY <1>1 DEF ChatInit
  <1>3. ChatTypes
    BY <1>2, EmptySeq, ChatAssumption DEF ChatTypes
  <1>4. LinkFollows /\ PostsAreStored /\ FramesAreStored
    BY <1>2, EmptySeq DEF LinkFollows, PostsAreStored, FramesAreStored
  <1>5. Window
    BY <1>2, EmptySeq DEF Window, HistoryIsCurrent, ShownIsOwn, NothingMissing
  <1> QED
    BY <1>3, <1>4, <1>5 DEF ChatGood

LEMMA ChatStep == ASSUME ChatIInv, [ChatNext]_chatVars PROVE ChatIInv'
  <1>1. CASE crossed
    <2>1. crossed'
      BY <1>1, ZenonT(30) DEF ChatNext, chatVars, Connect, Connected, Drop, SendMessage, ReadFrame, CloseChat, Deliver,
         TopicFrame, QueueFrame, Opens, OpenChat, PartnerSends, CreateMessage, Broadcast, PostFails,
         ReadHistory, ShowHistory, HistoryFails
    <2> QED
      BY <2>1 DEF ChatIInv
  <1>2. CASE ChatGood /\ ~crossed'
    <2>1. CASE UNCHANGED chatVars
      <3>1. ChatTypes' /\ LinkFollows' /\ PostsAreStored' /\ FramesAreStored'
        BY <1>2, <2>1 DEF chatVars, ChatGood, ChatTypes, LinkFollows, PostsAreStored, FramesAreStored
      <3>2. Window'
        BY <1>2, <2>1 DEF chatVars, ChatGood, Window, HistoryIsCurrent, ShownIsOwn, NothingMissing, MayMiss,
           OnItsWay
      <3> QED
        BY <3>1, <3>2 DEF ChatIInv, ChatGood
    <2>2. CASE Connect
      BY <1>2, <2>2, ConnectKeeps DEF ChatIInv
    <2>3. CASE Connected
      BY <1>2, <2>3, ConnectedKeeps DEF ChatIInv
    <2>4. CASE Drop
      BY <1>2, <2>4, DropKeeps DEF ChatIInv
    <2>5. CASE SendMessage
      BY <1>2, <2>5, SendMessageKeeps DEF ChatIInv
    <2>6. CASE ReadFrame
      BY <1>2, <2>6, ReadFrameKeeps DEF ChatIInv
    <2>7. CASE CloseChat
      BY <1>2, <2>7, CloseChatKeeps DEF ChatIInv
    <2>8. CASE Deliver
      BY <1>2, <2>8, DeliverKeeps DEF ChatIInv
    <2>9. CASE \E p \in Partners : OpenChat(p) \/ \E k \in Posts : PartnerSends(p, k)
      BY <1>2, <2>9, OpenChatKeeps, PartnerSendsKeeps DEF ChatIInv
    <2>10. CASE \E k \in Posts : CreateMessage(k) \/ Broadcast(k) \/ PostFails(k)
      BY <1>2, <2>10, CreateMessageKeeps, BroadcastKeeps, PostFailsKeeps DEF ChatIInv
    <2>11. CASE \E h \in histories : ReadHistory(h) \/ ShowHistory(h) \/ HistoryFails(h)
      BY <1>2, <2>11, ReadHistoryKeeps, ShowHistoryKeeps, HistoryFailsKeeps DEF ChatIInv
    <2> QED
      BY <2>1, <2>2, <2>3, <2>4, <2>5, <2>6, <2>7, <2>8, <2>9, <2>10, <2>11 DEF ChatNext
  <1>3. CASE crossed'
    BY <1>3 DEF ChatIInv
  <1> QED
    BY <1>1, <1>2, <1>3 DEF ChatIInv

\* ChatWindow.tsx and chatService.ts: once its history is there a window shows messages of
\* its own conversation, none of them twice, and misses none but those of the named gaps,
\* whatever the number of messages, partners, posts at a time, reconnections and windows.
THEOREM TheWindowIsTrue == ChatSpec => []WindowShowsItsConversation
  <1>1. ChatIInv => WindowShowsItsConversation
    <2>1. SUFFICES ASSUME ChatGood, histories = {} PROVE WindowShowsItsConversation
      BY DEF ChatIInv, WindowShowsItsConversation
    <2>2. \A m \in Messages : shows[m] > 0 => shows[m] = 1 /\ stored[m] = activeChat.with
      BY <2>1 DEF ChatGood, ChatTypes, Window, ShownIsOwn
    <2>3. down = <<>> => \A m : ~OnItsWay(m)
      BY EmptySeq DEF OnItsWay
    <2>4. (down = <<>> /\ activeChat # NoChat) =>
             \A m \in 1..Len(stored) : stored[m] = activeChat.with => shows[m] > 0 \/ MayMiss(m)
      BY <2>1, <2>3 DEF ChatGood, Window, NothingMissing
    <2> QED
      BY <2>2, <2>4 DEF WindowShowsItsConversation
  <1> QED
    BY <1>1, ChatInitGood, ChatStep, PTL DEF ChatSpec

\* The types of the chat, whether other chats were opened before a history came or not.

\* Frames for the tab, of n stored messages.
DownOf(n) == [id : 1..n, sub : Nat]

ChatKept ==
  /\ ChatTypeOK
  /\ posts \in [Posts -> Post \cup {NoPartner}]
  /\ \A k \in Posts : posts[k] # NoPartner /\ posts[k].at = "stored" => posts[k].id \in 1..Len(stored)
  /\ up \in Seq(Frame) /\ subs \subseteq Frame /\ down \in Seq(DownOf(Len(stored)))
  /\ activeChat = NoChat \/ activeChat \in Chats

LEMMA MoreInSeq == ASSUME NEW S, NEW T, S \subseteq T PROVE Seq(S) \subseteq Seq(T)
<1> SUFFICES ASSUME NEW s \in Seq(S) PROVE s \in Seq(T)
  OBVIOUS
<1>1. Len(s) \in Nat /\ s \in [1..Len(s) -> S]
  BY LenProperties
<1>2. s \in [1..Len(s) -> T]
  BY <1>1
<1> QED
  BY <1>1, <1>2

\* The numbers of the chat: bounds, and a subscription that was given.
LEMMA ChatCounts ==
  ASSUME ChatKept
  PROVE  /\ opened \in Nat /\ typed \in Nat /\ drops \in Nat /\ Len(stored) \in Nat
         /\ 1..Len(stored) \subseteq Messages /\ \A i \in 1..Len(stored) : stored[i] \in Partners
         /\ 0 \in 0..opened /\ NoChat.sub = 0 /\ NoChat.with = NoPartner
<1>1. /\ opened \in Nat /\ typed \in Nat /\ drops \in Nat
  BY ChatAssumption DEF ChatKept, ChatTypeOK
<1>2. Len(stored) \in Nat /\ Len(stored) <= MaxMessages /\ \A i \in 1..Len(stored) : stored[i] \in Partners
  BY ElementOfSeq, LenProperties DEF ChatKept, ChatTypeOK
<1>3. 1..Len(stored) \subseteq Messages
  BY <1>2, ChatAssumption DEF Messages
<1> QED
  BY <1>1, <1>2, <1>3 DEF NoChat

\* What the connection starts with, and what a window sends, are frames.
LEMMA StartFrames ==
  ASSUME ChatKept
  PROVE  <<Queue>> \o Flushed \o (IF activeChat = NoChat THEN <<>> ELSE <<Topic(activeChat)>>) \in Seq(Frame)
<1>1. pendingFrames \in Seq(Partners) /\ Len(pendingFrames) \in Nat
  BY LenProperties DEF ChatKept, ChatTypeOK
<1>2. \A i \in 1..Len(pendingFrames) : pendingFrames[i] \in Partners
  BY <1>1, ElementOfSeq
<1>3. Flushed \in [1..Len(pendingFrames) -> Frame]
  BY <1>2, FramesAre DEF Flushed
<1>4. Flushed \in Seq(Frame)
  BY <1>1, <1>3
<1>5. PICK last \in Seq(Frame) : last = IF activeChat = NoChat THEN <<>> ELSE <<Topic(activeChat)>>
  <2>1. activeChat # NoChat => Topic(activeChat) \in Frame
    BY FramesAre DEF ChatKept
  <2>2. CASE activeChat = NoChat
    BY <2>2, EmptySeq
  <2>3. CASE activeChat # NoChat
    <3>1. PICK f \in Frame : f = Topic(activeChat)
      BY <2>1, <2>3
    <3>2. <<f>> \in Seq(Frame)
      OBVIOUS
    <3> QED
      BY <2>3, <3>1, <3>2
  <2> QED
    BY <2>2, <2>3
<1>6. <<Queue>> \in Seq(Frame)
  BY FramesAre
<1>7. <<Queue>> \o Flushed \in Seq(Frame)
  BY <1>4, <1>6, ConcatProperties
<1>8. (<<Queue>> \o Flushed) \o last \in Seq(Frame)
  BY <1>5, <1>7, ConcatProperties
<1> QED
  BY <1>5, <1>8

\* The window and its subscription are as they were.
LEMMA ConnectionKeepsTypes ==
  ASSUME ChatKept,
         stored' = stored, activeChat' = activeChat, shows' = shows, opened' = opened,
         typed' \in 0..MaxMessages, drops' \in 0..MaxDrops, crossed' = crossed,
         excused' \subseteq Messages, pendingFrames' \in Seq(Partners),
         link' \in {"off", "connecting", "on"},
         posts' \in [Posts -> Post \cup {NoPartner}],
         \A k \in Posts : posts'[k] # NoPartner /\ posts'[k].at = "stored" => posts'[k].id \in 1..Len(stored),
         up' \in Seq(Frame), subs' \subseteq Frame, down' \in Seq(DownOf(Len(stored)))
  PROVE  ChatKept'
<1>1. \A k \in Posts : posts'[k] = NoPartner \/ posts'[k].at \in {"posted", "stored"}
  BY DEF Post
<1> QED
  BY <1>1 DEF ChatKept, ChatTypeOK

LEMMA ConnectTypes == ASSUME ChatKept, Connect \/ Connected \/ Drop \/ SendMessage PROVE ChatKept'
<1> USE DEF ChatKept, ChatTypeOK
<1>1. CASE Connect
  BY <1>1, ConnectionKeepsTypes DEF Connect, windowVars
<1>2. CASE Connected
  <2>1. up' \in Seq(Frame)
    BY <1>2, StartFrames DEF Connected
  <2>2. pendingFrames' \in Seq(Partners)
    BY <1>2, EmptySeq DEF Connected
  <2> QED
    BY <1>2, <2>1, <2>2, ConnectionKeepsTypes DEF Connected, windowVars
<1>3. CASE Drop
  <2>1. up' \in Seq(Frame) /\ down' \in Seq(DownOf(Len(stored))) /\ subs' \subseteq Frame
    BY <1>3, EmptySeq DEF Drop
  <2>2. \A i \in 1..Len(down) : down[i].id \in Messages
    <3>1. ASSUME NEW i \in 1..Len(down) PROVE down[i] \in DownOf(Len(stored))
      BY ElementOfSeq
    <3> QED
      BY <3>1, ChatCounts DEF DownOf
  <2>3. excused' \subseteq Messages
    BY <1>3, <2>2 DEF Drop
  <2>4. drops' \in 0..MaxDrops
    BY <1>3, ChatAssumption DEF Drop
  <2> QED
    BY <1>3, <2>1, <2>3, <2>4, ConnectionKeepsTypes DEF Drop, windowVars
<1>4. CASE SendMessage
  <2>1. activeChat \in Chats /\ activeChat.with \in Partners /\ Send(activeChat.with) \in Frame
    BY <1>4, FramesAre DEF SendMessage, Chats
  <2>2. up' \in Seq(Frame) /\ pendingFrames' \in Seq(Partners) /\ link' \in {"off", "connecting", "on"}
    <3>1. Append(up, Send(activeChat.with)) \in Seq(Frame)
      BY <2>1, AppendProperties
    <3>2. Append(pendingFrames, activeChat.with) \in Seq(Partners)
      BY <2>1, AppendProperties
    <3> QED
      BY <1>4, <3>1, <3>2 DEF SendMessage
  <2>3. typed' \in 0..MaxMessages
    BY <1>4, ChatAssumption DEF SendMessage
  <2> QED
    BY <1>4, <2>2, <2>3, ConnectionKeepsTypes DEF SendMessage, windowVars
<1> QED
  BY <1>1, <1>2, <1>3, <1>4

LEMMA ReadFrameTypes == ASSUME ChatKept, ReadFrame PROVE ChatKept'
<1> USE DEF ChatKept, ChatTypeOK
<1>1. Head(up) \in Frame /\ Tail(up) \in Seq(Frame)
  BY HeadTailProperties DEF ReadFrame
<1>2. ASSUME Head(up).kind = "send" PROVE Posted(Head(up).topic, TRUE) \in Post /\ Posted(Head(up).topic, TRUE).at = "posted"
  <2>1. Head(up).topic \in Partners
    BY <1>1, <1>2 DEF Frame
  <2> QED
    BY <2>1, PostedIsPost
<1>3. subs' \subseteq Frame
  BY <1>1 DEF ReadFrame
<1>4. /\ posts' \in [Posts -> Post \cup {NoPartner}]
      /\ \A k \in Posts : posts'[k] # NoPartner /\ posts'[k].at = "stored" => posts'[k].id \in 1..Len(stored)
  BY <1>2 DEF ReadFrame
<1> QED
  BY <1>1, <1>3, <1>4, ConnectionKeepsTypes DEF ReadFrame, windowVars

LEMMA PostTypes ==
  ASSUME ChatKept, NEW k \in Posts,
         (\E p \in Partners : PartnerSends(p, k)) \/ PostFails(k)
  PROVE  ChatKept'
<1> USE DEF ChatKept, ChatTypeOK
<1>1. ASSUME NEW p \in Partners, PartnerSends(p, k) PROVE ChatKept'
  <2>1. Posted(p, FALSE) \in Post /\ Posted(p, FALSE).at = "posted"
    BY PostedIsPost
  <2>2. typed' \in 0..MaxMessages
    BY <1>1, ChatAssumption DEF PartnerSends
  <2> QED
    BY <1>1, <2>1, <2>2, ConnectionKeepsTypes DEF PartnerSends, linkVars, windowVars
<1>2. CASE PostFails(k)
  <2>1. posts[k].at = "stored" => posts[k].id \in Messages
    BY <1>2, ChatCounts DEF PostFails
  <2>2. excused' \subseteq Messages
    BY <1>2, <2>1 DEF PostFails
  <2> QED
    BY <1>2, <2>2, ConnectionKeepsTypes DEF PostFails, linkVars, windowVars
<1> QED
  BY <1>1, <1>2

\* One message more is stored, and what was on its way stays on it.
LEMMA CreateMessageTypes == ASSUME ChatKept, NEW k \in Posts, CreateMessage(k) PROVE ChatKept'
<1> USE DEF ChatKept, ChatTypeOK
<1>1. posts[k] \in Post /\ posts[k].to \in Partners
  BY DEF CreateMessage, Post
<1>2. PICK n \in Nat : n = Len(stored)
  BY ChatCounts
<1>3. stored' \in Seq(Partners) /\ Len(stored') = n + 1
  BY <1>1, <1>2, AppendProperties DEF CreateMessage
<1>4. n + 1 <= MaxMessages
  BY <1>2, ChatAssumption DEF CreateMessage
<1>5. posts' = [posts EXCEPT ![k] = [posts[k] EXCEPT !.at = "stored", !.id = n + 1]]
  BY <1>2 DEF CreateMessage
<1>6. PICK p : p = [posts[k] EXCEPT !.at = "stored", !.id = n + 1]
  OBVIOUS
<1>7. p \in Post /\ p.id = n + 1 /\ p.at = "stored"
  <2>1. p = [to |-> posts[k].to, mine |-> posts[k].mine, at |-> "stored", id |-> n + 1]
    BY <1>1, <1>6 DEF Post
  <2>2. posts[k].mine \in BOOLEAN /\ n + 1 \in Nat
    BY <1>1 DEF Post
  <2> QED
    BY <1>1, <2>1, <2>2 DEF Post
<1>8. /\ posts' \in [Posts -> Post \cup {NoPartner}]
      /\ \A j \in Posts : posts'[j] # NoPartner /\ posts'[j].at = "stored" => posts'[j].id \in 1..Len(stored')
      /\ \A j \in Posts : posts'[j] = NoPartner \/ posts'[j].at \in {"posted", "stored"}
  BY <1>2, <1>3, <1>5, <1>6, <1>7
<1>9. down' \in Seq(DownOf(Len(stored')))
  <2>1. DownOf(n) \subseteq DownOf(n + 1)
    BY DEF DownOf
  <2> QED
    BY <1>2, <1>3, <2>1, MoreInSeq DEF CreateMessage, linkVars
<1> QED
  BY <1>3, <1>4, <1>8, <1>9 DEF CreateMessage, linkVars, windowVars

LEMMA BroadcastTypes == ASSUME ChatKept, NEW k \in Posts, Broadcast(k) PROVE ChatKept'
<1> USE DEF ChatKept, ChatTypeOK
<1> DEFINE m == posts[k]
           frame(s) == [id |-> m.id, sub |-> s.sub]
           order(S) == IF S = {} THEN <<>> ELSE <<frame(CHOOSE s \in S : TRUE)>>
<1>1. m.id \in 1..Len(stored) /\ m.id \in Messages
  BY ChatCounts DEF Broadcast
<1>2. ASSUME NEW S, S \subseteq Frame PROVE order(S) \in Seq(DownOf(Len(stored)))
  <2>1. CASE S = {}
    BY <2>1, EmptySeq
  <2>2. CASE S # {}
    <3>1. PICK s \in Frame : s = CHOOSE t \in S : TRUE
      BY <1>2, <2>2
    <3>2. PICK f : f = frame(s)
      OBVIOUS
    <3>3. f \in DownOf(Len(stored))
      BY <1>1, <3>2 DEF DownOf, Frame
    <3>4. order(S) = <<f>>
      BY <2>2, <3>1, <3>2
    <3> QED
      BY <3>3, <3>4
  <2> QED
    BY <2>1, <2>2
<1>3. PICK topics : topics = {s \in subs : s.topic = m.to}
  OBVIOUS
<1>4. PICK queues : queues = {s \in subs : s = Queue /\ ~m.mine}
  OBVIOUS
<1>5. order(topics) \in Seq(DownOf(Len(stored))) /\ order(queues) \in Seq(DownOf(Len(stored)))
  BY <1>2, <1>3, <1>4
<1>6. down' = down \o order(topics) \o order(queues)
  BY <1>3, <1>4 DEF Broadcast
<1> HIDE DEF order
<1>7. down' \in Seq(DownOf(Len(stored)))
  BY <1>5, <1>6, ConcatProperties
<1>8. excused' \subseteq Messages
  BY <1>1 DEF Broadcast
<1>9. /\ posts' \in [Posts -> Post \cup {NoPartner}]
      /\ \A j \in Posts : posts'[j] # NoPartner /\ posts'[j].at = "stored" => posts'[j].id \in 1..Len(stored)
  BY DEF Broadcast
<1> QED
  BY <1>7, <1>8, <1>9, ConnectionKeepsTypes DEF Broadcast, windowVars

-----------------------------------------------------------------------------
\* The window moves, with whom it shows and what.
LEMMA WindowKeepsTypes ==
  ASSUME ChatKept,
         stored' = stored, posts' = posts, pendingFrames' = pendingFrames, link' = link, subs' = subs,
         typed' = typed, drops' = drops,
         activeChat' = NoChat \/ activeChat' \in Chats, activeChat'.sub \in 0..opened',
         shows' \in [Messages -> 0..1], opened' \in 0..MaxOpened, crossed' \in BOOLEAN,
         excused' \subseteq Messages, up' \in Seq(Frame), down' \in Seq(DownOf(Len(stored)))
  PROVE  ChatKept'
<1>1. activeChat'.with \in Partners \cup {NoPartner}
  BY DEF NoChat, Chats
<1> QED
  BY <1>1 DEF ChatKept, ChatTypeOK

LEMMA OpensTypes ==
  ASSUME ChatKept, NEW p \in Partners, Opens(p)
  PROVE  /\ activeChat' \in Chats /\ activeChat'.sub \in 0..opened' /\ opened' \in 0..MaxOpened
         /\ crossed' \in BOOLEAN
         /\ Topic(activeChat') \in Frame
<1> USE DEF ChatKept, ChatTypeOK
<1>1. opened \in Nat /\ opened' = opened + 1 /\ opened < MaxOpened /\ activeChat' = [with |-> p, sub |-> opened + 1]
  BY ChatCounts DEF Opens
<1>2. activeChat' \in Chats /\ activeChat'.sub = opened + 1
  BY <1>1 DEF Chats
<1>3. crossed' \in BOOLEAN
  BY DEF Opens
<1>4. Topic(activeChat') \in Frame
  BY <1>2, FramesAre
<1> QED
  BY <1>1, <1>2, <1>3, <1>4, ChatAssumption

LEMMA OpenChatTypes == ASSUME ChatKept, NEW p \in Partners, OpenChat(p) PROVE ChatKept'
<1> USE DEF ChatKept, ChatTypeOK
<1>1. PICK f \in Frame : f = Topic(activeChat')
  BY OpensTypes DEF OpenChat
<1>2. PICK u \in Seq(Frame) : u = IF activeChat = NoChat THEN up ELSE Append(up, Leave(activeChat))
  <2>1. activeChat # NoChat => Leave(activeChat) \in Frame
    BY FramesAre
  <2> QED
    BY <2>1, AppendProperties
<1>3. <<f>> \in Seq(Frame)
  OBVIOUS
<1>4. u \o <<f>> \in Seq(Frame)
  BY <1>3, ConcatProperties
<1>5. up' \in Seq(Frame)
  BY <1>1, <1>2, <1>4 DEF OpenChat
<1> QED
  BY <1>5, OpensTypes, WindowKeepsTypes DEF OpenChat

LEMMA CloseChatTypes == ASSUME ChatKept, CloseChat PROVE ChatKept'
<1> USE DEF ChatKept, ChatTypeOK
<1>1. Leave(activeChat) \in Frame
  BY FramesAre DEF CloseChat
<1>2. up' \in Seq(Frame)
  BY <1>1, AppendProperties DEF CloseChat
<1>3. NoChat.sub \in 0..opened' /\ opened' \in 0..MaxOpened
  BY ChatCounts DEF CloseChat
<1> QED
  BY <1>2, <1>3, WindowKeepsTypes DEF CloseChat

LEMMA HistoryTypes ==
  ASSUME ChatKept, NEW h \in histories, ReadHistory(h) \/ ShowHistory(h) \/ HistoryFails(h)
  PROVE  ChatKept'
<1> USE DEF ChatKept, ChatTypeOK
<1>1. excused' \subseteq Messages
  BY ChatCounts DEF ReadHistory, ShowHistory, HistoryFails
<1>2. shows' \in [Messages -> 0..1]
  <2>1. CASE ReadHistory(h)
    BY <2>1 DEF ReadHistory
  <2>2. CASE ShowHistory(h)
    <3>1. shows' = [m \in Messages |-> IF m \in h.has THEN 1 ELSE 0]
      BY <2>2 DEF ShowHistory
    <3> QED
      BY <3>1
  <2>3. CASE HistoryFails(h)
    <3>1. shows' = [m \in Messages |-> 0]
      BY <2>3 DEF HistoryFails
    <3> QED
      BY <3>1
  <2> QED
    BY <2>1, <2>2, <2>3
<1> QED
  BY <1>1, <1>2, WindowKeepsTypes DEF ReadHistory, ShowHistory, HistoryFails, linkVars

LEMMA DeliverTypes == ASSUME ChatKept, Deliver PROVE ChatKept'
<1> USE DEF ChatKept, ChatTypeOK
<1>1. PICK f \in DownOf(Len(stored)) : f = Head(down)
  BY HeadTailProperties DEF Deliver
<1>2. down' \in Seq(DownOf(Len(stored)))
  BY HeadTailProperties DEF Deliver
<1>3. f.id \in Messages /\ stored[f.id] \in Partners
  BY ChatCounts DEF DownOf
<1>4. AppendMessage(f.id) \in [Messages -> 0..1]
  BY <1>3 DEF AppendMessage
<1>5. \/ /\ UNCHANGED <<activeChat, opened, crossed, up>>
         /\ shows' \in {shows, AppendMessage(f.id)} /\ excused' \subseteq Messages
      \/ /\ Opens(stored[f.id]) /\ up' = Append(up, Topic(activeChat')) /\ UNCHANGED <<shows, excused>>
  BY <1>1, <1>3 DEF Deliver, TopicFrame, QueueFrame
<1>6. CASE Opens(stored[f.id]) /\ up' = Append(up, Topic(activeChat')) /\ UNCHANGED <<shows, excused>>
  <2>1. PICK g \in Frame : g = Topic(activeChat')
    BY <1>3, <1>6, OpensTypes
  <2>2. up' \in Seq(Frame)
    BY <1>6, <2>1, AppendProperties
  <2> QED
    BY <1>2, <1>3, <1>6, <2>2, OpensTypes, WindowKeepsTypes DEF Deliver
<1> QED
  BY <1>2, <1>4, <1>5, <1>6, WindowKeepsTypes DEF Deliver

LEMMA ChatTypesHold == ChatSpec => []ChatTypeOK
<1>1. ChatInit => ChatKept
  <2>1. ASSUME NEW S PROVE <<>> \in Seq(S)
    BY EmptySeq
  <2>2. Len(<<>>) = 0 /\ NoChat.sub = 0 /\ NoChat.with = NoPartner
    BY DEF NoChat
  <2>3. 0 \in 0..MaxMessages /\ 0 \in 0..MaxOpened /\ 0 \in 0..MaxDrops
    BY ChatAssumption
  <2>4. ASSUME ChatInit PROVE ChatTypeOK
    <3>1. shows \in [Messages -> 0..1]
      BY <2>4 DEF ChatInit
    <3>2. stored \in Seq(Partners) /\ pendingFrames \in Seq(Partners) /\ Len(stored) <= MaxMessages
      BY <2>1, <2>2, <2>4, ChatAssumption DEF ChatInit
    <3>3. \A k \in Posts : posts[k] = NoPartner
      BY <2>4 DEF ChatInit
    <3>4. activeChat.with \in Partners \cup {NoPartner} /\ activeChat.sub \in 0..opened
      BY <2>2, <2>4 DEF ChatInit
    <3>5. typed \in 0..MaxMessages /\ opened \in 0..MaxOpened /\ drops \in 0..MaxDrops
      BY <2>3, <2>4 DEF ChatInit
    <3>6. link \in {"off", "connecting", "on"} /\ excused \subseteq Messages /\ crossed \in BOOLEAN
      BY <2>4 DEF ChatInit
    <3> QED
      BY <3>1, <3>2, <3>3, <3>4, <3>5, <3>6 DEF ChatTypeOK
  <2> QED
    BY <2>1, <2>4 DEF ChatInit, ChatKept
<1>2. ASSUME ChatKept, [ChatNext]_chatVars PROVE ChatKept'
  <2>1. CASE UNCHANGED chatVars
    BY <1>2, <2>1 DEF ChatKept, ChatTypeOK, chatVars
  <2> QED
    BY <1>2, <2>1, ConnectTypes, ReadFrameTypes, CloseChatTypes, DeliverTypes, OpenChatTypes, PostTypes,
       CreateMessageTypes, BroadcastTypes, HistoryTypes DEF ChatNext
<1>3. ChatKept => ChatTypeOK
  BY DEF ChatKept
<1> QED
  BY <1>1, <1>2, <1>3, PTL DEF ChatSpec

-----------------------------------------------------------------------------
(* Lost and found items.                                                   *)

LostFoundSpec ==
  /\ \E images \in 0..MaxImages, tagged \in BOOLEAN, consent \in BOOLEAN :
       LostFoundInitWith(images, tagged, consent)
  /\ [][LostFoundNext]_lostFoundVars

Approves(r) ==
  /\ r.new.status = "CLAIMED" /\ r.new.approvedClaimId = r.claim
  /\ \A c \in ClaimIds : r.new.claims[c].status =
       IF c = r.claim THEN "APPROVED"
       ELSE IF r.copy.claims[c].status = "PENDING" THEN "REJECTED" ELSE r.copy.claims[c].status

Rejects(r) ==
  /\ r.new.status = r.copy.status /\ r.new.approvedClaimId = r.copy.approvedClaimId
  /\ \A c \in ClaimIds : r.new.claims[c].status = IF c = r.claim THEN "REJECTED" ELSE r.copy.claims[c].status

\* What a request is to save of what it read.
RequestIs(r) ==
  /\ r.new.version = r.copy.version /\ r.new.exists = r.copy.exists
  /\ r.op = "review" => /\ r.claim \in Among(r.copy, "PENDING")
                        /\ Approves(r) \/ Rejects(r)
                        /\ \A c \in r.tells : r.new.claims[c].status \in {"APPROVED", "REJECTED"}
  /\ r.op # "review" => /\ r.tells = {} /\ r.new.claims = r.copy.claims
                        /\ r.new.approvedClaimId = r.copy.approvedClaimId
  /\ IF r.op \in {"images", "queue"}
       THEN r.new.analysisStatus = IF r.new.images > 0 THEN "PENDING" ELSE "SKIPPED"
       ELSE r.new.images = r.copy.images /\ r.new.analysisStatus = r.copy.analysisStatus

WorkIs ==
  \A w \in LfWorkers : lfWork[w] # Nobody =>
    RequestIs(lfWork[w]) /\ lfWork[w].copy.version <= item.version

\* An analysis that stores how it ended.  One that read an item which had no images, and
\* whose analysis was skipped, has nothing to store.
Settling(a) ==
  /\ analysis[a] # Nobody
  /\ analysis[a].at = "loaded" =>
       analysis[a].copy.images > 0 \/ analysis[a].copy.analysisStatus # "SKIPPED"

AnalysisDue ==
  \/ unsettled \/ ~item.exists
  \/ item.analysisStatus \in {"COMPLETED", "FAILED", "SKIPPED"}
  \/ Unqueued \/ \E a \in Analyses : Settling(a)

\* What an analysis works on, and that one is due while the item's has not ended.
AnalysesAre ==
  /\ \A a \in Analyses : analysis[a] # Nobody /\ analysis[a].at # "queued" =>
       /\ analysis[a].copy \in Item
       /\ analysis[a].at = "processing" => analysis[a].copy.analysisStatus = "PROCESSING"
  /\ AnalysisDue

\* A review that is still to be saved, of the latest decision.
Reviewing(w) ==
  lfWork[w] # Nobody /\ lfWork[w].op = "review" /\ lfWork[w].tells = {} /\ ~lfWork[w].stale

Current(w) == Reviewing(w) /\ item.version = lfWork[w].copy.version

ClaimsAreInARow == \E n \in 0..MaxClaims : Claimed(item) = 1..n

\* Where no claim came since, a review has read the claims there are.
ReviewsAreCurrent ==
  \A w \in LfWorkers :
    /\ Reviewing(w) => item.approvedClaimId = lfWork[w].copy.approvedClaimId
    /\ Current(w) => item.claims = lfWork[w].copy.claims

ApprovedIsApproved == item.approvedClaimId # 0 => item.claims[item.approvedClaimId].status = "APPROVED"

Telling(c) == \E w \in LfWorkers : lfWork[w] # Nobody /\ c \in lfWork[w].tells

TellsWhatIsStored ==
  \A w \in LfWorkers : lfWork[w] # Nobody =>
    \A c \in lfWork[w].tells : item.claims[c].status = lfWork[w].new.claims[c].status

DecidedAreTold ==
  unheard \/ \A c \in ClaimIds :
    item.claims[c].status \in {"APPROVED", "REJECTED"} => told[c] = item.claims[c].status \/ Telling(c)

Approvals == Cardinality(Among(item, "APPROVED"))

\* An approval leaves no claim pending, and none comes until the item is opened again.
FewApproved ==
  late \/ /\ \/ Approvals <= reopened
             \/ Approvals <= 1 + reopened /\ Among(item, "PENDING") = {} /\ item.status # "OPEN"
          /\ \A w \in LfWorkers :
               Current(w) /\ lfWork[w].copy.status # "OPEN" /\ item.status = "OPEN" => Approvals < reopened

ClaimsGood ==
  /\ ClaimsAreInARow /\ ReviewsAreCurrent /\ ApprovedIsApproved
  /\ TellsWhatIsStored /\ DecidedAreTold /\ FewApproved

\* Once two reviews were saved over each other, nothing is claimed of the claims.
LostFoundIInv == LostFoundTypeOK /\ WorkIs /\ AnalysesAre /\ (raced \/ ClaimsGood)

-----------------------------------------------------------------------------
LEMMA ItemIs ==
  ASSUME NEW d \in Item
  PROVE  /\ d.exists \in BOOLEAN /\ d.status \in ItemStatuses /\ d.approvedClaimId \in 0..MaxClaims
         /\ d.version \in Nat /\ d.images \in 0..MaxImages /\ d.tagged \in BOOLEAN
         /\ d.analysisStatus \in {"PENDING", "PROCESSING", "COMPLETED", "FAILED", "SKIPPED"}
         /\ d.analysed \in 0..MaxImages
         /\ d.claims \in [ClaimIds -> [by : Claimants, status : {"PENDING", "APPROVED", "REJECTED"}] \cup {NoClaim}]
         /\ \A c \in ClaimIds : d.claims[c].status \in {"none", "PENDING", "APPROVED", "REJECTED"}
         /\ \A c \in ClaimIds : d.claims[c] = NoClaim <=> d.claims[c].status = "none"
  <1>1. /\ d.exists \in BOOLEAN /\ d.status \in ItemStatuses /\ d.approvedClaimId \in 0..MaxClaims
        /\ d.version \in Nat /\ d.images \in 0..MaxImages /\ d.tagged \in BOOLEAN
        /\ d.analysisStatus \in {"PENDING", "PROCESSING", "COMPLETED", "FAILED", "SKIPPED"}
        /\ d.analysed \in 0..MaxImages
        /\ d.claims \in [ClaimIds -> [by : Claimants, status : {"PENDING", "APPROVED", "REJECTED"}] \cup {NoClaim}]
    BY DEF Item
  <1>2. ASSUME NEW c \in ClaimIds
        PROVE  /\ d.claims[c].status \in {"none", "PENDING", "APPROVED", "REJECTED"}
               /\ d.claims[c] = NoClaim <=> d.claims[c].status = "none"
    <2>1. d.claims[c] \in [by : Claimants, status : {"PENDING", "APPROVED", "REJECTED"}] \cup {NoClaim}
      BY <1>1
    <2> QED
      BY <2>1 DEF NoClaim
  <1> QED
    BY <1>1, <1>2

\* save() of a copy: what it changed is stored, and nothing else.
LEMMA SavedIs ==
  ASSUME item \in Item, NEW copy \in Item, NEW new \in Item,
         new.version = copy.version, new.exists = copy.exists, NEW d, d = Saved(copy, new)
  PROVE  /\ d \in Item /\ d.exists = item.exists
         /\ d.status = IF new.status # copy.status THEN new.status ELSE item.status
         /\ d.approvedClaimId = IF new.approvedClaimId # copy.approvedClaimId THEN new.approvedClaimId
                                ELSE item.approvedClaimId
         /\ \A c \in ClaimIds : d.claims[c] = IF new.claims[c] # copy.claims[c] THEN new.claims[c]
                                              ELSE item.claims[c]
         /\ new.claims = copy.claims => d.claims = item.claims
         /\ d.version \in Nat /\ item.version <= d.version
         /\ d.images = IF new.images # copy.images THEN new.images ELSE item.images
         /\ d.analysisStatus = IF new.analysisStatus # copy.analysisStatus THEN new.analysisStatus
                               ELSE item.analysisStatus
  <1>1. PICK p : p = Patched(item, copy, new)
    OBVIOUS
  <1>2. PICK q : q = [c \in ClaimIds |-> IF new.claims[c] # copy.claims[c] THEN new.claims[c] ELSE item.claims[c]]
    OBVIOUS
  <1>3. q \in [ClaimIds -> [by : Claimants, status : {"PENDING", "APPROVED", "REJECTED"}] \cup {NoClaim}]
    BY <1>2, ItemIs
  <1>4. DOMAIN item = {"exists", "status", "claims", "approvedClaimId", "version", "images", "tagged",
                       "analysisStatus", "analysed"}
    BY DEF Item
  <1>5. /\ p \in Item /\ p.exists = item.exists /\ p.claims = q /\ p.version = item.version
        /\ p.status = IF new.status # copy.status THEN new.status ELSE item.status
        /\ p.approvedClaimId = IF new.approvedClaimId # copy.approvedClaimId THEN new.approvedClaimId
                               ELSE item.approvedClaimId
        /\ p.images = IF new.images # copy.images THEN new.images ELSE item.images
        /\ p.analysisStatus = IF new.analysisStatus # copy.analysisStatus THEN new.analysisStatus
                              ELSE item.analysisStatus
    <2>1. PICK st : st = IF new.status # copy.status THEN new.status ELSE item.status
      OBVIOUS
    <2>2. PICK n : n = IF new.approvedClaimId # copy.approvedClaimId THEN new.approvedClaimId
                       ELSE item.approvedClaimId
      OBVIOUS
    <2>3. PICK i : i = IF new.images # copy.images THEN new.images ELSE item.images
      OBVIOUS
    <2>4. PICK t : t = IF new.tagged # copy.tagged THEN new.tagged ELSE item.tagged
      OBVIOUS
    <2>5. PICK a : a = IF new.analysisStatus # copy.analysisStatus THEN new.analysisStatus
                       ELSE item.analysisStatus
      OBVIOUS
    <2>6. PICK k : k = IF new.analysed # copy.analysed THEN new.analysed ELSE item.analysed
      OBVIOUS
    <2>7. p = [exists |-> item.exists, status |-> st, claims |-> q, approvedClaimId |-> n,
               version |-> item.version, images |-> i, tagged |-> t, analysisStatus |-> a, analysed |-> k]
      BY <1>1, <1>2, <1>4, <2>1, <2>2, <2>3, <2>4, <2>5, <2>6 DEF Patched
    <2>8. /\ st \in ItemStatuses /\ n \in 0..MaxClaims /\ i \in 0..MaxImages
          /\ a \in {"PENDING", "PROCESSING", "COMPLETED", "FAILED", "SKIPPED"} /\ k \in 0..MaxImages
      BY <2>1, <2>2, <2>3, <2>5, <2>6, ItemIs
    <2>9. t \in BOOLEAN
      <3>1. new.tagged \in BOOLEAN /\ item.tagged \in BOOLEAN
        BY ItemIs
      <3> QED
        BY <2>4, <3>1, Zenon
    <2>10. item.exists \in BOOLEAN /\ item.version \in Nat
      BY ItemIs
    <2>11. p \in Item /\ p.exists = item.exists /\ p.claims = q /\ p.version = item.version /\ p.status = st
           /\ p.approvedClaimId = n /\ p.images = i /\ p.analysisStatus = a
      BY <1>3, <2>7, <2>8, <2>9, <2>10 DEF Item
    <2> QED
      BY <2>1, <2>2, <2>3, <2>5, <2>11
  <1>6. d = p \/ d = [p EXCEPT !.version = @ + 1]
    BY <1>1 DEF Saved
  <1>7. /\ d \in Item /\ d.exists = p.exists /\ d.claims = p.claims /\ d.status = p.status
        /\ d.approvedClaimId = p.approvedClaimId /\ d.images = p.images
        /\ d.analysisStatus = p.analysisStatus /\ d.version \in {p.version, p.version + 1}
    <2>1. CASE d = p
      BY <1>5, <2>1
    <2>2. CASE d = [p EXCEPT !.version = @ + 1]
      <3>1. d = [exists |-> p.exists, status |-> p.status, claims |-> p.claims,
                 approvedClaimId |-> p.approvedClaimId, version |-> p.version + 1, images |-> p.images,
                 tagged |-> p.tagged, analysisStatus |-> p.analysisStatus, analysed |-> p.analysed]
        BY <1>5, <2>2 DEF Item
      <3> QED
        BY <1>5, <3>1 DEF Item
    <2> QED
      BY <1>6, <2>1, <2>2
  <1>8. new.claims = copy.claims => q = item.claims
    BY <1>2, ItemIs
  <1>9. item.version \in Nat
    BY ItemIs
  <1> QED
    BY <1>2, <1>5, <1>7, <1>8, <1>9

LEMMA ApprovalsAreCounted ==
  ASSUME item \in Item
  PROVE  /\ Approvals \in Nat /\ IsFiniteSet(Among(item, "APPROVED"))
         /\ Among(item, "APPROVED") \subseteq ClaimIds
  <1>1. IsFiniteSet(ClaimIds) /\ Among(item, "APPROVED") \subseteq ClaimIds
    BY LostFoundAssumption, FS_Interval DEF ClaimIds, Among
  <1>2. IsFiniteSet(Among(item, "APPROVED"))
    BY <1>1, FS_Subset
  <1>3. Cardinality(Among(item, "APPROVED")) \in Nat
    BY <1>2, FS_CardinalityType
  <1> QED
    BY <1>1, <1>2, <1>3 DEF Approvals

\* The analysis is as due as it was.
LEMMA DueStays ==
  ASSUME AnalysesAre, UNCHANGED <<analysis, unsettled>>, Unqueued => Unqueued',
         item'.exists = item.exists, item'.analysisStatus = item.analysisStatus
  PROVE  AnalysesAre'
  BY DEF AnalysesAre, AnalysisDue, Settling

-----------------------------------------------------------------------------
\* A request loads the item.
LEMMA LoadKeeps ==
  ASSUME LostFoundIInv, NEW w \in LfWorkers, lfWork[w] = Nobody, NEW r \in LfRequest,
         r.copy = item, r.stale = FALSE, r.tells = {}, RequestIs(r),
         lfWork' = [lfWork EXCEPT ![w] = r], lfRequests' = lfRequests - 1, lfRequests > 0,
         UNCHANGED <<item, analysis, told, reopened, late, raced, unheard, unsettled>>
  PROVE  LostFoundIInv'
  <1>1. lfWork'[w] = r /\ r # Nobody /\ \A v \in LfWorkers \ {w} : lfWork'[v] = lfWork[v]
    BY LostFoundAssumption DEF LostFoundIInv, LostFoundTypeOK
  <1>2. LostFoundTypeOK'
    BY DEF LostFoundIInv, LostFoundTypeOK
  <1>3. WorkIs'
    <2>1. item.version \in Nat
      BY ItemIs DEF LostFoundIInv, LostFoundTypeOK
    <2> QED
      BY <1>1, <2>1 DEF LostFoundIInv, WorkIs
  <1>4. AnalysesAre'
    <2>1. Unqueued => Unqueued'
      BY <1>1 DEF Unqueued
    <2> QED
      BY <2>1, DueStays DEF LostFoundIInv
  <1>5. ASSUME ~raced PROVE ClaimsGood'
    <2>1. ClaimsGood
      BY <1>5 DEF LostFoundIInv
    <2>2. ClaimsAreInARow' /\ ApprovedIsApproved'
      BY <2>1 DEF ClaimsGood, ClaimsAreInARow, ApprovedIsApproved
    <2>3. \A v \in LfWorkers \ {w} : (Reviewing(v)' <=> Reviewing(v)) /\ (Current(v)' <=> Current(v))
      BY <1>1 DEF Reviewing, Current
    <2>4. ReviewsAreCurrent'
      BY <1>1, <2>1, <2>3 DEF ClaimsGood, ReviewsAreCurrent
    <2>5. TellsWhatIsStored'
      BY <1>1, <2>1 DEF ClaimsGood, TellsWhatIsStored
    <2>6. \A c \in ClaimIds : Telling(c) => Telling(c)'
      BY <1>1 DEF Telling
    <2>7. DecidedAreTold'
      BY <2>1, <2>6 DEF ClaimsGood, DecidedAreTold
    <2>8. FewApproved'
      BY <1>1, <2>1, <2>3 DEF ClaimsGood, FewApproved, Approvals
    <2> QED
      BY <2>2, <2>4, <2>5, <2>7, <2>8 DEF ClaimsGood
  <1> QED
    BY <1>2, <1>3, <1>4, <1>5 DEF LostFoundIInv

\* The request a handler makes of the item.
LEMMA RequestMade ==
  ASSUME item \in Item, NEW op \in Claimants \cup {"update", "images", "review"}, NEW new \in Item,
         NEW claim \in 0..MaxClaims, NEW r,
         r = [op |-> op, copy |-> item, new |-> new, claim |-> claim, stale |-> FALSE, tells |-> {}]
  PROVE  /\ r \in LfRequest /\ r.op = op /\ r.copy = item /\ r.new = new /\ r.claim = claim
         /\ r.stale = FALSE /\ r.tells = {}
  BY DEF LfRequest

LEMMA EditedIs ==
  ASSUME LostFoundIInv, NEW status \in EditStatuses, NEW tags \in BOOLEAN, NEW d, d = Edited(status, tags)
  PROVE  /\ d \in Item /\ d.exists = item.exists /\ d.claims = item.claims
         /\ d.approvedClaimId = item.approvedClaimId /\ d.version = item.version
         /\ d.images = item.images /\ d.analysisStatus = item.analysisStatus
  <1>1. PICK st : st = IF status = "RESOLVED" THEN "CLOSED" ELSE status
    OBVIOUS
  <1>2. PICK t : t = (item.tagged \/ tags)
    OBVIOUS
  <1>3. item \in Item /\ st \in ItemStatuses /\ t \in BOOLEAN
    BY <1>1, <1>2, LostFoundAssumption, Zenon DEF LostFoundIInv, LostFoundTypeOK, ItemStatuses
  <1>4. d = [item EXCEPT !.status = st, !.tagged = t]
    BY <1>1, <1>2 DEF Edited
  <1>5. d = [exists |-> item.exists, status |-> st, claims |-> item.claims,
             approvedClaimId |-> item.approvedClaimId, version |-> item.version, images |-> item.images,
             tagged |-> t, analysisStatus |-> item.analysisStatus, analysed |-> item.analysed]
    BY <1>3, <1>4 DEF Item
  <1> QED
    BY <1>3, <1>5 DEF Item

LEMMA UpdateItemKeeps ==
  ASSUME LostFoundIInv, NEW w \in LfWorkers, NEW status \in EditStatuses, NEW tags \in BOOLEAN,
         UpdateItem(w, status, tags)
  PROVE  LostFoundIInv'
  <1>1. PICK new : new = Edited(status, tags)
    OBVIOUS
  <1>2. /\ new \in Item /\ new.exists = item.exists /\ new.claims = item.claims
        /\ new.approvedClaimId = item.approvedClaimId /\ new.version = item.version
        /\ new.images = item.images /\ new.analysisStatus = item.analysisStatus
    BY <1>1, EditedIs
  <1>3. LoadItem(w, "update", new, 0) /\ item \in Item
    BY <1>1 DEF UpdateItem, LostFoundIInv, LostFoundTypeOK
  <1>4. PICK r : r = [op |-> "update", copy |-> item, new |-> new, claim |-> 0, stale |-> FALSE, tells |-> {}]
    OBVIOUS
  <1>5. /\ r \in LfRequest /\ r.op = "update" /\ r.copy = item /\ r.new = new /\ r.stale = FALSE /\ r.tells = {}
    <2>1. 0 \in 0..MaxClaims /\ "update" \in Claimants \cup {"update", "images", "review"}
      BY LostFoundAssumption
    <2> QED
      BY <1>2, <1>3, <1>4, <2>1, RequestMade
  <1>6. RequestIs(r)
    BY <1>2, <1>5 DEF RequestIs
  <1> QED
    BY <1>3, <1>4, <1>5, <1>6, LoadKeeps DEF LoadItem, NewRequest

LEMMA UpdateImagesKeeps ==
  ASSUME LostFoundIInv, NEW w \in LfWorkers, NEW status \in EditStatuses, NEW tags \in BOOLEAN,
         NEW images \in 0..MaxImages, UpdateImages(w, status, tags, images)
  PROVE  LostFoundIInv'
  <1>1. PICK edited : edited = Edited(status, tags)
    OBVIOUS
  <1>2. /\ edited \in Item /\ edited.exists = item.exists /\ edited.claims = item.claims
        /\ edited.approvedClaimId = item.approvedClaimId /\ edited.version = item.version
    BY <1>1, EditedIs
  <1>3. PICK k : k = IF images > 0 THEN "PENDING" ELSE "SKIPPED"
    OBVIOUS
  <1>4. PICK new : new = [edited EXCEPT !.images = images, !.analysed = 0, !.analysisStatus = k]
    OBVIOUS
  <1>5. new = [exists |-> edited.exists, status |-> edited.status, claims |-> edited.claims,
               approvedClaimId |-> edited.approvedClaimId, version |-> edited.version,
               images |-> images, tagged |-> edited.tagged, analysisStatus |-> k, analysed |-> 0]
    BY <1>2, <1>4 DEF Item
  <1>6. /\ new \in Item /\ new.exists = item.exists /\ new.claims = item.claims
        /\ new.approvedClaimId = item.approvedClaimId /\ new.version = item.version
        /\ new.images = images /\ new.analysisStatus = k
    <2>1. 0 \in 0..MaxImages /\ k \in {"PENDING", "SKIPPED"}
      BY <1>3, LostFoundAssumption
    <2> QED
      BY <1>2, <1>5, <2>1 DEF Item
  <1>7. LoadItem(w, "images", new, 0) /\ item \in Item
    BY <1>1, <1>3, <1>4 DEF UpdateImages, LostFoundIInv, LostFoundTypeOK
  <1>8. PICK r : r = [op |-> "images", copy |-> item, new |-> new, claim |-> 0, stale |-> FALSE, tells |-> {}]
    OBVIOUS
  <1>9. /\ r \in LfRequest /\ r.op = "images" /\ r.copy = item /\ r.new = new /\ r.stale = FALSE /\ r.tells = {}
    <2>1. 0 \in 0..MaxClaims /\ "images" \in Claimants \cup {"update", "images", "review"}
      BY LostFoundAssumption
    <2> QED
      BY <1>6, <1>7, <1>8, <2>1, RequestMade
  <1>10. RequestIs(r)
    BY <1>3, <1>6, <1>9 DEF RequestIs
  <1> QED
    BY <1>7, <1>8, <1>9, <1>10, LoadKeeps DEF LoadItem, NewRequest

LEMMA ClaimItemKeeps ==
  ASSUME LostFoundIInv, NEW w \in LfWorkers, NEW by \in Claimants, ClaimItem(w, by)
  PROVE  LostFoundIInv'
  <1>1. item \in Item /\ LoadItem(w, by, item, 0)
    BY DEF LostFoundIInv, LostFoundTypeOK, ClaimItem
  <1>2. PICK r : r = [op |-> by, copy |-> item, new |-> item, claim |-> 0, stale |-> FALSE, tells |-> {}]
    OBVIOUS
  <1>3. /\ r \in LfRequest /\ r.op = by /\ r.copy = item /\ r.new = item /\ r.stale = FALSE /\ r.tells = {}
    <2>1. 0 \in 0..MaxClaims /\ by \in Claimants \cup {"update", "images", "review"}
      BY LostFoundAssumption
    <2> QED
      BY <1>1, <1>2, <2>1, RequestMade
  <1>4. RequestIs(r)
    BY <1>3, LostFoundAssumption DEF RequestIs
  <1> QED
    BY <1>1, <1>2, <1>3, <1>4, LoadKeeps DEF LoadItem, NewRequest

LEMMA ReviewClaimKeeps ==
  ASSUME LostFoundIInv, NEW w \in LfWorkers, NEW c \in ClaimIds, NEW status \in {"APPROVED", "REJECTED"},
         ReviewClaim(w, c, status)
  PROVE  LostFoundIInv'
  <1> DEFINE others == Among(item, "PENDING") \ {c}
             Claim == [by : Claimants, status : {"PENDING", "APPROVED", "REJECTED"}]
  <1>1. item \in Item /\ c \in Among(item, "PENDING")
    BY DEF LostFoundIInv, LostFoundTypeOK, ReviewClaim
  <1>2. ASSUME NEW o \in Among(item, "PENDING"), NEW s \in {"APPROVED", "REJECTED"}
        PROVE  [item.claims[o] EXCEPT !.status = s] \in Claim /\ [item.claims[o] EXCEPT !.status = s].status = s
    <2>1. PICK d : d = item.claims[o]
      OBVIOUS
    <2>2. d \in Claim
      BY <1>1, <2>1, ItemIs DEF Among, NoClaim
    <2>3. [d EXCEPT !.status = s] = [by |-> d.by, status |-> s]
      BY <2>2
    <2> QED
      BY <2>1, <2>2, <2>3
  <1>3. PICK new : new =
           IF status = "APPROVED"
             THEN [item EXCEPT !.status = "CLAIMED", !.approvedClaimId = c,
                               !.claims = [o \in ClaimIds |->
                                  IF o \in others THEN [item.claims[o] EXCEPT !.status = "REJECTED"]
                                  ELSE IF o = c THEN [item.claims[c] EXCEPT !.status = "APPROVED"]
                                  ELSE item.claims[o]]]
             ELSE [item EXCEPT !.claims[c].status = "REJECTED"]
    OBVIOUS
  <1>4. LoadItem(w, "review", new, c)
    BY <1>3 DEF ReviewClaim
  <1>5. PICK r : r = [op |-> "review", copy |-> item, new |-> new, claim |-> c, stale |-> FALSE, tells |-> {}]
    OBVIOUS
  <1>6. /\ new \in Item /\ new.exists = item.exists /\ new.version = item.version
        /\ new.images = item.images /\ new.analysisStatus = item.analysisStatus
        /\ \/ /\ new.status = "CLAIMED" /\ new.approvedClaimId = c
              /\ \A o \in ClaimIds : new.claims[o].status =
                   IF o = c THEN "APPROVED"
                   ELSE IF item.claims[o].status = "PENDING" THEN "REJECTED" ELSE item.claims[o].status
           \/ /\ new.status = item.status /\ new.approvedClaimId = item.approvedClaimId
              /\ \A o \in ClaimIds : new.claims[o].status = IF o = c THEN "REJECTED" ELSE item.claims[o].status
    <2>1. CASE status = "APPROVED"
      <3>1. PICK q : q = [o \in ClaimIds |->
                                  IF o \in others THEN [item.claims[o] EXCEPT !.status = "REJECTED"]
                                  ELSE IF o = c THEN [item.claims[c] EXCEPT !.status = "APPROVED"]
                                  ELSE item.claims[o]]
        OBVIOUS
      <3>2. q \in [ClaimIds -> Claim \cup {NoClaim}]
        BY <1>1, <1>2, <3>1, ItemIs
      <3>3. \A o \in ClaimIds : q[o].status =
                   IF o = c THEN "APPROVED"
                   ELSE IF item.claims[o].status = "PENDING" THEN "REJECTED" ELSE item.claims[o].status
        BY <1>1, <1>2, <3>1 DEF Among
      <3>4. new = [exists |-> item.exists, status |-> "CLAIMED", claims |-> q, approvedClaimId |-> c,
                   version |-> item.version, images |-> item.images, tagged |-> item.tagged,
                   analysisStatus |-> item.analysisStatus, analysed |-> item.analysed]
        BY <1>1, <1>3, <2>1, <3>1 DEF Item
      <3>5. c \in 0..MaxClaims /\ "CLAIMED" \in ItemStatuses
        BY LostFoundAssumption DEF ClaimIds, ItemStatuses
      <3>6. /\ new \in Item /\ new.exists = item.exists /\ new.version = item.version
            /\ new.images = item.images /\ new.analysisStatus = item.analysisStatus
            /\ new.status = "CLAIMED" /\ new.approvedClaimId = c /\ new.claims = q
        BY <1>1, <3>2, <3>4, <3>5 DEF Item
      <3> QED
        BY <3>3, <3>6
    <2>2. CASE status # "APPROVED"
      <3>1. PICK q : q = [item.claims EXCEPT ![c].status = "REJECTED"]
        OBVIOUS
      <3>2. q = [item.claims EXCEPT ![c] = [item.claims[c] EXCEPT !.status = "REJECTED"]]
        BY <3>1
      <3>3. q \in [ClaimIds -> Claim \cup {NoClaim}]
        BY <1>1, <1>2, <3>2, ItemIs
      <3>4. \A o \in ClaimIds : q[o].status = IF o = c THEN "REJECTED" ELSE item.claims[o].status
        BY <1>1, <1>2, <3>2, ItemIs
      <3>5. new = [exists |-> item.exists, status |-> item.status, claims |-> q,
                   approvedClaimId |-> item.approvedClaimId,
                   version |-> item.version, images |-> item.images, tagged |-> item.tagged,
                   analysisStatus |-> item.analysisStatus, analysed |-> item.analysed]
        BY <1>1, <1>3, <2>2, <3>1 DEF Item
      <3>6. /\ new \in Item /\ new.exists = item.exists /\ new.version = item.version
            /\ new.images = item.images /\ new.analysisStatus = item.analysisStatus
            /\ new.status = item.status /\ new.approvedClaimId = item.approvedClaimId /\ new.claims = q
        BY <1>1, <3>3, <3>5 DEF Item
      <3> QED
        BY <3>4, <3>6
    <2> QED
      BY <2>1, <2>2
  <1>7. /\ r \in LfRequest /\ r.op = "review" /\ r.copy = item /\ r.new = new /\ r.claim = c
        /\ r.stale = FALSE /\ r.tells = {}
    <2>1. c \in 0..MaxClaims
      BY LostFoundAssumption DEF ClaimIds
    <2> QED
      BY <1>1, <1>5, <1>6, <2>1, RequestMade
  <1>8. RequestIs(r)
    BY <1>1, <1>6, <1>7 DEF RequestIs, Approves, Rejects
  <1> QED
    BY <1>4, <1>5, <1>7, <1>8, LoadKeeps DEF LoadItem, NewRequest

-----------------------------------------------------------------------------
\* A request has saved its images, and is to queue them.
GoesOn(w) ==
  /\ lfWork[w] # Nobody /\ lfWork[w].tells = {}
  /\ lfWork'[w] # Nobody /\ lfWork'[w].op = "queue" /\ lfWork'[w].tells = {}
  /\ lfWork'[w].copy = lfWork[w].copy /\ RequestIs(lfWork'[w])

\* Requests may end, and the item may change, but no claim of it does.
LEMMA WorkStays ==
  ASSUME WorkIs, \A w \in LfWorkers : lfWork'[w] = lfWork[w] \/ lfWork'[w] = Nobody \/ GoesOn(w),
         \A w \in LfWorkers : lfWork[w] # Nobody => lfWork[w].copy.version \in Nat,
         item.version \in Nat, item'.version \in Nat, item.version <= item'.version
  PROVE  WorkIs'
  <1>1. SUFFICES ASSUME NEW w \in LfWorkers, lfWork'[w] # Nobody
                 PROVE  RequestIs(lfWork'[w]) /\ lfWork'[w].copy.version <= item'.version
    BY DEF WorkIs
  <1>2. PICK r : r = lfWork[w]
    OBVIOUS
  <1>3. PICK q : q = lfWork'[w]
    OBVIOUS
  <1>4. r # Nobody /\ RequestIs(q) /\ q.copy = r.copy
    BY <1>1, <1>2, <1>3 DEF WorkIs, GoesOn
  <1>5. r.copy.version <= item.version /\ r.copy.version \in Nat
    BY <1>2, <1>4 DEF WorkIs
  <1>6. q.copy.version <= item'.version
    BY <1>4, <1>5
  <1> QED
    BY <1>3, <1>4, <1>6

LEMMA VersionsAre ==
  ASSUME LostFoundTypeOK
  PROVE  item.version \in Nat /\ \A w \in LfWorkers : lfWork[w] # Nobody => lfWork[w].copy.version \in Nat
  <1>1. item.version \in Nat
    BY ItemIs DEF LostFoundTypeOK
  <1>2. ASSUME NEW w \in LfWorkers, lfWork[w] # Nobody PROVE lfWork[w].copy \in Item
    BY <1>2 DEF LostFoundTypeOK, LfRequest
  <1> QED
    BY <1>1, <1>2, ItemIs

LEMMA AsManyStay ==
  ASSUME NEW n \in Nat, NEW before \in Nat, NEW after \in Nat, n <= before, before <= after
  PROVE  n <= after
  OBVIOUS

LEMMA OneMoreStays ==
  ASSUME NEW n \in Nat, NEW before \in Nat, NEW after \in Nat, n <= 1 + before, before <= after
  PROVE  n <= 1 + after
  OBVIOUS

LEMMA ClaimsStay ==
  ASSUME LostFoundTypeOK, WorkIs, ClaimsGood,
         item'.claims = item.claims, item'.approvedClaimId = item.approvedClaimId,
         item'.version \in Nat, item.version <= item'.version,
         \A w \in LfWorkers : lfWork'[w] = lfWork[w] \/ lfWork'[w] = Nobody \/ GoesOn(w),
         unheard' \/ (~unheard /\ \A w \in LfWorkers :
                        lfWork[w] # Nobody /\ lfWork'[w] = Nobody => lfWork[w].tells = {}),
         UNCHANGED <<told, late>>, reopened' \in Nat, reopened <= reopened',
         item.status # "OPEN" /\ item'.status = "OPEN" => reopened' = reopened + 1
  PROVE  ClaimsGood'
  <1>1. ClaimsAreInARow' /\ ApprovedIsApproved'
    BY DEF ClaimsGood, ClaimsAreInARow, ApprovedIsApproved, Claimed
  <1>2. ASSUME NEW w \in LfWorkers, Reviewing(w)'
        PROVE  Reviewing(w) /\ lfWork'[w] = lfWork[w] /\ (Current(w)' => Current(w))
    <2>1. Reviewing(w) /\ lfWork'[w] = lfWork[w] /\ lfWork[w] # Nobody
      BY <1>2 DEF Reviewing, GoesOn
    <2>2. lfWork[w].copy.version \in Nat /\ item.version \in Nat /\ lfWork[w].copy.version <= item.version
      BY <2>1, VersionsAre DEF WorkIs
    <2>3. ASSUME Current(w)' PROVE item.version = lfWork[w].copy.version
      <3>1. item'.version = lfWork[w].copy.version
        BY <2>1, <2>3 DEF Current
      <3> QED
        BY <2>2, <3>1
    <2> QED
      BY <2>1, <2>3 DEF Current
  <1>3. ReviewsAreCurrent'
    <2>1. ASSUME NEW w \in LfWorkers, Reviewing(w)'
          PROVE  item'.approvedClaimId = lfWork'[w].copy.approvedClaimId
      BY <1>2, <2>1 DEF ClaimsGood, ReviewsAreCurrent
    <2>2. ASSUME NEW w \in LfWorkers, Current(w)'
          PROVE  item'.claims = lfWork'[w].copy.claims
      <3>1. Reviewing(w)'
        BY <2>2 DEF Current
      <3> QED
        BY <1>2, <2>2, <3>1 DEF ClaimsGood, ReviewsAreCurrent
    <2> QED
      BY <2>1, <2>2 DEF ReviewsAreCurrent
  <1>4. TellsWhatIsStored'
    BY DEF ClaimsGood, TellsWhatIsStored, GoesOn
  <1>5. DecidedAreTold'
    <2>1. CASE unheard'
      BY <2>1 DEF DecidedAreTold
    <2>2. CASE ~unheard /\ \A w \in LfWorkers :
                 lfWork[w] # Nobody /\ lfWork'[w] = Nobody => lfWork[w].tells = {}
      <3>1. ASSUME NEW c \in ClaimIds, Telling(c) PROVE Telling(c)'
        <4>1. PICK w \in LfWorkers : lfWork[w] # Nobody /\ c \in lfWork[w].tells
          BY <3>1 DEF Telling
        <4>2. lfWork'[w] = lfWork[w]
          BY <2>2, <4>1 DEF GoesOn
        <4> QED
          BY <4>1, <4>2 DEF Telling
      <3> QED
        BY <2>2, <3>1 DEF ClaimsGood, DecidedAreTold
    <2> QED
      BY <2>1, <2>2
  <1>6. FewApproved'
    <2>1. Among(item, "APPROVED")' = Among(item, "APPROVED") /\ Among(item, "PENDING")' = Among(item, "PENDING")
      BY DEF Among
    <2>2. Approvals' = Approvals /\ Approvals \in Nat /\ reopened \in Nat
      BY <2>1, ApprovalsAreCounted DEF Approvals, LostFoundTypeOK
    <2>3. SUFFICES ASSUME ~late
                   PROVE  /\ \/ Approvals <= reopened'
                             \/ Approvals <= 1 + reopened' /\ Among(item, "PENDING") = {} /\ item'.status # "OPEN"
                          /\ \A w \in LfWorkers :
                               Current(w)' /\ lfWork'[w].copy.status # "OPEN" /\ item'.status = "OPEN"
                                 => Approvals < reopened'
      BY <2>1, <2>2 DEF FewApproved
    <2>4. \/ Approvals <= reopened
          \/ Approvals <= 1 + reopened /\ Among(item, "PENDING") = {} /\ item.status # "OPEN"
      BY <2>3 DEF ClaimsGood, FewApproved
    <2>5. ASSUME NEW w \in LfWorkers, Current(w)', lfWork'[w].copy.status # "OPEN", item'.status = "OPEN"
          PROVE  Approvals < reopened'
      <3>1. Current(w) /\ lfWork'[w] = lfWork[w] /\ lfWork[w] # Nobody /\ lfWork[w].op = "review"
        BY <1>2, <2>5 DEF Current, Reviewing
      <3>2. CASE item.status = "OPEN"
        <4>1. Approvals < reopened
          BY <2>3, <2>5, <3>1, <3>2 DEF ClaimsGood, FewApproved
        <4> QED
          BY <2>2, <4>1
      <3>3. CASE item.status # "OPEN"
        <4>1. lfWork[w].claim \in Among(item, "PENDING")
          BY <3>1 DEF WorkIs, RequestIs, ClaimsGood, ReviewsAreCurrent, Among
        <4> QED
          BY <2>2, <2>4, <2>5, <3>3, <4>1
      <3> QED
        BY <3>2, <3>3
    <2>6. \/ Approvals <= reopened'
          \/ Approvals <= 1 + reopened' /\ Among(item, "PENDING") = {} /\ item'.status # "OPEN"
      <3>1. PICK n \in Nat : n = Approvals
        BY <2>2
      <3>2. CASE n <= reopened
        <4>1. n <= reopened'
          BY AsManyStay, <2>2, <3>1, <3>2
        <4> QED
          BY <3>1, <4>1
      <3>3. CASE n <= 1 + reopened /\ Among(item, "PENDING") = {} /\ item.status # "OPEN"
        <4>1. CASE item'.status = "OPEN"
          BY <2>2, <3>1, <3>3, <4>1
        <4>2. CASE item'.status # "OPEN"
          <5>1. n <= 1 + reopened'
            BY OneMoreStays, <2>2, <3>1, <3>3
          <5> QED
            BY <3>1, <3>3, <4>2, <5>1
        <4> QED
          BY <4>1, <4>2
      <3> QED
        BY <2>4, <3>1, <3>2, <3>3
    <2> QED
      BY <2>5, <2>6
  <1> QED
    BY <1>1, <1>3, <1>4, <1>5, <1>6 DEF ClaimsGood

LEMMA QueuedIs == ASSUME NEW force \in BOOLEAN PROVE Queued(force) \in Analysis /\ Queued(force).at = "queued"
                                                       /\ Queued(force) # Nobody
  <1>1. Queued(force) \in Analysis /\ Queued(force).at = "queued"
    BY DEF Queued, Analysis
  <1> QED
    BY <1>1, LostFoundAssumption

LEMMA SaveUpdateKeeps == ASSUME LostFoundIInv, NEW w \in LfWorkers, SaveUpdate(w) PROVE LostFoundIInv'
  <1>1. PICK r : r = lfWork[w]
    OBVIOUS
  <1>2. PICK s : s = IF r.op = "images" /\ r.new.images > 0 THEN [r EXCEPT !.op = "queue"] ELSE Nobody
    OBVIOUS
  <1>3. /\ r # Nobody /\ r.op \in {"update", "images"}
        /\ UNCHANGED <<analysis, told, late, raced, unheard, unsettled, lfRequests>>
        /\ \/ lfWork' = [lfWork EXCEPT ![w] = Nobody] /\ UNCHANGED <<item, reopened>>
           \/ /\ item' = Saved(r.copy, r.new)
              /\ reopened' = IF item.status # "OPEN" /\ item'.status = "OPEN" THEN reopened + 1 ELSE reopened
              /\ lfWork' = [lfWork EXCEPT ![w] = s]
    BY <1>1, <1>2 DEF SaveUpdate
  <1>4. /\ LostFoundTypeOK /\ WorkIs /\ AnalysesAre /\ item \in Item /\ reopened \in Nat /\ item.version \in Nat
        /\ lfWork \in [LfWorkers -> LfRequest \cup {Nobody}]
    BY ItemIs DEF LostFoundIInv, LostFoundTypeOK
  <1>5. r \in LfRequest /\ RequestIs(r) /\ r.copy \in Item /\ r.new \in Item
    <2>1. r \in LfRequest /\ RequestIs(r)
      BY <1>1, <1>3, <1>4 DEF WorkIs
    <2> QED
      BY <2>1 DEF LfRequest
  <1>6. /\ r.tells = {} /\ r.new.version = r.copy.version /\ r.new.exists = r.copy.exists
        /\ r.new.claims = r.copy.claims /\ r.new.approvedClaimId = r.copy.approvedClaimId
        /\ IF r.op = "images" THEN r.new.analysisStatus = IF r.new.images > 0 THEN "PENDING" ELSE "SKIPPED"
           ELSE r.new.analysisStatus = r.copy.analysisStatus
    BY <1>3, <1>5 DEF RequestIs
  <1>7. /\ s \in LfRequest \cup {Nobody}
        /\ s # Nobody => /\ s.op = "queue" /\ s.tells = {} /\ s.copy = r.copy /\ RequestIs(s)
    <2>1. CASE ~(r.op = "images" /\ r.new.images > 0)
      BY <1>2, <2>1
    <2>2. CASE r.op = "images" /\ r.new.images > 0
      <3>1. s = [op |-> "queue", copy |-> r.copy, new |-> r.new, claim |-> r.claim, stale |-> r.stale,
                 tells |-> r.tells]
        BY <1>2, <1>5, <2>2 DEF LfRequest
      <3>2. s \in LfRequest /\ s.op = "queue" /\ s.copy = r.copy /\ s.new = r.new /\ s.tells = r.tells
        BY <1>5, <3>1 DEF LfRequest
      <3>3. RequestIs(s)
        BY <1>6, <2>2, <3>2 DEF RequestIs
      <3> QED
        BY <1>6, <3>2, <3>3
    <2> QED
      BY <2>1, <2>2
  <1>8. CASE lfWork' = [lfWork EXCEPT ![w] = Nobody] /\ UNCHANGED <<item, reopened>>
    <2>1. lfWork'[w] = Nobody /\ \A v \in LfWorkers \ {w} : lfWork'[v] = lfWork[v]
      BY <1>4, <1>8
    <2>2. LostFoundTypeOK'
      BY <1>3, <1>4, <1>8 DEF LostFoundTypeOK
    <2>3. AnalysesAre'
      <3>1. Unqueued => Unqueued'
        BY <1>1, <1>3, <2>1 DEF Unqueued
      <3> QED
        BY <1>3, <1>4, <1>8, <3>1, DueStays
    <2>4. WorkIs'
      BY <1>4, <1>8, <2>1, VersionsAre, WorkStays
    <2>5. ASSUME ~raced PROVE ClaimsGood'
      <3>1. ClaimsGood
        BY <2>5 DEF LostFoundIInv
      <3>2. unheard' \/ (~unheard /\ \A v \in LfWorkers :
                        lfWork[v] # Nobody /\ lfWork'[v] = Nobody => lfWork[v].tells = {})
        BY <1>1, <1>3, <1>6, <2>1
      <3> QED
        BY <1>3, <1>4, <1>8, <2>1, <3>1, <3>2, ClaimsStay
    <2> QED
      BY <1>3, <2>2, <2>3, <2>4, <2>5 DEF LostFoundIInv
  <1>9. CASE /\ item' = Saved(r.copy, r.new)
             /\ reopened' = IF item.status # "OPEN" /\ item'.status = "OPEN" THEN reopened + 1 ELSE reopened
             /\ lfWork' = [lfWork EXCEPT ![w] = s]
    <2>1. lfWork'[w] = s /\ \A v \in LfWorkers \ {w} : lfWork'[v] = lfWork[v]
      BY <1>4, <1>9
    <2>2. /\ item' \in Item /\ item'.exists = item.exists /\ item'.claims = item.claims
          /\ item'.approvedClaimId = item.approvedClaimId /\ item'.version \in Nat
          /\ item.version <= item'.version
          /\ item'.analysisStatus = IF r.new.analysisStatus # r.copy.analysisStatus THEN r.new.analysisStatus
                                    ELSE item.analysisStatus
      BY <1>4, <1>5, <1>6, <1>9, SavedIs
    <2>3. /\ reopened' \in Nat /\ reopened <= reopened'
          /\ item.status # "OPEN" /\ item'.status = "OPEN" => reopened' = reopened + 1
      BY <1>4, <1>9
    <2>4. LostFoundTypeOK'
      BY <1>3, <1>4, <1>7, <1>9, <2>2, <2>3 DEF LostFoundTypeOK
    <2>5. AnalysesAre'
      <3>1. CASE r.op = "images" /\ r.new.images > 0
        <4>1. s # Nobody /\ s.op = "queue"
          BY <1>2, <1>5, <1>7, <3>1, LostFoundAssumption DEF LfRequest
        <4>2. Unqueued'
          BY <2>1, <4>1 DEF Unqueued
        <4> QED
          BY <1>3, <1>4, <4>2 DEF AnalysesAre, AnalysisDue
      <3>2. CASE item'.analysisStatus \in {"COMPLETED", "FAILED", "SKIPPED"}
        BY <1>3, <1>4, <3>2 DEF AnalysesAre, AnalysisDue
      <3>3. CASE item'.analysisStatus = item.analysisStatus
        <4>1. Unqueued => Unqueued'
          BY <1>1, <1>3, <2>1 DEF Unqueued
        <4> QED
          BY <1>3, <1>4, <2>2, <3>3, <4>1, DueStays
      <3> QED
        BY <1>3, <1>6, <2>2, <3>1, <3>2, <3>3
    <2>6. \A v \in LfWorkers : lfWork'[v] = lfWork[v] \/ lfWork'[v] = Nobody \/ GoesOn(v)
      BY <1>1, <1>3, <1>6, <1>7, <2>1 DEF GoesOn
    <2>7. WorkIs'
      BY <1>4, <2>2, <2>6, VersionsAre, WorkStays
    <2>8. ASSUME ~raced PROVE ClaimsGood'
      <3>1. ClaimsGood
        BY <2>8 DEF LostFoundIInv
      <3>2. unheard' \/ (~unheard /\ \A v \in LfWorkers :
                        lfWork[v] # Nobody /\ lfWork'[v] = Nobody => lfWork[v].tells = {})
        BY <1>1, <1>3, <1>6, <2>1
      <3> QED
        BY <1>3, <1>4, <2>2, <2>3, <2>6, <3>1, <3>2, ClaimsStay
    <2> QED
      BY <1>3, <2>4, <2>5, <2>7, <2>8 DEF LostFoundIInv
  <1> QED
    BY <1>3, <1>8, <1>9

LEMMA QueueAnalysisKeeps == ASSUME LostFoundIInv, NEW w \in LfWorkers, QueueAnalysis(w) PROVE LostFoundIInv'
  <1>1. PICK a \in Analyses :
          /\ analysis[a] = Nobody /\ analysis' = [analysis EXCEPT ![a] = Queued(TRUE)]
          /\ lfWork[w] # Nobody /\ lfWork[w].op = "queue" /\ lfWork' = [lfWork EXCEPT ![w] = Nobody]
          /\ UNCHANGED <<item, told, reopened, late, raced, unheard, unsettled, lfRequests>>
    BY DEF QueueAnalysis
  <1>2. LostFoundTypeOK /\ WorkIs /\ AnalysesAre /\ item \in Item /\ item.version \in Nat /\ reopened \in Nat
    BY ItemIs DEF LostFoundIInv, LostFoundTypeOK
  <1>3. /\ lfWork'[w] = Nobody /\ \A v \in LfWorkers \ {w} : lfWork'[v] = lfWork[v]
        /\ analysis'[a] = Queued(TRUE) /\ \A b \in Analyses \ {a} : analysis'[b] = analysis[b]
    BY <1>1, <1>2 DEF LostFoundTypeOK
  <1>4. LostFoundTypeOK'
    BY <1>1, <1>2, QueuedIs DEF LostFoundTypeOK
  <1>5. AnalysesAre'
    <2>1. Settling(a)'
      BY <1>3, QueuedIs DEF Settling
    <2> QED
      BY <1>1, <1>2, <1>3, <2>1, QueuedIs DEF AnalysesAre, AnalysisDue
  <1>6. WorkIs'
    BY <1>1, <1>2, <1>3, VersionsAre, WorkStays
  <1>7. ASSUME ~raced PROVE ClaimsGood'
    <2>1. ClaimsGood
      BY <1>7 DEF LostFoundIInv
    <2>2. lfWork[w].tells = {}
      BY <1>1, <1>2 DEF WorkIs, RequestIs
    <2>3. unheard' \/ (~unheard /\ \A v \in LfWorkers :
                      lfWork[v] # Nobody /\ lfWork'[v] = Nobody => lfWork[v].tells = {})
      BY <1>1, <1>3, <2>2
    <2> QED
      BY <1>1, <1>2, <1>3, <2>1, <2>3, ClaimsStay
  <1> QED
    BY <1>1, <1>4, <1>5, <1>6, <1>7 DEF LostFoundIInv

\* The item or its analysis moves, and no request does.
LEMMA ItemMoves ==
  ASSUME LostFoundIInv, item' \in Item, item'.claims = item.claims,
         item'.approvedClaimId = item.approvedClaimId, item.version <= item'.version,
         reopened' \in Nat, reopened <= reopened',
         item.status # "OPEN" /\ item'.status = "OPEN" => reopened' = reopened + 1,
         UNCHANGED <<lfWork, told, late, raced, unheard>>, lfRequests' \in Nat, unsettled' \in BOOLEAN,
         analysis' \in [Analyses -> Analysis \cup {Nobody}], AnalysesAre'
  PROVE  LostFoundIInv'
  <1>1. LostFoundTypeOK /\ WorkIs /\ item.version \in Nat /\ item'.version \in Nat
    BY ItemIs DEF LostFoundIInv, LostFoundTypeOK
  <1>2. LostFoundTypeOK'
    BY <1>1 DEF LostFoundTypeOK
  <1>3. WorkIs'
    BY <1>1, VersionsAre, WorkStays
  <1>4. ASSUME ~raced PROVE ClaimsGood'
    BY <1>1, <1>4, ClaimsStay DEF LostFoundIInv
  <1> QED
    BY <1>2, <1>3, <1>4 DEF LostFoundIInv

LEMMA DeleteItemKeeps == ASSUME LostFoundIInv, DeleteItem PROVE LostFoundIInv'
  <1>1. PICK x : x = item
    OBVIOUS
  <1>2. /\ x \in Item /\ item' = [x EXCEPT !.exists = FALSE] /\ lfRequests > 0 /\ lfRequests' = lfRequests - 1
        /\ UNCHANGED <<lfWork, analysis, told, reopened, late, raced, unheard, unsettled>>
    BY <1>1 DEF LostFoundIInv, LostFoundTypeOK, DeleteItem, NewRequest
  <1>3. item' = [exists |-> FALSE, status |-> x.status, claims |-> x.claims,
                 approvedClaimId |-> x.approvedClaimId, version |-> x.version, images |-> x.images,
                 tagged |-> x.tagged, analysisStatus |-> x.analysisStatus, analysed |-> x.analysed]
    BY <1>2 DEF Item
  <1>4. /\ item' \in Item /\ item'.exists = FALSE /\ item'.claims = x.claims /\ item'.status = x.status
        /\ item'.approvedClaimId = x.approvedClaimId /\ item'.version = x.version /\ item'.images = x.images
        /\ item'.analysisStatus = x.analysisStatus
    BY <1>2, <1>3 DEF Item
  <1>5. AnalysesAre'
    BY <1>1, <1>2, <1>4 DEF LostFoundIInv, AnalysesAre, AnalysisDue, Settling, Unqueued
  <1>6. x.version \in Nat /\ reopened \in Nat /\ lfRequests' \in Nat /\ unsettled' \in BOOLEAN
        /\ analysis' \in [Analyses -> Analysis \cup {Nobody}]
    BY <1>2, ItemIs DEF LostFoundIInv, LostFoundTypeOK
  <1> QED
    BY <1>1, <1>2, <1>4, <1>5, <1>6, ItemMoves

LEMMA BulkModerateKeeps ==
  ASSUME LostFoundIInv, NEW status \in {"OPEN", "CLOSED"}, BulkModerate(status) PROVE LostFoundIInv'
  <1>1. PICK x : x = item
    OBVIOUS
  <1>2. /\ x \in Item /\ item' = [x EXCEPT !.status = status] /\ lfRequests > 0 /\ lfRequests' = lfRequests - 1
        /\ reopened' = IF status = "OPEN" THEN reopened + 1 ELSE reopened
        /\ UNCHANGED <<lfWork, analysis, told, late, raced, unheard, unsettled>>
    BY <1>1 DEF LostFoundIInv, LostFoundTypeOK, BulkModerate, NewRequest
  <1>3. item' = [exists |-> x.exists, status |-> status, claims |-> x.claims,
                 approvedClaimId |-> x.approvedClaimId, version |-> x.version, images |-> x.images,
                 tagged |-> x.tagged, analysisStatus |-> x.analysisStatus, analysed |-> x.analysed]
    BY <1>2 DEF Item
  <1>4. /\ item' \in Item /\ item'.exists = x.exists /\ item'.claims = x.claims /\ item'.status = status
        /\ item'.approvedClaimId = x.approvedClaimId /\ item'.version = x.version /\ item'.images = x.images
        /\ item'.analysisStatus = x.analysisStatus
    BY <1>2, <1>3 DEF Item, ItemStatuses
  <1>5. AnalysesAre'
    BY <1>1, <1>2, <1>4 DEF LostFoundIInv, AnalysesAre, AnalysisDue, Settling, Unqueued
  <1>6. x.version \in Nat /\ reopened \in Nat /\ lfRequests' \in Nat /\ unsettled' \in BOOLEAN
        /\ analysis' \in [Analyses -> Analysis \cup {Nobody}]
    BY <1>2, ItemIs DEF LostFoundIInv, LostFoundTypeOK
  <1>7. reopened' \in Nat /\ reopened <= reopened' /\ (item'.status = "OPEN" => reopened' = reopened + 1)
    BY <1>2, <1>4, <1>6
  <1> QED
    BY <1>1, <1>2, <1>4, <1>5, <1>6, <1>7, ItemMoves

LEMMA CleanupKeeps == ASSUME LostFoundIInv, CleanupStuckProcessing PROVE LostFoundIInv'
  <1>1. PICK x : x = item
    OBVIOUS
  <1>2. /\ x \in Item /\ item' = [x EXCEPT !.analysisStatus = "PENDING"]
        /\ x.exists /\ x.analysisStatus = "PROCESSING"
        /\ UNCHANGED <<lfWork, analysis, told, reopened, late, raced, unheard, unsettled, lfRequests>>
    BY <1>1 DEF LostFoundIInv, LostFoundTypeOK, CleanupStuckProcessing
  <1>3. item' = [exists |-> x.exists, status |-> x.status, claims |-> x.claims,
                 approvedClaimId |-> x.approvedClaimId, version |-> x.version, images |-> x.images,
                 tagged |-> x.tagged, analysisStatus |-> "PENDING", analysed |-> x.analysed]
    BY <1>2 DEF Item
  <1>4. /\ item' \in Item /\ item'.claims = x.claims /\ item'.status = x.status
        /\ item'.approvedClaimId = x.approvedClaimId /\ item'.version = x.version /\ item'.images = x.images
    BY <1>2, <1>3 DEF Item
  <1>5. AnalysesAre'
    <2>1. unsettled \/ Unqueued \/ \E a \in Analyses : Settling(a)
      BY <1>1, <1>2 DEF LostFoundIInv, AnalysesAre, AnalysisDue
    <2> QED
      BY <1>1, <1>2, <1>4, <2>1 DEF LostFoundIInv, AnalysesAre, AnalysisDue, Settling, Unqueued
  <1>6. x.version \in Nat /\ reopened \in Nat /\ lfRequests' \in Nat /\ unsettled' \in BOOLEAN
        /\ analysis' \in [Analyses -> Analysis \cup {Nobody}]
    BY <1>2, ItemIs DEF LostFoundIInv, LostFoundTypeOK
  <1> QED
    BY <1>1, <1>2, <1>4, <1>5, <1>6, ItemMoves

-----------------------------------------------------------------------------
\* One analysis moves, and the item stays.
LEMMA AnalysisMoves ==
  ASSUME LostFoundIInv, NEW a \in Analyses, NEW x \in Analysis \cup {Nobody}, analysis' = [analysis EXCEPT ![a] = x],
         x # Nobody /\ x.at # "queued" =>
           /\ x.copy \in Item
           /\ x.at = "processing" => x.copy.analysisStatus = "PROCESSING",
         item' \in Item, item'.claims = item.claims, item'.approvedClaimId = item.approvedClaimId,
         item.version <= item'.version, item'.status = item.status, AnalysisDue', unsettled' \in BOOLEAN,
         UNCHANGED <<lfWork, told, reopened, late, raced, unheard, lfRequests>>
  PROVE  LostFoundIInv'
  <1>1. analysis \in [Analyses -> Analysis \cup {Nobody}] /\ reopened \in Nat /\ lfRequests \in Nat
    BY DEF LostFoundIInv, LostFoundTypeOK
  <1>2. analysis'[a] = x /\ \A b \in Analyses \ {a} : analysis'[b] = analysis[b]
    BY <1>1
  <1>3. ASSUME NEW b \in Analyses, analysis'[b] # Nobody, analysis'[b].at # "queued"
        PROVE  /\ analysis'[b].copy \in Item
               /\ analysis'[b].at = "processing" => analysis'[b].copy.analysisStatus = "PROCESSING"
    <2>1. CASE b = a
      BY <1>2, <1>3, <2>1
    <2>2. CASE b # a
      BY <1>2, <1>3, <2>2 DEF LostFoundIInv, AnalysesAre
    <2> QED
      BY <2>1, <2>2
  <1>4. AnalysesAre'
    BY <1>3 DEF AnalysesAre
  <1> QED
    BY <1>1, <1>4, ItemMoves

LEMMA ItemStays ==
  ASSUME LostFoundIInv, item' = item
  PROVE  /\ item' \in Item /\ item'.claims = item.claims /\ item'.approvedClaimId = item.approvedClaimId
         /\ item.version <= item'.version /\ item'.status = item.status
  <1>1. item \in Item /\ item.version \in Nat
    BY ItemIs DEF LostFoundIInv, LostFoundTypeOK
  <1> QED
    BY <1>1

LEMMA StartAnalysisKeeps == ASSUME LostFoundIInv, NEW a \in Analyses, StartAnalysis(a) PROVE LostFoundIInv'
  <1>1. /\ analysis[a] # Nobody /\ analysis[a].at = "queued"
        /\ UNCHANGED <<item, lfWork, told, reopened, late, raced, unheard, unsettled, lfRequests>>
    BY DEF StartAnalysis
  <1>2. /\ item \in Item /\ item.version \in Nat /\ unsettled \in BOOLEAN
        /\ analysis \in [Analyses -> Analysis \cup {Nobody}] /\ AnalysesAre
    BY ItemIs DEF LostFoundIInv, LostFoundTypeOK
  <1>3. CASE analysis' = [analysis EXCEPT ![a] = [analysis[a] EXCEPT !.at = "loaded", !.copy = item]]
    <2>1. PICK y : y = analysis[a]
      OBVIOUS
    <2>2. PICK x : x = [y EXCEPT !.at = "loaded", !.copy = item]
      OBVIOUS
    <2>3. y \in Analysis
      BY <1>1, <1>2, <2>1
    <2>4. x = [at |-> "loaded", force |-> y.force, copy |-> item]
      BY <2>2, <2>3 DEF Analysis
    <2>5. x \in Analysis /\ x.at = "loaded" /\ x.copy = item
      BY <1>2, <2>3, <2>4 DEF Analysis
    <2>6. x # Nobody
      BY <2>5, LostFoundAssumption
    <2>7. analysis' = [analysis EXCEPT ![a] = x] /\ analysis'[a] = x
      BY <1>2, <1>3, <2>1, <2>2
    <2>8. AnalysisDue'
      <3>1. CASE item.analysisStatus = "SKIPPED"
        BY <1>1, <3>1 DEF AnalysisDue
      <3>2. CASE item.analysisStatus # "SKIPPED"
        <4>1. Settling(a)'
          BY <2>5, <2>6, <2>7, <3>2 DEF Settling
        <4> QED
          BY <4>1 DEF AnalysisDue
      <3> QED
        BY <3>1, <3>2
    <2> QED
      BY <1>1, <1>2, <2>5, <2>7, <2>8, ItemStays, AnalysisMoves
  <1>4. CASE /\ analysis' = [analysis EXCEPT ![a] = Nobody]
             /\ ~item.exists \/ item.analysisStatus = "COMPLETED"
    <2>1. AnalysisDue'
      BY <1>1, <1>4 DEF AnalysisDue
    <2> QED
      BY <1>1, <1>2, <1>4, <2>1, ItemStays, AnalysisMoves
  <1> QED
    BY <1>3, <1>4 DEF StartAnalysis, AnalysisEnds

\* A running analysis saves what it made of its copy: a status and no more that matters here.
LEMMA AnalysisSaves ==
  ASSUME item \in Item, NEW copy \in Item, NEW new \in Item, item' = Saved(copy, new),
         new.version = copy.version, new.exists = copy.exists, new.claims = copy.claims,
         new.approvedClaimId = copy.approvedClaimId, new.status = copy.status, new.images = copy.images
  PROVE  /\ item' \in Item /\ item'.claims = item.claims /\ item'.approvedClaimId = item.approvedClaimId
         /\ item.version <= item'.version /\ item'.status = item.status /\ item'.exists = item.exists
         /\ item'.analysisStatus = IF new.analysisStatus # copy.analysisStatus THEN new.analysisStatus
                                   ELSE item.analysisStatus
  BY SavedIs

LEMMA MarkSkippedKeeps == ASSUME LostFoundIInv, NEW a \in Analyses, MarkSkipped(a) PROVE LostFoundIInv'
  <1>1. PICK copy : copy = analysis[a].copy
    OBVIOUS
  <1>2. PICK new : new = [copy EXCEPT !.analysisStatus = "SKIPPED"]
    OBVIOUS
  <1>3. /\ analysis[a] # Nobody /\ analysis[a].at = "loaded" /\ copy.images = 0
        /\ analysis' = [analysis EXCEPT ![a] = Nobody]
        /\ UNCHANGED <<lfWork, told, reopened, late, raced, unheard, unsettled, lfRequests>>
        /\ item' = IF item.exists THEN Saved(copy, new) ELSE item
    BY <1>1, <1>2 DEF MarkSkipped, AnalysisEnds
  <1>4. /\ item \in Item /\ item.version \in Nat /\ unsettled \in BOOLEAN /\ AnalysesAre
        /\ analysis \in [Analyses -> Analysis \cup {Nobody}]
    BY ItemIs DEF LostFoundIInv, LostFoundTypeOK
  <1>5. copy \in Item
    BY <1>1, <1>3, <1>4 DEF AnalysesAre
  <1>6. CASE item.exists
    <2>1. new = [exists |-> copy.exists, status |-> copy.status, claims |-> copy.claims,
                 approvedClaimId |-> copy.approvedClaimId, version |-> copy.version, images |-> copy.images,
                 tagged |-> copy.tagged, analysisStatus |-> "SKIPPED", analysed |-> copy.analysed]
      BY <1>2, <1>5 DEF Item
    <2>2. /\ new \in Item /\ new.exists = copy.exists /\ new.claims = copy.claims /\ new.status = copy.status
          /\ new.approvedClaimId = copy.approvedClaimId /\ new.version = copy.version
          /\ new.images = copy.images /\ new.analysisStatus = "SKIPPED"
      BY <1>5, <2>1 DEF Item
    <2>3. /\ item' \in Item /\ item'.claims = item.claims /\ item'.approvedClaimId = item.approvedClaimId
          /\ item.version <= item'.version /\ item'.status = item.status /\ item'.exists = item.exists
          /\ item'.analysisStatus = IF copy.analysisStatus # "SKIPPED" THEN "SKIPPED" ELSE item.analysisStatus
      <3>1. item' = Saved(copy, new)
        BY <1>3, <1>6
      <3>2. /\ item' \in Item /\ item'.claims = item.claims /\ item'.approvedClaimId = item.approvedClaimId
            /\ item.version <= item'.version /\ item'.status = item.status /\ item'.exists = item.exists
            /\ item'.analysisStatus = IF new.analysisStatus # copy.analysisStatus THEN new.analysisStatus
                                      ELSE item.analysisStatus
        BY <1>4, <1>5, <2>2, <3>1, AnalysisSaves
      <3> QED
        BY <2>2, <3>2
    <2>4. AnalysisDue'
      <3>1. CASE copy.analysisStatus # "SKIPPED"
        BY <2>3, <3>1 DEF AnalysisDue
      <3>2. CASE copy.analysisStatus = "SKIPPED"
        <4>1. ~Settling(a)
          BY <1>1, <1>3, <3>2 DEF Settling
        <4>2. \A b \in Analyses \ {a} : analysis'[b] = analysis[b]
          BY <1>3, <1>4
        <4>3. (\E b \in Analyses : Settling(b)) => (\E b \in Analyses : Settling(b))'
          BY <4>1, <4>2 DEF Settling
        <4>4. Unqueued => Unqueued'
          BY <1>3 DEF Unqueued
        <4> QED
          BY <1>3, <1>4, <2>3, <3>2, <4>3, <4>4 DEF AnalysesAre, AnalysisDue
      <3> QED
        BY <3>1, <3>2
    <2> QED
      BY <1>3, <1>4, <2>3, <2>4, AnalysisMoves
  <1>7. CASE ~item.exists
    <2>1. AnalysisDue'
      BY <1>3, <1>7 DEF AnalysisDue
    <2> QED
      BY <1>3, <1>4, <1>7, <2>1, ItemStays, AnalysisMoves
  <1> QED
    BY <1>6, <1>7

LEMMA MarkProcessingKeeps == ASSUME LostFoundIInv, NEW a \in Analyses, MarkProcessing(a) PROVE LostFoundIInv'
  <1>1. PICK copy : copy = analysis[a].copy
    OBVIOUS
  <1>2. PICK new : new = [copy EXCEPT !.analysisStatus = "PROCESSING"]
    OBVIOUS
  <1>3. /\ analysis[a] # Nobody /\ analysis[a].at = "loaded"
        /\ UNCHANGED <<lfWork, told, reopened, late, raced, unheard, unsettled, lfRequests>>
    BY DEF MarkProcessing
  <1>4. /\ item \in Item /\ item.version \in Nat /\ unsettled \in BOOLEAN
        /\ analysis \in [Analyses -> Analysis \cup {Nobody}] /\ AnalysesAre
    BY ItemIs DEF LostFoundIInv, LostFoundTypeOK
  <1>5. copy \in Item
    BY <1>1, <1>3, <1>4 DEF AnalysesAre
  <1>7. CASE item' = Saved(copy, new) /\ analysis' = [analysis EXCEPT ![a] = [analysis[a] EXCEPT
                                                        !.at = "processing", !.copy = new]]
    <2>1. new = [exists |-> copy.exists, status |-> copy.status, claims |-> copy.claims,
                 approvedClaimId |-> copy.approvedClaimId, version |-> copy.version, images |-> copy.images,
                 tagged |-> copy.tagged, analysisStatus |-> "PROCESSING", analysed |-> copy.analysed]
      BY <1>2, <1>5 DEF Item
    <2>2. /\ new \in Item /\ new.exists = copy.exists /\ new.claims = copy.claims /\ new.status = copy.status
          /\ new.approvedClaimId = copy.approvedClaimId /\ new.version = copy.version
          /\ new.images = copy.images /\ new.analysisStatus = "PROCESSING"
      BY <1>5, <2>1 DEF Item
    <2>3. /\ item' \in Item /\ item'.claims = item.claims /\ item'.approvedClaimId = item.approvedClaimId
          /\ item.version <= item'.version /\ item'.status = item.status
      BY <1>4, <1>5, <1>7, <2>2, AnalysisSaves
    <2>4. PICK y : y = analysis[a]
      OBVIOUS
    <2>5. PICK x : x = [y EXCEPT !.at = "processing", !.copy = new]
      OBVIOUS
    <2>6. y \in Analysis
      BY <1>3, <1>4, <2>4
    <2>7. x = [at |-> "processing", force |-> y.force, copy |-> new]
      BY <2>5, <2>6 DEF Analysis
    <2>8. x \in Analysis /\ x.at = "processing" /\ x.copy = new
      BY <2>2, <2>6, <2>7 DEF Analysis
    <2>9. x # Nobody
      BY <2>8, LostFoundAssumption
    <2>10. analysis' = [analysis EXCEPT ![a] = x] /\ analysis'[a] = x
      BY <1>4, <1>7, <2>4, <2>5
    <2>11. AnalysisDue'
      <3>1. Settling(a)'
        BY <2>8, <2>9, <2>10 DEF Settling
      <3> QED
        BY <3>1 DEF AnalysisDue
    <2> QED
      BY <1>3, <1>4, <1>5, <2>2, <2>3, <2>8, <2>10, <2>11, AnalysisMoves
  <1>8. CASE ~item.exists /\ item' = item /\ analysis' = [analysis EXCEPT ![a] = Nobody]
    <2>1. AnalysisDue'
      BY <1>8 DEF AnalysisDue
    <2> QED
      BY <1>3, <1>4, <1>8, <2>1, ItemStays, AnalysisMoves
  <1> QED
    BY <1>1, <1>2, <1>7, <1>8 DEF MarkProcessing, AnalysisEnds

LEMMA CompleteKeeps == ASSUME LostFoundIInv, NEW a \in Analyses, Complete(a) PROVE LostFoundIInv'
  <1>1. PICK copy : copy = analysis[a].copy
    OBVIOUS
  <1>2. PICK new : new = [copy EXCEPT !.analysisStatus = "COMPLETED", !.tagged = TRUE, !.analysed = copy.images]
    OBVIOUS
  <1>3. /\ analysis[a] # Nobody /\ analysis[a].at = "processing"
        /\ analysis' = [analysis EXCEPT ![a] = Nobody]
        /\ UNCHANGED <<lfWork, told, reopened, late, raced, unheard, lfRequests>>
        /\ \/ item' = item /\ unsettled' = TRUE
           \/ item' = Saved(copy, new) /\ unsettled' = unsettled
    BY <1>1, <1>2 DEF Complete, AnalysisEnds
  <1>4. /\ item \in Item /\ item.version \in Nat /\ unsettled \in BOOLEAN /\ AnalysesAre
    BY ItemIs DEF LostFoundIInv, LostFoundTypeOK
  <1>5. copy \in Item /\ copy.analysisStatus = "PROCESSING"
    BY <1>1, <1>3, <1>4 DEF AnalysesAre
  <1>7. CASE item' = Saved(copy, new) /\ unsettled' = unsettled
    <2>1. new = [exists |-> copy.exists, status |-> copy.status, claims |-> copy.claims,
                 approvedClaimId |-> copy.approvedClaimId, version |-> copy.version, images |-> copy.images,
                 tagged |-> TRUE, analysisStatus |-> "COMPLETED", analysed |-> copy.images]
      BY <1>2, <1>5 DEF Item
    <2>2. /\ new \in Item /\ new.exists = copy.exists /\ new.claims = copy.claims /\ new.status = copy.status
          /\ new.approvedClaimId = copy.approvedClaimId /\ new.version = copy.version
          /\ new.images = copy.images /\ new.analysisStatus = "COMPLETED"
      BY <1>5, <2>1 DEF Item
    <2>3. /\ item' \in Item /\ item'.claims = item.claims /\ item'.approvedClaimId = item.approvedClaimId
          /\ item.version <= item'.version /\ item'.status = item.status
          /\ item'.analysisStatus = "COMPLETED"
      BY <1>4, <1>5, <1>7, <2>2, AnalysisSaves
    <2>4. AnalysisDue'
      BY <2>3 DEF AnalysisDue
    <2> QED
      BY <1>3, <1>4, <1>7, <2>3, <2>4, AnalysisMoves
  <1>8. CASE item' = item /\ unsettled' = TRUE
    <2>1. AnalysisDue'
      BY <1>8 DEF AnalysisDue
    <2> QED
      BY <1>3, <1>4, <1>8, <2>1, ItemStays, AnalysisMoves
  <1> QED
    BY <1>3, <1>7, <1>8

LEMMA FailAnalysisKeeps == ASSUME LostFoundIInv, NEW a \in Analyses, FailAnalysis(a) PROVE LostFoundIInv'
  <1>1. PICK copy : copy = analysis[a].copy
    OBVIOUS
  <1>2. PICK new : new = [copy EXCEPT !.analysisStatus = "FAILED"]
    OBVIOUS
  <1>3. /\ analysis[a] # Nobody /\ analysis[a].at = "processing"
        /\ analysis' = [analysis EXCEPT ![a] = Nobody]
        /\ UNCHANGED <<lfWork, told, reopened, late, raced, unheard, unsettled, lfRequests>>
        /\ item' = IF item.exists THEN Saved(copy, new) ELSE item
    BY <1>1, <1>2 DEF FailAnalysis, AnalysisEnds
  <1>4. /\ item \in Item /\ item.version \in Nat /\ unsettled \in BOOLEAN /\ AnalysesAre
    BY ItemIs DEF LostFoundIInv, LostFoundTypeOK
  <1>5. copy \in Item /\ copy.analysisStatus = "PROCESSING"
    BY <1>1, <1>3, <1>4 DEF AnalysesAre
  <1>7. CASE item.exists
    <2>1. new = [exists |-> copy.exists, status |-> copy.status, claims |-> copy.claims,
                 approvedClaimId |-> copy.approvedClaimId, version |-> copy.version, images |-> copy.images,
                 tagged |-> copy.tagged, analysisStatus |-> "FAILED", analysed |-> copy.analysed]
      BY <1>2, <1>5 DEF Item
    <2>2. /\ new \in Item /\ new.exists = copy.exists /\ new.claims = copy.claims /\ new.status = copy.status
          /\ new.approvedClaimId = copy.approvedClaimId /\ new.version = copy.version
          /\ new.images = copy.images /\ new.analysisStatus = "FAILED"
      BY <1>5, <2>1 DEF Item
    <2>3. /\ item' \in Item /\ item'.claims = item.claims /\ item'.approvedClaimId = item.approvedClaimId
          /\ item.version <= item'.version /\ item'.status = item.status
          /\ item'.analysisStatus = "FAILED"
      BY <1>3, <1>4, <1>5, <1>7, <2>2, AnalysisSaves
    <2>4. AnalysisDue'
      BY <2>3 DEF AnalysisDue
    <2> QED
      BY <1>3, <1>4, <1>7, <2>3, <2>4, AnalysisMoves
  <1>8. CASE ~item.exists
    <2>1. AnalysisDue'
      BY <1>3, <1>8 DEF AnalysisDue
    <2> QED
      BY <1>3, <1>4, <1>8, <2>1, ItemStays, AnalysisMoves
  <1> QED
    BY <1>7, <1>8

-----------------------------------------------------------------------------
\* A claim is appended behind the others.
LEMMA SaveClaimKeeps == ASSUME LostFoundIInv, NEW w \in LfWorkers, SaveClaim(w) PROVE LostFoundIInv'
  <1>1. PICK r : r = lfWork[w]
    OBVIOUS
  <1>2. PICK c : c = Cardinality(Claimed(item)) + 1
    OBVIOUS
  <1>3. PICK x : x = item
    OBVIOUS
  <1>4. PICK cl : cl = [by |-> r.op, status |-> "PENDING"]
    OBVIOUS
  <1>5. /\ r # Nobody /\ r.op \in Claimants /\ lfWork' = [lfWork EXCEPT ![w] = Nobody]
        /\ UNCHANGED <<analysis, told, reopened, raced, unheard, unsettled, lfRequests>>
        /\ \/ UNCHANGED <<item, late>>
           \/ /\ item' = [x EXCEPT !.claims[c] = cl, !.version = @ + 1]
              /\ late' = (late \/ item.status # "OPEN")
    BY <1>1, <1>2, <1>3, <1>4 DEF SaveClaim
  <1>6. LostFoundTypeOK /\ WorkIs /\ AnalysesAre /\ x \in Item /\ reopened \in Nat /\ x.version \in Nat
    BY <1>3, ItemIs DEF LostFoundIInv, LostFoundTypeOK
  <1>7. lfWork'[w] = Nobody /\ \A v \in LfWorkers \ {w} : lfWork'[v] = lfWork[v]
    BY <1>5, <1>6 DEF LostFoundTypeOK
  <1>8. r.tells = {} /\ r.op # "review" /\ (Unqueued => Unqueued')
    <2>1. r.tells = {} /\ r.op # "review" /\ r.op # "queue"
      BY <1>1, <1>5, <1>6, LostFoundAssumption DEF WorkIs, RequestIs
    <2> QED
      BY <1>1, <1>7, <2>1 DEF Unqueued
  <1>9. /\ \A v \in LfWorkers : lfWork'[v] = lfWork[v] \/ lfWork'[v] = Nobody
        /\ unheard' \/ (~unheard /\ \A v \in LfWorkers :
                          lfWork[v] # Nobody /\ lfWork'[v] = Nobody => lfWork[v].tells = {})
    BY <1>1, <1>5, <1>7, <1>8
  <1>10. CASE UNCHANGED <<item, late>>
    <2>1. LostFoundTypeOK' /\ AnalysesAre'
      <3>1. LostFoundTypeOK'
        BY <1>5, <1>6, <1>10 DEF LostFoundTypeOK
      <3> QED
        BY <1>5, <1>6, <1>8, <1>10, <3>1, DueStays
    <2>2. WorkIs'
      BY <1>3, <1>6, <1>9, <1>10, VersionsAre, WorkStays
    <2>3. ASSUME ~raced PROVE ClaimsGood'
      BY <1>3, <1>5, <1>6, <1>9, <1>10, <2>3, ClaimsStay DEF LostFoundIInv
    <2> QED
      BY <1>5, <2>1, <2>2, <2>3 DEF LostFoundIInv
  <1>11. CASE /\ item' = [x EXCEPT !.claims[c] = cl, !.version = @ + 1]
              /\ late' = (late \/ item.status # "OPEN")
    <2>1. PICK q : q = [x.claims EXCEPT ![c] = cl]
      OBVIOUS
    <2>2. cl.status = "PENDING" /\ cl \in [by : Claimants, status : {"PENDING", "APPROVED", "REJECTED"}]
      BY <1>4, <1>5
    <2>3. /\ q \in [ClaimIds -> [by : Claimants, status : {"PENDING", "APPROVED", "REJECTED"}] \cup {NoClaim}]
          /\ \A o \in ClaimIds : q[o] = IF o = c THEN cl ELSE x.claims[o]
      BY <1>6, <2>1, <2>2, ItemIs
    <2>4. item' = [exists |-> x.exists, status |-> x.status, claims |-> q,
                   approvedClaimId |-> x.approvedClaimId, version |-> x.version + 1, images |-> x.images,
                   tagged |-> x.tagged, analysisStatus |-> x.analysisStatus, analysed |-> x.analysed]
      BY <1>6, <1>11, <2>1 DEF Item
    <2>5. /\ item' \in Item /\ item'.exists = x.exists /\ item'.status = x.status /\ item'.claims = q
          /\ item'.approvedClaimId = x.approvedClaimId /\ item'.version = x.version + 1
          /\ item'.images = x.images /\ item'.analysisStatus = x.analysisStatus
      BY <1>6, <2>3, <2>4 DEF Item
    <2>6. item'.version \in Nat /\ item.version <= item'.version /\ item.version < item'.version
      BY <1>3, <1>6, <2>5
    <2>7. LostFoundTypeOK'
      <3>1. late' \in BOOLEAN
        BY <1>11, Zenon
      <3> QED
        BY <1>5, <1>6, <2>5, <3>1 DEF LostFoundTypeOK
    <2>8. AnalysesAre'
      BY <1>3, <1>5, <1>6, <1>8, <2>5, DueStays
    <2>9. WorkIs'
      BY <1>3, <1>6, <1>9, <2>5, <2>6, VersionsAre, WorkStays
    <2>10. ASSUME ~raced PROVE ClaimsGood'
      <3>1. ClaimsGood
        BY <2>10 DEF LostFoundIInv
      <3>2. PICK n \in 0..MaxClaims : Claimed(item) = 1..n
        BY <3>1 DEF ClaimsGood, ClaimsAreInARow
      <3>3. c = n + 1 /\ n \in Nat
        <4>1. Cardinality(1..n) = n /\ n \in Nat
          BY <3>2, LostFoundAssumption, FS_Interval
        <4> QED
          BY <1>2, <3>2, <4>1
      <3>4. \A o \in ClaimIds : o \in 1..n <=> x.claims[o].status # "none"
        BY <1>3, <1>6, <3>2, ItemIs DEF Claimed
      <3>5. c \notin 1..n /\ (c \in ClaimIds => x.claims[c].status = "none")
        BY <3>3, <3>4
      <3>6. ClaimsAreInARow'
        <4>1. Claimed(item)' = {o \in ClaimIds : q[o] # NoClaim}
          BY <2>5 DEF Claimed
        <4>2. ASSUME NEW o \in ClaimIds PROVE q[o] # NoClaim <=> (o = c \/ o \in 1..n)
          <5>1. cl # NoClaim
            BY <2>2 DEF NoClaim
          <5>2. x.claims[o] = NoClaim <=> x.claims[o].status = "none"
            BY <1>6, ItemIs
          <5> QED
            BY <2>3, <3>4, <5>1, <5>2
        <4>3. CASE c \in ClaimIds
          <5>1. c \in 0..MaxClaims
            BY <4>3, LostFoundAssumption DEF ClaimIds
          <5>2. Claimed(item)' = 1..c
            BY <3>2, <3>3, <4>1, <4>2, <4>3, LostFoundAssumption DEF ClaimIds
          <5> QED
            BY <5>1, <5>2 DEF ClaimsAreInARow
        <4>4. CASE c \notin ClaimIds
          <5>1. Claimed(item)' = 1..n
            BY <3>2, <3>3, <4>1, <4>2, <4>4, LostFoundAssumption DEF ClaimIds
          <5> QED
            BY <3>2, <5>1 DEF ClaimsAreInARow
        <4> QED
          BY <4>3, <4>4
      <3>7. \A v \in LfWorkers : Reviewing(v)' => Reviewing(v) /\ lfWork'[v] = lfWork[v]
        BY <1>9 DEF Reviewing
      <3>8. \A v \in LfWorkers : ~Current(v)'
        <4>1. SUFFICES ASSUME NEW v \in LfWorkers, Current(v)' PROVE FALSE
          OBVIOUS
        <4>2. lfWork'[v] = lfWork[v] /\ lfWork[v] # Nobody /\ item'.version = lfWork[v].copy.version
          BY <3>7, <4>1 DEF Current, Reviewing
        <4>3. lfWork[v].copy.version <= item.version /\ lfWork[v].copy.version \in Nat
          BY <1>6, <4>2, VersionsAre DEF WorkIs
        <4> QED
          BY <1>3, <1>6, <2>6, <4>2, <4>3
      <3>9. ReviewsAreCurrent'
        BY <1>3, <2>5, <3>1, <3>7, <3>8 DEF ClaimsGood, ReviewsAreCurrent
      <3>10. ApprovedIsApproved'
        <4>1. x.approvedClaimId # 0 => x.approvedClaimId \in ClaimIds
          BY <1>6, LostFoundAssumption, ItemIs DEF ClaimIds
        <4> QED
          BY <1>3, <2>3, <2>5, <3>1, <3>5, <4>1, ZenonT(30) DEF ClaimsGood, ApprovedIsApproved
      <3>11. TellsWhatIsStored'
        <4>1. SUFFICES ASSUME NEW v \in LfWorkers, lfWork'[v] # Nobody, NEW o \in lfWork'[v].tells
                       PROVE  item'.claims[o].status = lfWork'[v].new.claims[o].status
          BY DEF TellsWhatIsStored
        <4>2. PICK rv \in LfRequest : rv = lfWork[v] /\ rv = lfWork'[v] /\ lfWork[v] # Nobody
          BY <1>6, <1>9, <4>1 DEF LostFoundTypeOK
        <4>3. o \in ClaimIds /\ rv.new.claims[o].status \in {"APPROVED", "REJECTED"}
          BY <1>6, <4>1, <4>2 DEF WorkIs, RequestIs, LfRequest
        <4>4. item.claims[o].status = rv.new.claims[o].status
          BY <3>1, <4>1, <4>2 DEF ClaimsGood, TellsWhatIsStored
        <4> QED
          BY <1>3, <2>3, <2>5, <3>5, <4>2, <4>3, <4>4
      <3>12. DecidedAreTold'
        <4>1. \A o \in ClaimIds : Telling(o) => Telling(o)'
          BY <1>1, <1>7, <1>8 DEF Telling
        <4> QED
          BY <1>3, <1>5, <2>2, <2>3, <2>5, <3>1, <4>1 DEF ClaimsGood, DecidedAreTold
      <3>13. FewApproved'
        <4>1. SUFFICES ASSUME ~late' PROVE Approvals' <= reopened'
          BY <3>8 DEF FewApproved
        <4>2. ~late /\ x.status = "OPEN"
          BY <1>3, <1>11, <4>1
        <4>3. Approvals <= reopened
          BY <1>3, <3>1, <4>2 DEF ClaimsGood, FewApproved
        <4>4. Among(item, "APPROVED")' = Among(item, "APPROVED")
          BY <1>3, <2>2, <2>3, <2>5, <3>5 DEF Among
        <4> QED
          BY <1>5, <4>3, <4>4 DEF Approvals
      <3> QED
        BY <3>6, <3>9, <3>10, <3>11, <3>12, <3>13 DEF ClaimsGood
    <2> QED
      BY <1>5, <2>7, <2>8, <2>9, <2>10 DEF LostFoundIInv
  <1> QED
    BY <1>5, <1>10, <1>11

-----------------------------------------------------------------------------
LEMMA Marked ==
  ASSUME NEW r \in LfRequest, NEW T \in SUBSET ClaimIds, NEW b \in BOOLEAN, NEW s,
         s = [op |-> r.op, copy |-> r.copy, new |-> r.new, claim |-> r.claim, stale |-> b, tells |-> T]
  PROVE  /\ s \in LfRequest /\ s # Nobody /\ s.op = r.op /\ s.copy = r.copy /\ s.new = r.new /\ s.claim = r.claim
         /\ s.stale = b /\ s.tells = T
  <1>1. s \in LfRequest
    BY DEF LfRequest
  <1> QED
    BY <1>1, LostFoundAssumption

\* What saving a review does to the requests: it has claims to tell of, and other
\* reviews are outdated.
LEMMA OutdatedIs ==
  ASSUME LostFoundTypeOK, NEW w \in LfWorkers, lfWork[w] # Nobody, NEW T \in SUBSET ClaimIds,
         lfWork' = [Outdated(w) EXCEPT ![w].tells = T]
  PROVE  /\ lfWork' \in [LfWorkers -> LfRequest \cup {Nobody}]
         /\ lfWork'[w].tells = T
         /\ \A v \in LfWorkers \ {w} : lfWork[v] # Nobody => lfWork'[v].tells = lfWork[v].tells
         /\ \A v \in LfWorkers :
              /\ lfWork'[v] = Nobody <=> lfWork[v] = Nobody
              /\ lfWork[v] # Nobody =>
                   /\ lfWork'[v].op = lfWork[v].op /\ lfWork'[v].copy = lfWork[v].copy
                   /\ lfWork'[v].new = lfWork[v].new /\ lfWork'[v].claim = lfWork[v].claim
                   /\ v # w /\ lfWork[v].op = "review" => lfWork'[v].stale
  <1>1. lfWork \in [LfWorkers -> LfRequest \cup {Nobody}]
    BY DEF LostFoundTypeOK
  <1>2. PICK f : f = Outdated(w)
    OBVIOUS
  <1>3. /\ f = [v \in LfWorkers |-> IF v # w /\ lfWork[v] # Nobody /\ lfWork[v].op = "review"
                                      THEN [lfWork[v] EXCEPT !.stale = TRUE] ELSE lfWork[v]]
        /\ lfWork' = [f EXCEPT ![w] = [f[w] EXCEPT !.tells = T]]
    BY <1>2 DEF Outdated
  <1>4. PICK s : s = [lfWork[w] EXCEPT !.tells = T]
    OBVIOUS
  <1>5. lfWork'[w] = s /\ \A v \in LfWorkers \ {w} : lfWork'[v] = f[v]
    BY <1>3, <1>4
  <1>6. /\ s \in LfRequest /\ s # Nobody /\ s.op = lfWork[w].op /\ s.copy = lfWork[w].copy
        /\ s.new = lfWork[w].new /\ s.claim = lfWork[w].claim /\ s.tells = T
    <2>1. PICK r \in LfRequest : r = lfWork[w]
      BY <1>1
    <2>2. PICK b \in BOOLEAN : b = r.stale
      BY <2>1 DEF LfRequest
    <2>3. s = [op |-> r.op, copy |-> r.copy, new |-> r.new, claim |-> r.claim, stale |-> b, tells |-> T]
      BY <1>4, <2>1, <2>2 DEF LfRequest
    <2> QED
      BY <2>1, <2>3, Marked
  <1>7. ASSUME NEW v \in LfWorkers \ {w}
        PROVE  /\ f[v] \in LfRequest \cup {Nobody}
               /\ f[v] = Nobody <=> lfWork[v] = Nobody
               /\ lfWork[v] # Nobody =>
                    /\ f[v].op = lfWork[v].op /\ f[v].copy = lfWork[v].copy /\ f[v].tells = lfWork[v].tells
                    /\ f[v].new = lfWork[v].new /\ f[v].claim = lfWork[v].claim
                    /\ lfWork[v].op = "review" => f[v].stale
    <2>1. CASE lfWork[v] # Nobody /\ lfWork[v].op = "review"
      <3>1. PICK r \in LfRequest : r = lfWork[v]
        BY <1>1, <2>1
      <3>2. PICK g : g = [r EXCEPT !.stale = TRUE]
        OBVIOUS
      <3>3. PICK U \in SUBSET ClaimIds : U = r.tells
        BY DEF LfRequest
      <3>4. PICK b \in BOOLEAN : b
        OBVIOUS
      <3>5. g = [op |-> r.op, copy |-> r.copy, new |-> r.new, claim |-> r.claim, stale |-> b, tells |-> U]
        <4>1. b = TRUE
          BY <3>4
        <4> QED
          BY <3>2, <3>3, <4>1 DEF LfRequest
      <3>6. /\ g \in LfRequest /\ g # Nobody /\ g.op = r.op /\ g.copy = r.copy /\ g.new = r.new
            /\ g.claim = r.claim /\ g.stale = b /\ g.tells = U
        BY <3>5, Marked
      <3>7. f[v] = g
        BY <1>3, <2>1, <3>1, <3>2
      <3> QED
        BY <2>1, <3>1, <3>3, <3>4, <3>6, <3>7
    <2>2. CASE ~(lfWork[v] # Nobody /\ lfWork[v].op = "review")
      BY <1>1, <1>3, <2>2
    <2> QED
      BY <2>1, <2>2
  <1>8. lfWork' \in [LfWorkers -> LfRequest \cup {Nobody}]
    <2>1. f = [v \in LfWorkers |-> f[v]]
      BY <1>3
    <2>2. lfWork' = [v \in LfWorkers |-> IF v = w THEN s ELSE f[v]]
      BY <1>3, <1>4
    <2>3. ASSUME NEW v \in LfWorkers PROVE (IF v = w THEN s ELSE f[v]) \in LfRequest \cup {Nobody}
      <3>1. CASE v = w
        BY <1>6, <3>1
      <3>2. CASE v # w
        <4>1. v \in LfWorkers \ {w}
          BY <3>2
        <4>2. f[v] \in LfRequest \cup {Nobody}
          BY <1>7, <4>1
        <4> QED
          BY <3>2, <4>2
      <3> QED
        BY <3>1, <3>2
    <2> QED
      BY <2>2, <2>3
  <1>9. \A v \in LfWorkers :
              /\ lfWork'[v] = Nobody <=> lfWork[v] = Nobody
              /\ lfWork[v] # Nobody =>
                   /\ lfWork'[v].op = lfWork[v].op /\ lfWork'[v].copy = lfWork[v].copy
                   /\ lfWork'[v].new = lfWork[v].new /\ lfWork'[v].claim = lfWork[v].claim
                   /\ v # w /\ lfWork[v].op = "review" => lfWork'[v].stale
    <2>1. SUFFICES ASSUME NEW v \in LfWorkers
                   PROVE  /\ lfWork'[v] = Nobody <=> lfWork[v] = Nobody
                          /\ lfWork[v] # Nobody =>
                               /\ lfWork'[v].op = lfWork[v].op /\ lfWork'[v].copy = lfWork[v].copy
                               /\ lfWork'[v].new = lfWork[v].new /\ lfWork'[v].claim = lfWork[v].claim
                               /\ v # w /\ lfWork[v].op = "review" => lfWork'[v].stale
      OBVIOUS
    <2>2. CASE v = w
      BY <1>5, <1>6, <2>2
    <2>3. CASE v # w
      <3>1. v \in LfWorkers \ {w} /\ lfWork'[v] = f[v]
        BY <1>5, <2>3
      <3> QED
        BY <1>7, <3>1
    <2> QED
      BY <2>2, <2>3
  <1>10. \A v \in LfWorkers \ {w} : lfWork[v] # Nobody => lfWork'[v].tells = lfWork[v].tells
    BY <1>5, <1>7
  <1> QED
    BY <1>5, <1>6, <1>8, <1>9, <1>10

LEMMA ReviewIs ==
  ASSUME LostFoundIInv, NEW w \in LfWorkers, NEW r, r = lfWork[w], r # Nobody, r.op = "review"
  PROVE  /\ r \in LfRequest /\ r.copy \in Item /\ r.new \in Item /\ RequestIs(r) /\ r.claim \in ClaimIds
         /\ r.copy.claims[r.claim].status = "PENDING"
         /\ r.new.images = r.copy.images /\ r.new.analysisStatus = r.copy.analysisStatus
         /\ r.new.claims # r.copy.claims
  <1>1. r \in LfRequest /\ RequestIs(r)
    BY DEF LostFoundIInv, LostFoundTypeOK, WorkIs
  <1>2. r.copy \in Item /\ r.new \in Item /\ r.claim \in ClaimIds /\ r.copy.claims[r.claim].status = "PENDING"
    BY <1>1 DEF LfRequest, RequestIs, Among
  <1>3. r.new.claims[r.claim].status # "PENDING"
    BY <1>1, <1>2 DEF RequestIs, Approves, Rejects
  <1>4. r.new.images = r.copy.images /\ r.new.analysisStatus = r.copy.analysisStatus
    BY <1>1 DEF RequestIs
  <1> QED
    BY <1>1, <1>2, <1>3, <1>4

\* A review of the latest claims is saved over nothing.
LEMMA ReviewIsSaved ==
  ASSUME LostFoundIInv, ClaimsGood, NEW w \in LfWorkers, Reviewing(w), NEW r, r = lfWork[w],
         ~SaveFails(r.copy, r.new), item' = Saved(r.copy, r.new),
         lfWork' = [Outdated(w) EXCEPT ![w].tells = {r.claim} \cup Rejected(r)],
         UNCHANGED <<told, reopened, late, unheard>>
  PROVE  ClaimsGood'
  <1> DEFINE T == {r.claim} \cup Rejected(r)
  <1>1. /\ r # Nobody /\ r.op = "review" /\ r.tells = {} /\ r \in LfRequest /\ r.copy \in Item /\ r.new \in Item
        /\ RequestIs(r) /\ r.claim \in ClaimIds /\ r.copy.claims[r.claim].status = "PENDING"
        /\ r.new.version = r.copy.version /\ r.new.exists = r.copy.exists
        /\ Approves(r) \/ Rejects(r)
    <2>1. r # Nobody /\ r.op = "review" /\ r.tells = {}
      BY DEF Reviewing
    <2> QED
      BY <2>1, ReviewIs DEF RequestIs
  <1>2. LostFoundTypeOK /\ WorkIs /\ item \in Item
    BY DEF LostFoundIInv, LostFoundTypeOK
  <1>3. item.claims = r.copy.claims /\ item.approvedClaimId = r.copy.approvedClaimId /\ Current(w)
    <2>1. item.version = r.copy.version
      BY <1>1, ReviewIs DEF SaveFails, SetsEntry
    <2>2. Current(w)
      BY <2>1 DEF Current
    <2> QED
      BY <2>2 DEF ClaimsGood, ReviewsAreCurrent
  <1>4. /\ \A c \in ClaimIds : item'.claims[c] = r.new.claims[c]
        /\ item'.approvedClaimId = r.new.approvedClaimId
        /\ item'.status = IF r.new.status # r.copy.status THEN r.new.status ELSE item.status
        /\ item' \in Item
    <2>1. /\ \A c \in ClaimIds : item'.claims[c] = IF r.new.claims[c] # r.copy.claims[c] THEN r.new.claims[c]
                                                    ELSE item.claims[c]
          /\ item'.approvedClaimId = IF r.new.approvedClaimId # r.copy.approvedClaimId
                                       THEN r.new.approvedClaimId ELSE item.approvedClaimId
          /\ item'.status = IF r.new.status # r.copy.status THEN r.new.status ELSE item.status
          /\ item' \in Item
      BY <1>1, <1>2, SavedIs
    <2> QED
      BY <1>3, <2>1
  <1>5. ASSUME NEW c \in ClaimIds
        PROVE  /\ item.claims[c].status # "PENDING" => item'.claims[c].status = item.claims[c].status
               /\ item.claims[c].status = "PENDING" /\ c \notin T => item'.claims[c].status = "PENDING"
               /\ item.claims[c].status = "PENDING" => item'.claims[c].status # "none"
    <2>1. CASE Approves(r)
      <3>1. r.new.claims[c].status =
              IF c = r.claim THEN "APPROVED"
              ELSE IF r.copy.claims[c].status = "PENDING" THEN "REJECTED" ELSE r.copy.claims[c].status
        BY <2>1 DEF Approves
      <3>2. r.copy.claims[c].status = "PENDING" => c \in T
        BY <3>1 DEF Rejected, Among
      <3> QED
        BY <1>1, <1>3, <1>4, <3>1, <3>2
    <2>2. CASE Rejects(r)
      <3>1. r.new.claims[c].status = IF c = r.claim THEN "REJECTED" ELSE r.copy.claims[c].status
        BY <2>2 DEF Rejects
      <3> QED
        BY <1>1, <1>3, <1>4, <3>1
    <2> QED
      BY <1>1, <2>1, <2>2
  <1>6. T \in SUBSET ClaimIds
    BY <1>1 DEF Rejected, Among
  <1>7. /\ lfWork'[w].tells = T /\ lfWork'[w].new = r.new /\ r.claim \in T
        /\ \A v \in LfWorkers \ {w} : lfWork[v] # Nobody => lfWork'[v].tells = lfWork[v].tells
        /\ \A v \in LfWorkers :
             /\ lfWork'[v] = Nobody <=> lfWork[v] = Nobody
             /\ lfWork[v] # Nobody => /\ lfWork'[v].op = lfWork[v].op /\ lfWork'[v].new = lfWork[v].new
                                      /\ v # w /\ lfWork[v].op = "review" => lfWork'[v].stale
    <2>1. PICK U \in SUBSET ClaimIds : U = T
      BY <1>6
    <2>2. lfWork' = [Outdated(w) EXCEPT ![w].tells = U] /\ r.claim \in U
      BY <2>1
    <2>3. /\ lfWork'[w].tells = U
          /\ \A v \in LfWorkers \ {w} : lfWork[v] # Nobody => lfWork'[v].tells = lfWork[v].tells
          /\ \A v \in LfWorkers :
               /\ lfWork'[v] = Nobody <=> lfWork[v] = Nobody
               /\ lfWork[v] # Nobody => /\ lfWork'[v].op = lfWork[v].op /\ lfWork'[v].new = lfWork[v].new
                                        /\ v # w /\ lfWork[v].op = "review" => lfWork'[v].stale
      <3>1. lfWork[w] # Nobody /\ LostFoundTypeOK
        BY <1>1, <1>2
      <3> QED
        BY <2>2, <3>1, OutdatedIs
    <2> QED
      BY <1>1, <2>1, <2>2, <2>3
  <1> HIDE DEF T
  <1>8. \A v \in LfWorkers : ~Reviewing(v)' /\ ~Current(v)'
    BY <1>1, <1>7 DEF Reviewing, Current
  <1>9. ClaimsAreInARow'
    <2>1. ASSUME NEW c \in ClaimIds PROVE item'.claims[c] = NoClaim <=> item.claims[c] = NoClaim
      BY <1>2, <1>4, <1>5, ItemIs
    <2>2. Claimed(item)' = Claimed(item)
      BY <2>1 DEF Claimed
    <2> QED
      BY <2>2 DEF ClaimsGood, ClaimsAreInARow
  <1>10. ReviewsAreCurrent'
    BY <1>8 DEF ReviewsAreCurrent
  <1>11. ApprovedIsApproved'
    <2>1. CASE Approves(r)
      BY <1>1, <1>4, <2>1 DEF Approves, ApprovedIsApproved
    <2>2. CASE Rejects(r)
      <3>1. SUFFICES ASSUME item'.approvedClaimId # 0
                     PROVE  item'.claims[item'.approvedClaimId].status = "APPROVED"
        BY DEF ApprovedIsApproved
      <3>2. item'.approvedClaimId = item.approvedClaimId
        BY <1>3, <1>4, <2>2 DEF Rejects
      <3>3. item.approvedClaimId \in ClaimIds
        BY <1>2, <3>1, <3>2, LostFoundAssumption, ItemIs DEF ClaimIds
      <3>4. item.claims[item.approvedClaimId].status = "APPROVED"
        BY <3>1, <3>2 DEF ClaimsGood, ApprovedIsApproved
      <3> QED
        BY <1>5, <3>2, <3>3, <3>4
    <2> QED
      BY <1>1, <2>1, <2>2
  <1>12. TellsWhatIsStored'
    <2>1. SUFFICES ASSUME NEW v \in LfWorkers, lfWork'[v] # Nobody, NEW c \in lfWork'[v].tells
                   PROVE  item'.claims[c].status = lfWork'[v].new.claims[c].status
      BY DEF TellsWhatIsStored
    <2>2. CASE v = w
      BY <1>4, <1>6, <1>7, <2>1, <2>2
    <2>3. CASE v # w
      <3>1. PICK rv \in LfRequest : rv = lfWork[v] /\ lfWork[v] # Nobody
        BY <1>2, <1>7, <2>1 DEF LostFoundTypeOK
      <3>2. lfWork'[v].tells = rv.tells /\ lfWork'[v].new = rv.new
        BY <1>7, <2>3, <3>1
      <3>3. c \in ClaimIds /\ rv.new.claims[c].status \in {"APPROVED", "REJECTED"}
        BY <1>2, <2>1, <3>1, <3>2 DEF WorkIs, RequestIs, LfRequest
      <3>4. item.claims[c].status = rv.new.claims[c].status
        BY <2>1, <3>1, <3>2 DEF ClaimsGood, TellsWhatIsStored
      <3> QED
        BY <1>5, <3>2, <3>3, <3>4
    <2> QED
      BY <2>2, <2>3
  <1>13. DecidedAreTold'
    <2>1. SUFFICES ASSUME ~unheard, NEW c \in ClaimIds, item'.claims[c].status \in {"APPROVED", "REJECTED"}
                   PROVE  told[c] = item'.claims[c].status \/ Telling(c)'
      BY DEF DecidedAreTold
    <2>2. ASSUME NEW v \in LfWorkers, lfWork[v] # Nobody, c \in lfWork[v].tells PROVE Telling(c)'
      <3>1. v # w
        BY <1>1, <2>2
      <3> QED
        BY <1>7, <2>2, <3>1 DEF Telling
    <2>3. CASE c \in T
      BY <1>1, <1>7, <2>3 DEF Telling
    <2>4. CASE c \notin T
      <3>1. item.claims[c].status = item'.claims[c].status
        BY <1>5, <2>1, <2>4
      <3>2. told[c] = item.claims[c].status \/ Telling(c)
        BY <2>1, <3>1 DEF ClaimsGood, DecidedAreTold
      <3> QED
        BY <2>2, <3>1, <3>2 DEF Telling
    <2> QED
      BY <2>3, <2>4
  <1>14. FewApproved'
    <2>1. SUFFICES ASSUME ~late
                   PROVE  \/ Approvals' <= reopened
                          \/ /\ Approvals' <= 1 + reopened /\ Among(item, "PENDING")' = {}
                             /\ item'.status # "OPEN"
      BY <1>8 DEF FewApproved
    <2>2. r.claim \in Among(item, "PENDING")
      BY <1>1, <1>3 DEF Among
    <2>3. Approvals <= reopened
      BY <2>1, <2>2 DEF ClaimsGood, FewApproved
    <2>4. Approvals \in Nat /\ reopened \in Nat /\ IsFiniteSet(Among(item, "APPROVED"))
      BY <1>2, ApprovalsAreCounted DEF LostFoundTypeOK
    <2>5. CASE Approves(r)
      <3>1. Among(item, "APPROVED")' = Among(item, "APPROVED") \cup {r.claim} /\ Among(item, "PENDING")' = {}
        <4>1. \A c \in ClaimIds : item'.claims[c].status =
                IF c = r.claim THEN "APPROVED"
                ELSE IF item.claims[c].status = "PENDING" THEN "REJECTED" ELSE item.claims[c].status
          BY <1>3, <1>4, <2>5 DEF Approves
        <4> QED
          BY <1>1, <4>1 DEF Among
      <3>2. r.claim \notin Among(item, "APPROVED")
        BY <2>2 DEF Among
      <3>3. Approvals' = Approvals + 1
        BY <2>4, <3>1, <3>2, FS_AddElement DEF Approvals
      <3>4. CASE item'.status # "OPEN"
        BY <2>3, <2>4, <3>1, <3>3, <3>4
      <3>5. CASE item'.status = "OPEN"
        <4>1. r.new.status = "CLAIMED" /\ r.copy.status = "CLAIMED" /\ item.status = "OPEN"
          BY <1>4, <2>5, <3>5 DEF Approves
        <4>2. Approvals < reopened
          BY <1>3, <2>1, <4>1 DEF ClaimsGood, FewApproved
        <4> QED
          BY <2>4, <3>3, <4>2
      <3> QED
        BY <3>4, <3>5
    <2>6. CASE Rejects(r)
      <3>1. \A c \in ClaimIds : item'.claims[c].status = IF c = r.claim THEN "REJECTED" ELSE item.claims[c].status
        BY <1>3, <1>4, <2>6 DEF Rejects
      <3>2. Among(item, "APPROVED")' = Among(item, "APPROVED")
        BY <2>2, <3>1 DEF Among
      <3> QED
        BY <2>3, <3>2 DEF Approvals
    <2> QED
      BY <1>1, <2>5, <2>6
  <1> QED
    BY <1>9, <1>10, <1>11, <1>12, <1>13, <1>14 DEF ClaimsGood

LEMMA SaveReviewKeeps == ASSUME LostFoundIInv, NEW w \in LfWorkers, SaveReview(w) PROVE LostFoundIInv'
  <1>1. PICK r : r = lfWork[w]
    OBVIOUS
  <1>2. /\ r # Nobody /\ r.op = "review" /\ r.tells = {}
        /\ UNCHANGED <<analysis, told, reopened, late, unheard, unsettled, lfRequests>>
    BY <1>1 DEF SaveReview
  <1>3. LostFoundTypeOK /\ WorkIs /\ AnalysesAre /\ item \in Item /\ item.version \in Nat /\ reopened \in Nat
    BY ItemIs DEF LostFoundIInv, LostFoundTypeOK
  <1>4. CASE lfWork' = [lfWork EXCEPT ![w] = Nobody] /\ UNCHANGED <<item, raced>>
    <2>1. /\ \A v \in LfWorkers : lfWork'[v] = lfWork[v] \/ lfWork'[v] = Nobody
          /\ unheard' \/ (~unheard /\ \A v \in LfWorkers :
                            lfWork[v] # Nobody /\ lfWork'[v] = Nobody => lfWork[v].tells = {})
      BY <1>1, <1>2, <1>3, <1>4 DEF LostFoundTypeOK
    <2>2. LostFoundTypeOK' /\ AnalysesAre'
      <3>1. LostFoundTypeOK'
        BY <1>2, <1>3, <1>4 DEF LostFoundTypeOK
      <3>2. \A v \in LfWorkers : v # w => lfWork'[v] = lfWork[v]
        BY <1>3, <1>4 DEF LostFoundTypeOK
      <3>3. Unqueued => Unqueued'
        BY <1>1, <1>2, <3>2 DEF Unqueued
      <3> QED
        BY <1>2, <1>3, <1>4, <3>1, <3>3, DueStays
    <2>3. WorkIs'
      BY <1>3, <1>4, <2>1, VersionsAre, WorkStays
    <2>4. ASSUME ~raced PROVE ClaimsGood'
      BY <1>2, <1>3, <1>4, <2>1, <2>4, ClaimsStay DEF LostFoundIInv
    <2> QED
      BY <1>4, <2>2, <2>3, <2>4 DEF LostFoundIInv
  <1>5. CASE /\ ~SaveFails(r.copy, r.new) /\ item' = Saved(r.copy, r.new)
             /\ lfWork' = [Outdated(w) EXCEPT ![w].tells = {r.claim} \cup Rejected(r)]
             /\ raced' = (raced \/ r.stale)
    <2>1. /\ r \in LfRequest /\ r.copy \in Item /\ r.new \in Item /\ RequestIs(r) /\ r.claim \in ClaimIds
          /\ r.new.images = r.copy.images /\ r.new.analysisStatus = r.copy.analysisStatus
          /\ r.new.version = r.copy.version /\ r.new.exists = r.copy.exists /\ (Approves(r) \/ Rejects(r))
      BY <1>1, <1>2, ReviewIs DEF RequestIs
    <2>2. /\ item' \in Item /\ item'.exists = item.exists /\ item'.version \in Nat
          /\ item.version <= item'.version /\ item'.images = item.images
          /\ item'.analysisStatus = item.analysisStatus
      BY <1>3, <1>5, <2>1, SavedIs
    <2>3. PICK T \in SUBSET ClaimIds : T = {r.claim} \cup Rejected(r)
      BY <2>1 DEF Rejected, Among
    <2>4. lfWork' = [Outdated(w) EXCEPT ![w].tells = T] /\ lfWork[w] # Nobody
      BY <1>1, <1>2, <1>5, <2>3
    <2>5. /\ lfWork' \in [LfWorkers -> LfRequest \cup {Nobody}]
          /\ lfWork'[w].tells = T
          /\ \A v \in LfWorkers \ {w} : lfWork[v] # Nobody => lfWork'[v].tells = lfWork[v].tells
          /\ \A v \in LfWorkers :
               /\ lfWork'[v] = Nobody <=> lfWork[v] = Nobody
               /\ lfWork[v] # Nobody =>
                    /\ lfWork'[v].op = lfWork[v].op /\ lfWork'[v].copy = lfWork[v].copy
                    /\ lfWork'[v].new = lfWork[v].new /\ lfWork'[v].claim = lfWork[v].claim
      BY <1>3, <2>4, OutdatedIs
    <2>6. LostFoundTypeOK'
      <3>1. raced' \in BOOLEAN
        BY <1>5, Zenon
      <3> QED
        BY <1>2, <1>3, <2>2, <2>5, <3>1 DEF LostFoundTypeOK
    <2>7. AnalysesAre'
      <3>1. Unqueued => Unqueued'
        BY <2>5 DEF Unqueued
      <3> QED
        BY <1>2, <1>3, <2>2, <3>1, DueStays
    <2>8. WorkIs'
      <3>1. SUFFICES ASSUME NEW v \in LfWorkers, lfWork'[v] # Nobody
                     PROVE  RequestIs(lfWork'[v]) /\ lfWork'[v].copy.version <= item'.version
        BY DEF WorkIs
      <3>2. PICK s : s = lfWork'[v]
        OBVIOUS
      <3>3. PICK q : q = lfWork[v]
        OBVIOUS
      <3>4. /\ q # Nobody /\ s.op = q.op /\ s.copy = q.copy /\ s.new = q.new /\ s.claim = q.claim
        BY <2>5, <3>1, <3>2, <3>3
      <3>5. RequestIs(q) /\ q.copy.version <= item.version
        BY <1>3, <3>3, <3>4 DEF WorkIs
      <3>6. s.copy.version <= item'.version
        <4>1. q.copy.version \in Nat
          BY <1>3, <3>3, <3>4, VersionsAre
        <4> QED
          BY <1>3, <2>2, <3>4, <3>5, <4>1
      <3>7. RequestIs(s)
        <4>1. Approves(q) \/ Rejects(q) => Approves(s) \/ Rejects(s)
          BY <3>4 DEF Approves, Rejects
        <4>2. CASE v # w
          <5>1. s.tells = q.tells
            BY <2>5, <3>2, <3>3, <3>4, <4>2
          <5> QED
            BY <3>4, <3>5, <4>1, <5>1 DEF RequestIs
        <4>3. CASE v = w
          <5>1. q = r /\ s.tells = T
            BY <1>1, <2>5, <3>2, <3>3, <4>3
          <5>2. ASSUME NEW c \in T PROVE r.new.claims[c].status \in {"APPROVED", "REJECTED"}
            <6>1. r.new.claims[r.claim].status \in {"APPROVED", "REJECTED"}
              BY <2>1 DEF Approves, Rejects
            <6> QED
              BY <2>3, <6>1 DEF Rejected, Among
          <5> QED
            BY <1>2, <3>4, <3>5, <4>1, <5>1, <5>2 DEF RequestIs
        <4> QED
          BY <4>2, <4>3
      <3> QED
        BY <2>2, <3>2, <3>4, <3>5, <3>6, <3>7
    <2>9. ASSUME ~raced' PROVE ClaimsGood'
      <3>1. ClaimsGood /\ Reviewing(w)
        BY <1>1, <1>2, <1>5, <2>9 DEF LostFoundIInv, Reviewing
      <3> QED
        BY <1>1, <1>2, <1>5, <3>1, ReviewIsSaved
    <2> QED
      BY <2>6, <2>7, <2>8, <2>9 DEF LostFoundIInv
  <1> QED
    BY <1>1, <1>4, <1>5 DEF SaveReview

LEMMA PublishResolvedKeeps ==
  ASSUME LostFoundIInv, NEW w \in LfWorkers, NEW c \in ClaimIds, PublishResolved(w, c) PROVE LostFoundIInv'
  <1>1. PICK r : r = lfWork[w]
    OBVIOUS
  <1>2. PICK s : s = IF r.tells = {c} THEN Nobody ELSE [r EXCEPT !.tells = r.tells \ {c}]
    OBVIOUS
  <1>3. /\ r # Nobody /\ c \in r.tells /\ lfWork' = [lfWork EXCEPT ![w] = s]
        /\ \/ told' = [told EXCEPT ![c] = r.new.claims[c].status] /\ UNCHANGED unheard
           \/ unheard' = TRUE /\ UNCHANGED told
        /\ UNCHANGED <<item, analysis, reopened, late, raced, unsettled, lfRequests>>
    BY <1>1, <1>2 DEF PublishResolved
  <1>4. /\ LostFoundTypeOK /\ WorkIs /\ AnalysesAre /\ item \in Item /\ reopened \in Nat
        /\ lfWork \in [LfWorkers -> LfRequest \cup {Nobody}]
        /\ told \in [ClaimIds -> {"nothing", "APPROVED", "REJECTED"}]
    BY DEF LostFoundIInv, LostFoundTypeOK
  <1>5. r \in LfRequest /\ RequestIs(r) /\ r.op = "review" /\ r.tells \in SUBSET ClaimIds
        /\ r.new.claims[c].status \in {"APPROVED", "REJECTED"}
    <2>1. r \in LfRequest /\ RequestIs(r)
      BY <1>1, <1>3, <1>4 DEF WorkIs
    <2> QED
      BY <1>3, <2>1 DEF RequestIs, LfRequest
  <1>6. /\ s \in LfRequest \cup {Nobody}
        /\ s # Nobody => /\ s.op = r.op /\ s.copy = r.copy /\ s.new = r.new /\ s.claim = r.claim
                         /\ s.tells = r.tells \ {c} /\ s.tells # {}
        /\ s = Nobody => r.tells = {c}
    <2>1. CASE r.tells = {c}
      BY <1>2, <2>1
    <2>2. CASE r.tells # {c}
      <3>1. PICK b \in BOOLEAN : b = r.stale
        BY <1>5 DEF LfRequest
      <3>2. PICK T \in SUBSET ClaimIds : T = r.tells \ {c}
        BY <1>5
      <3>3. s = [op |-> r.op, copy |-> r.copy, new |-> r.new, claim |-> r.claim, stale |-> b, tells |-> T]
        BY <1>2, <1>5, <2>2, <3>1, <3>2 DEF LfRequest
      <3>4. /\ s \in LfRequest /\ s # Nobody /\ s.op = r.op /\ s.copy = r.copy /\ s.new = r.new
            /\ s.claim = r.claim /\ s.tells = T
        BY <1>5, <3>3, Marked
      <3>5. T # {}
        BY <1>3, <2>2, <3>2
      <3> QED
        BY <3>2, <3>4, <3>5
    <2> QED
      BY <2>1, <2>2
  <1>7. lfWork'[w] = s /\ \A v \in LfWorkers \ {w} : lfWork'[v] = lfWork[v]
    BY <1>3, <1>4
  <1>8. LostFoundTypeOK'
    <2>1. told' \in [ClaimIds -> {"nothing", "APPROVED", "REJECTED"}]
      BY <1>3, <1>4, <1>5
    <2>2. unheard' \in BOOLEAN
      BY <1>3, <1>4 DEF LostFoundTypeOK
    <2> QED
      BY <1>3, <1>4, <1>6, <2>1, <2>2 DEF LostFoundTypeOK
  <1>9. AnalysesAre'
    <2>1. Unqueued => Unqueued'
      BY <1>1, <1>5, <1>7 DEF Unqueued
    <2> QED
      BY <1>3, <1>4, <2>1, DueStays
  <1>10. WorkIs'
    <2>1. SUFFICES ASSUME NEW v \in LfWorkers, lfWork'[v] # Nobody
                   PROVE  RequestIs(lfWork'[v]) /\ lfWork'[v].copy.version <= item'.version
      BY DEF WorkIs
    <2>2. CASE v = w
      <3>1. s # Nobody /\ lfWork'[v] = s /\ r.copy.version <= item.version
        BY <1>1, <1>3, <1>4, <1>7, <2>1, <2>2 DEF WorkIs
      <3>2. RequestIs(s)
        BY <1>5, <1>6, <3>1 DEF RequestIs, Approves, Rejects
      <3> QED
        BY <1>3, <1>6, <3>1, <3>2
    <2>3. CASE v # w
      BY <1>3, <1>4, <1>7, <2>1, <2>3 DEF WorkIs
    <2> QED
      BY <2>2, <2>3
  <1>11. ASSUME ~raced PROVE ClaimsGood'
    <2>1. ClaimsGood
      BY <1>11 DEF LostFoundIInv
    <2>2. ASSUME NEW v \in LfWorkers
          PROVE  (Reviewing(v)' => Reviewing(v) /\ lfWork'[v] = lfWork[v]) /\ (Current(v)' => Current(v))
      BY <1>1, <1>3, <1>6, <1>7, <2>2 DEF Reviewing, Current
    <2>3. ClaimsAreInARow' /\ ApprovedIsApproved'
      BY <1>3, <2>1 DEF ClaimsGood, ClaimsAreInARow, ApprovedIsApproved
    <2>4. \A v \in LfWorkers : Current(v)' => Reviewing(v)'
      BY DEF Current
    <2>5. ReviewsAreCurrent'
      BY <1>3, <2>1, <2>2, <2>4 DEF ClaimsGood, ReviewsAreCurrent
    <2>6. TellsWhatIsStored'
      BY <1>1, <1>3, <1>6, <1>7, <2>1 DEF ClaimsGood, TellsWhatIsStored
    <2>7. DecidedAreTold'
      <3>1. SUFFICES ASSUME ~unheard', NEW o \in ClaimIds, item.claims[o].status \in {"APPROVED", "REJECTED"}
                     PROVE  told'[o] = item.claims[o].status \/ Telling(o)'
        BY <1>3 DEF DecidedAreTold
      <3>2. ~unheard /\ told' = [told EXCEPT ![c] = r.new.claims[c].status]
        BY <1>3, <3>1
      <3>3. CASE o = c
        <4>1. told'[c] = r.new.claims[c].status
          BY <1>4, <3>2
        <4>2. item.claims[c].status = r.new.claims[c].status
          BY <1>1, <1>3, <2>1 DEF ClaimsGood, TellsWhatIsStored
        <4> QED
          BY <3>3, <4>1, <4>2
      <3>4. CASE o # c
        <4>1. told'[o] = told[o]
          BY <1>4, <3>2, <3>4
        <4>2. told[o] = item.claims[o].status \/ Telling(o)
          BY <2>1, <3>1, <3>2 DEF ClaimsGood, DecidedAreTold
        <4>3. Telling(o) => Telling(o)'
          <5>1. SUFFICES ASSUME NEW v \in LfWorkers, lfWork[v] # Nobody, o \in lfWork[v].tells PROVE Telling(o)'
            BY DEF Telling
          <5>2. CASE v = w
            <6>1. s # Nobody /\ o \in s.tells
              BY <1>1, <1>6, <3>4, <5>1, <5>2
            <6> QED
              BY <1>7, <6>1 DEF Telling
          <5>3. CASE v # w
            BY <1>7, <5>1, <5>3 DEF Telling
          <5> QED
            BY <5>2, <5>3
        <4> QED
          BY <4>1, <4>2, <4>3
      <3> QED
        BY <3>3, <3>4
    <2>8. FewApproved'
      BY <1>3, <2>1, <2>2, <2>4 DEF ClaimsGood, FewApproved, Approvals
    <2> QED
      BY <2>3, <2>5, <2>6, <2>7, <2>8 DEF ClaimsGood
  <1> QED
    BY <1>3, <1>8, <1>9, <1>10, <1>11 DEF LostFoundIInv

LEMMA CrashLostFoundKeeps == ASSUME LostFoundIInv, CrashLostFound PROVE LostFoundIInv'
  <1>1. /\ lfRequests > 0 /\ lfRequests' = lfRequests - 1
        /\ lfWork' = [w \in LfWorkers |-> Nobody] /\ analysis' = [a \in Analyses |-> Nobody]
        /\ unheard' = (unheard \/ \E w \in LfWorkers : lfWork[w] # Nobody /\ lfWork[w].tells # {})
        /\ unsettled' = (unsettled \/ Unqueued \/ \E a \in Analyses : analysis[a] # Nobody)
        /\ UNCHANGED <<item, told, reopened, late, raced>>
    BY DEF CrashLostFound, NewRequest
  <1>2. LostFoundTypeOK /\ WorkIs /\ AnalysesAre /\ item \in Item /\ item.version \in Nat /\ reopened \in Nat
    BY ItemIs DEF LostFoundIInv, LostFoundTypeOK
  <1>3. LostFoundTypeOK'
    <2>1. unheard' \in BOOLEAN
      BY <1>1, Zenon
    <2>2. unsettled' \in BOOLEAN
      BY <1>1, Zenon
    <2> QED
      BY <1>1, <1>2, <2>1, <2>2 DEF LostFoundTypeOK
  <1>4. AnalysesAre'
    BY <1>1, <1>2 DEF AnalysesAre, AnalysisDue, Settling
  <1>5. WorkIs'
    BY <1>1 DEF WorkIs
  <1>6. ASSUME ~raced PROVE ClaimsGood'
    <2>1. \/ unheard'
          \/ ~unheard /\ \A w \in LfWorkers : lfWork[w] # Nobody /\ lfWork'[w] = Nobody => lfWork[w].tells = {}
      BY <1>1
    <2>2. \A w \in LfWorkers : lfWork'[w] = lfWork[w] \/ lfWork'[w] = Nobody
      BY <1>1
    <2> QED
      BY <1>1, <1>2, <1>6, <2>1, <2>2, ClaimsStay DEF LostFoundIInv
  <1> QED
    BY <1>1, <1>3, <1>4, <1>5, <1>6 DEF LostFoundIInv

-----------------------------------------------------------------------------
LEMMA LostFoundInitGood ==
  ASSUME NEW images \in 0..MaxImages, NEW tagged \in BOOLEAN, NEW consent \in BOOLEAN,
         LostFoundInitWith(images, tagged, consent)
  PROVE  LostFoundIInv
  <1>1. PICK k : k = IF images > 0 THEN "PENDING" ELSE "SKIPPED"
    OBVIOUS
  <1>2. PICK q : q = [c \in ClaimIds |-> NoClaim]
    OBVIOUS
  <1>3. /\ item = [exists |-> TRUE, status |-> "OPEN", claims |-> q, approvedClaimId |-> 0, version |-> 0,
                   images |-> images, tagged |-> tagged, analysisStatus |-> k, analysed |-> 0]
        /\ lfWork = [w \in LfWorkers |-> Nobody]
        /\ told = [c \in ClaimIds |-> "nothing"] /\ reopened = 0
        /\ lfRequests = IF images = 0 THEN MaxLfRequests ELSE MaxEdits
        /\ late = FALSE /\ raced = FALSE /\ unheard = FALSE /\ unsettled = (images > 0 /\ ~consent)
    BY <1>1, <1>2 DEF LostFoundInitWith, NewItem
  <1>4. PICK first \in Analyses :
          analysis = [a \in Analyses |-> IF a = first /\ images > 0 /\ consent THEN Queued(FALSE) ELSE Nobody]
    BY DEF LostFoundInitWith
  <1>5. q \in [ClaimIds -> [by : Claimants, status : {"PENDING", "APPROVED", "REJECTED"}] \cup {NoClaim}]
    BY <1>2
  <1>6. /\ item \in Item /\ item.exists = TRUE /\ item.claims = q /\ item.approvedClaimId = 0
        /\ item.images = images /\ item.analysisStatus = k /\ item.status = "OPEN"
    BY <1>1, <1>3, <1>5, LostFoundAssumption DEF Item, ItemStatuses
  <1>7. analysis \in [Analyses -> Analysis \cup {Nobody}]
    BY <1>4, QueuedIs
  <1>8. LostFoundTypeOK
    <2>1. unsettled \in BOOLEAN
      BY <1>3, Zenon
    <2> QED
      BY <1>3, <1>6, <1>7, <2>1, LostFoundAssumption DEF LostFoundTypeOK
  <1>9. WorkIs
    BY <1>3 DEF WorkIs
  <1>10. AnalysesAre
    <2>1. images = 0 => item.analysisStatus = "SKIPPED"
      BY <1>1, <1>6
    <2>2. \A a \in Analyses : analysis[a] # Nobody => analysis[a].at = "queued"
      BY <1>4, QueuedIs
    <2>3. AnalysisDue
      <3>1. CASE images = 0
        BY <2>1, <1>6, <3>1 DEF AnalysisDue
      <3>2. CASE images > 0 /\ ~consent
        BY <1>3, <3>2 DEF AnalysisDue
      <3>3. CASE images > 0 /\ consent
        <4>1. analysis[first] # Nobody /\ analysis[first].at = "queued"
          BY <1>4, <2>2, <3>3, QueuedIs
        <4>2. Settling(first)
          BY <4>1 DEF Settling
        <4> QED
          BY <4>2 DEF AnalysisDue
      <3> QED
        BY <3>1, <3>2, <3>3, LostFoundAssumption
    <2> QED
      BY <2>2, <2>3 DEF AnalysesAre
  <1>11. ClaimsGood
    <2>1. \A c \in ClaimIds : item.claims[c] = NoClaim /\ item.claims[c].status = "none"
      BY <1>2, <1>6 DEF NoClaim
    <2>2. Claimed(item) = 1..0 /\ 0 \in 0..MaxClaims
      BY <2>1, LostFoundAssumption DEF Claimed
    <2>3. Approvals = 0
      <3>1. Among(item, "APPROVED") = {}
        BY <2>1 DEF Among
      <3> QED
        BY <3>1, FS_EmptySet DEF Approvals
    <2>4. \A w \in LfWorkers : ~Reviewing(w) /\ ~Current(w)
      BY <1>3 DEF Reviewing, Current
    <2>5. ClaimsAreInARow /\ ReviewsAreCurrent /\ ApprovedIsApproved
      BY <1>6, <2>2, <2>4 DEF ClaimsAreInARow, ReviewsAreCurrent, ApprovedIsApproved
    <2>6. TellsWhatIsStored /\ DecidedAreTold
      BY <1>3, <2>1 DEF TellsWhatIsStored, DecidedAreTold
    <2>7. FewApproved
      BY <1>3, <2>3, <2>4 DEF FewApproved
    <2> QED
      BY <2>5, <2>6, <2>7 DEF ClaimsGood
  <1> QED
    BY <1>8, <1>9, <1>10, <1>11 DEF LostFoundIInv

LEMMA LostFoundStep == ASSUME LostFoundIInv, [LostFoundNext]_lostFoundVars PROVE LostFoundIInv'
  <1>1. CASE UNCHANGED lostFoundVars
    <2>1. LostFoundTypeOK' /\ WorkIs' /\ AnalysesAre'
      BY <1>1 DEF lostFoundVars, LostFoundIInv, LostFoundTypeOK, WorkIs, AnalysesAre, AnalysisDue,
         Settling, Unqueued
    <2>2. ASSUME ~raced PROVE ClaimsGood'
      BY <1>1, <2>2 DEF lostFoundVars, LostFoundIInv, ClaimsGood, ClaimsAreInARow, ReviewsAreCurrent,
         ApprovedIsApproved, TellsWhatIsStored, DecidedAreTold, FewApproved, Reviewing, Current, Telling, Approvals
    <2> QED
      BY <1>1, <2>1, <2>2 DEF lostFoundVars, LostFoundIInv
  <1>2. ASSUME NEW w \in LfWorkers,
               \/ \E status \in EditStatuses, tags \in BOOLEAN :
                    \/ UpdateItem(w, status, tags)
                    \/ \E images \in 0..MaxImages : UpdateImages(w, status, tags, images)
               \/ \E by \in Claimants : ClaimItem(w, by)
               \/ \E c \in ClaimIds, status \in {"APPROVED", "REJECTED"} : ReviewClaim(w, c, status)
               \/ \E c \in ClaimIds : PublishResolved(w, c)
               \/ SaveUpdate(w) \/ QueueAnalysis(w) \/ SaveClaim(w) \/ SaveReview(w)
        PROVE  LostFoundIInv'
    <2>1. CASE \E status \in EditStatuses, tags \in BOOLEAN :
                    \/ UpdateItem(w, status, tags)
                    \/ \E images \in 0..MaxImages : UpdateImages(w, status, tags, images)
      BY <2>1, UpdateItemKeeps, UpdateImagesKeeps
    <2>2. CASE \E by \in Claimants : ClaimItem(w, by)
      BY <2>2, ClaimItemKeeps
    <2>3. CASE \E c \in ClaimIds, status \in {"APPROVED", "REJECTED"} : ReviewClaim(w, c, status)
      BY <2>3, ReviewClaimKeeps
    <2>4. CASE SaveUpdate(w) \/ QueueAnalysis(w) \/ SaveClaim(w) \/ SaveReview(w)
      BY <2>4, SaveUpdateKeeps, QueueAnalysisKeeps, SaveClaimKeeps, SaveReviewKeeps
    <2>5. CASE \E c \in ClaimIds : PublishResolved(w, c)
      BY <2>5, PublishResolvedKeeps
    <2> QED
      BY <1>2, <2>1, <2>2, <2>3, <2>4, <2>5
  <1>3. CASE DeleteItem \/ CrashLostFound \/ CleanupStuckProcessing
    BY <1>3, DeleteItemKeeps, CrashLostFoundKeeps, CleanupKeeps
  <1>4. CASE \E status \in {"OPEN", "CLOSED"} : BulkModerate(status)
    BY <1>4, BulkModerateKeeps
  <1>5. CASE \E a \in Analyses : StartAnalysis(a) \/ MarkSkipped(a) \/ MarkProcessing(a) \/ Complete(a) \/ FailAnalysis(a)
    BY <1>5, StartAnalysisKeeps, MarkSkippedKeeps, MarkProcessingKeeps, CompleteKeeps, FailAnalysisKeeps
  <1> QED
    BY <1>1, <1>2, <1>3, <1>4, <1>5 DEF LostFoundNext

LEMMA LostFoundIsInvariant == LostFoundSpec => []LostFoundIInv
  <1>1. ASSUME NEW images \in 0..MaxImages, NEW tagged \in BOOLEAN, NEW consent \in BOOLEAN,
               LostFoundInitWith(images, tagged, consent)
        PROVE  LostFoundIInv
    BY <1>1, LostFoundInitGood
  <1>2. (\E images \in 0..MaxImages, tagged \in BOOLEAN, consent \in BOOLEAN :
           LostFoundInitWith(images, tagged, consent)) => LostFoundIInv
    BY <1>1
  <1> QED
    BY <1>2, LostFoundStep, PTL DEF LostFoundSpec

\* reviewClaim and save(): the claim named as approved is approved, and there is one approved
\* claim more than the item was opened again at most, whatever the number of claimants,
\* requests at a time, edits, crashes and moderators.
THEOREM ApprovalsStand == LostFoundSpec => []ApprovalStands
  <1>1. LostFoundIInv => ApprovalStands
    <2>1. SUFFICES ASSUME LostFoundIInv, ClaimsGood PROVE ApprovalStands
      BY DEF LostFoundIInv, ApprovalStands
    <2>2. Approvals \in Nat /\ reopened \in Nat
      BY <2>1, ApprovalsAreCounted DEF LostFoundIInv, LostFoundTypeOK
    <2>3. late \/ Approvals <= 1 + reopened
      BY <2>1, <2>2 DEF ClaimsGood, FewApproved
    <2> QED
      BY <2>1, <2>3 DEF ClaimsGood, ApprovedIsApproved, ApprovalStands, Approvals
  <1> QED
    BY <1>1, LostFoundIsInvariant, PTL

\* reviewClaim and publishLostFoundEvent: once the reviews are over, every claimant whose
\* claim is decided was last told what was decided.
THEOREM ClaimantsAreTold == LostFoundSpec => []ClaimantsHear
  <1>1. LostFoundIInv => ClaimantsHear
    <2>1. SUFFICES ASSUME LostFoundIInv, ClaimsGood, ~unheard,
                          \A w \in LfWorkers : lfWork[w] # Nobody => lfWork[w].tells = {},
                          NEW c \in Claimed(item), item.claims[c].status # "PENDING"
                   PROVE  told[c] = item.claims[c].status
      BY DEF LostFoundIInv, ClaimantsHear
    <2>2. c \in ClaimIds /\ item.claims[c].status \in {"APPROVED", "REJECTED"}
      BY <2>1, ItemIs DEF LostFoundIInv, LostFoundTypeOK, Claimed
    <2> QED
      BY <2>1, <2>2 DEF ClaimsGood, DecidedAreTold, Telling
  <1> QED
    BY <1>1, LostFoundIsInvariant, PTL

\* updateItem, analyzeItem and cleanupStuckProcessing: the analysis of an item has ended, or one
\* is queued or running, save where a crash or a changed version cut one short, whatever lists
\* of images the item is given or loses meanwhile.
THEOREM AnalysesSettle == LostFoundSpec => []AnalysisSettles
  <1>1. LostFoundIInv => AnalysisSettles
    BY DEF LostFoundIInv, AnalysesAre, AnalysisDue, AnalysisSettles, Settling
  <1> QED
    BY <1>1, LostFoundIsInvariant, PTL

-----------------------------------------------------------------------------
(* The rate limit of OcrRateLimit, for every limit and any number of       *)
(* requests at a time.                                                     *)

OcrSpec == OcrInit /\ [][OcrNext]_ocrVars

\* Requests between the INCR that made their key and its EXPIRE.
Pending == {c \in OcrCalls : ocr[c] # 0 /\ c \notin timed}

\* Requests the present key counted that it will let through.
Passing == {c \in fresh : ocr[c] # 0 /\ ~Refused(ocr[c])}

OcrTypes ==
  /\ count \in Nat /\ ttl \in BOOLEAN
  /\ ocr \in [OcrCalls -> Nat] /\ timed \subseteq OcrCalls /\ fresh \subseteq OcrCalls
  /\ admitted \in Nat /\ beyond \in Nat /\ endless \in BOOLEAN

\* Unless an EXPIRE was never carried out, exactly the keys without an end have a
\* request that is to give them one, and it is the only one that may.
EndIsNear ==
  \/ endless
  \/ /\ count = 0 => ~ttl
     /\ count = 0 \/ ttl => Pending = {}
     /\ count > 0 /\ ~ttl => \E c \in fresh : Pending = {c}

\* The requests a key has let through and will let through are no more than it
\* counted, and no more than the limit, but for those beyond it.
PlacesAreTaken ==
  /\ admitted + Cardinality(Passing) <= count + beyond
  /\ admitted + Cardinality(Passing) <= MaxOcr + beyond

OcrIInv == OcrTypes /\ EndIsNear /\ PlacesAreTaken

LEMMA OcrInitIInv ==
  ASSUME OcrInit
  PROVE  OcrIInv
  <1>1. OcrTypes
    BY DEF OcrInit, OcrTypes
  <1>2. Pending = {} /\ Passing = {}
    BY DEF OcrInit, Pending, Passing
  <1>3. EndIsNear
    BY <1>2 DEF OcrInit, EndIsNear
  <1>4. PlacesAreTaken
    BY <1>2, FS_EmptySet, OcrAssumption DEF OcrInit, PlacesAreTaken
  <1> QED
    BY <1>1, <1>3, <1>4 DEF OcrIInv

LEMMA PassingIsFinite ==
  ASSUME OcrTypes
  PROVE  IsFiniteSet(Passing) /\ Cardinality(Passing) \in Nat
  <1>1. Passing \in SUBSET OcrCalls
    BY DEF Passing, OcrTypes
  <1> QED
    BY <1>1, FS_Subset, FS_CardinalityType, OcrAssumption

\* A step after which fewer pass keeps the sums.
LEMMA FewerPass ==
  ASSUME OcrTypes, OcrTypes', PlacesAreTaken,
         Passing' \subseteq Passing, count' >= count,
         (admitted' = admitted /\ beyond' = beyond) \/ (admitted' = admitted + 1 /\ beyond' = beyond + 1)
  PROVE  PlacesAreTaken'
  <1>1. IsFiniteSet(Passing) /\ Cardinality(Passing) \in Nat
    BY PassingIsFinite
  <1>2. Cardinality(Passing') <= Cardinality(Passing) /\ IsFiniteSet(Passing')
    BY <1>1, FS_Subset
  <1>3. Cardinality(Passing') \in Nat
    BY <1>2, FS_CardinalityType
  <1> QED
    BY <1>1, <1>2, <1>3, OcrAssumption DEF PlacesAreTaken, OcrTypes

LEMMA IncrKeeps ==
  ASSUME OcrIInv, NEW c \in OcrCalls, Incr(c)
  PROVE  OcrIInv'
  <1>1. OcrTypes
    BY DEF OcrIInv
  <1>2. OcrTypes'
    BY <1>1 DEF Incr, OcrTypes, First
  <1>3. /\ c \notin Pending /\ c \notin Passing
        /\ count' = count + 1 /\ count' > 0 /\ c \in fresh' /\ fresh \subseteq fresh'
        /\ ocr'[c] = count + 1
        /\ \A b \in OcrCalls \ {c} : ocr'[b] = ocr[b] /\ (b \in timed' <=> b \in timed)
                                     /\ (b \in fresh' <=> b \in fresh)
        /\ c \in timed' <=> count # 0
    BY <1>1 DEF Incr, OcrTypes, Pending, Passing, First
  <1>4. EndIsNear'
    <2>1. CASE count = 0
      <3>1. endless \/ (Pending = {} /\ ~ttl)
        BY <1>1, <2>1 DEF OcrIInv, EndIsNear
      <3>2. endless \/ Pending' = {c}
        BY <1>1, <1>3, <2>1, <3>1 DEF Pending, OcrTypes
      <3> QED
        BY <1>3, <3>1, <3>2 DEF EndIsNear, Incr
    <2>2. CASE count # 0
      <3>1. Pending' = Pending
        BY <1>1, <1>3, <2>2 DEF Pending, OcrTypes
      <3>2. count > 0
        BY <1>1, <2>2 DEF OcrTypes
      <3>3. EndIsNear
        BY DEF OcrIInv
      <3> QED
        BY <1>3, <3>1, <3>2, <3>3 DEF EndIsNear, Incr
    <2> QED
      BY <2>1, <2>2
  <1>5. PlacesAreTaken'
    <2>1. PlacesAreTaken /\ admitted' = admitted /\ beyond' = beyond
      BY DEF OcrIInv, Incr
    <2>2. CASE Refused(count + 1)
      <3>1. Passing' \subseteq Passing
        BY <1>1, <1>2, <1>3, <2>2 DEF Passing, OcrTypes
      <3> QED
        BY <1>1, <1>2, <1>3, <2>1, <3>1, FewerPass DEF OcrTypes
    <2>3. CASE ~Refused(count + 1)
      <3>1. Passing' = Passing \cup {c}
        BY <1>1, <1>2, <1>3, <2>3 DEF Passing, OcrTypes
      <3>2. Cardinality(Passing') = Cardinality(Passing) + 1 /\ Cardinality(Passing) \in Nat
        BY <1>1, <1>3, <3>1, PassingIsFinite, FS_AddElement
      <3>3. count + 1 <= MaxOcr
        BY <1>1, <2>3, OcrAssumption DEF Refused, OcrTypes
      <3> QED
        BY <1>1, <1>3, <2>1, <3>2, <3>3, OcrAssumption DEF PlacesAreTaken, OcrTypes
    <2> QED
      BY <2>2, <2>3
  <1> QED
    BY <1>2, <1>4, <1>5 DEF OcrIInv

LEMMA ExpireKeeps ==
  ASSUME OcrIInv, NEW c \in OcrCalls, Expire(c)
  PROVE  OcrIInv'
  <1>1. OcrTypes /\ c \in Pending
    BY DEF OcrIInv, Expire, Pending
  <1>2. OcrTypes'
    BY <1>1 DEF Expire, OcrTypes
  <1>3. Pending' = Pending \ {c}
    BY <1>1 DEF Pending, Expire, OcrTypes
  <1>4. EndIsNear'
    <2>1. CASE endless
      BY <2>1 DEF EndIsNear, Expire
    <2>2. CASE ~endless
      <3>1. count > 0 /\ Pending = {c}
        BY <1>1, <2>2 DEF OcrIInv, EndIsNear, OcrTypes
      <3>2. ttl' /\ count' = count /\ Pending' = {}
        BY <1>3, <3>1 DEF Expire
      <3> QED
        BY <1>1, <3>1, <3>2 DEF EndIsNear, OcrTypes
    <2> QED
      BY <2>1, <2>2
  <1>5. Passing' = Passing
    BY DEF Passing, Expire, Refused
  <1>6. PlacesAreTaken'
    BY <1>5 DEF OcrIInv, PlacesAreTaken, Expire
  <1> QED
    BY <1>2, <1>4, <1>6 DEF OcrIInv

\* A request that leaves, answered or not: the others stay as they are.
LEMMA LeavingKeepsOthers ==
  ASSUME OcrTypes, NEW c \in OcrCalls, ocr' = [ocr EXCEPT ![c] = 0],
         timed' = timed, fresh' = fresh
  PROVE  Pending' = Pending \ {c} /\ Passing' = Passing \ {c}
  BY DEF OcrTypes, Pending, Passing, Refused

LEMMA DecideKeeps ==
  ASSUME OcrIInv, NEW c \in OcrCalls, Decide(c)
  PROVE  OcrIInv'
  <1>1. OcrTypes /\ PlacesAreTaken /\ EndIsNear
    BY DEF OcrIInv
  <1>2. OcrTypes'
    BY <1>1 DEF Decide, OcrTypes
  <1>3. Pending' = Pending \ {c} /\ Passing' = Passing \ {c}
    BY <1>1, LeavingKeepsOthers DEF Decide
  <1>4. Pending' = Pending
    BY <1>3 DEF Decide, Pending
  <1>5. EndIsNear'
    BY <1>1, <1>4 DEF EndIsNear, Decide
  <1>6. CASE c \in Passing
    <2>1. admitted' = admitted + 1 /\ count' = count /\ beyond' = beyond
      BY <1>6 DEF Decide, Passing
    <2>2. Cardinality(Passing') = Cardinality(Passing) - 1 /\ Cardinality(Passing) \in Nat
      BY <1>1, <1>3, <1>6, PassingIsFinite, FS_RemoveElement
    <2>3. PlacesAreTaken'
      BY <1>1, <2>1, <2>2, OcrAssumption DEF PlacesAreTaken, OcrTypes
    <2> QED
      BY <1>2, <1>5, <2>3 DEF OcrIInv
  <1>7. CASE c \notin Passing
    <2>1. admitted' = admitted /\ count' = count /\ beyond' = beyond
      BY <1>7 DEF Decide, Passing
    <2>2. PlacesAreTaken'
      BY <1>1, <1>2, <1>3, <2>1, FewerPass DEF OcrTypes
    <2> QED
      BY <1>2, <1>5, <2>2 DEF OcrIInv
  <1> QED
    BY <1>6, <1>7

LEMMA IncrFailsKeeps ==
  ASSUME OcrIInv, NEW c \in OcrCalls, IncrFails(c)
  PROVE  OcrIInv'
  <1>1. OcrTypes /\ PlacesAreTaken /\ EndIsNear
    BY DEF OcrIInv
  <1>2. OcrTypes'
    <2>1. endless' \in BOOLEAN
      BY <1>1 DEF IncrFails, OcrTypes
    <2>2. count' \in Nat
      BY <1>1 DEF IncrFails, OcrTypes
    <2> QED
      BY <1>1, <2>1, <2>2 DEF IncrFails, OcrTypes
  <1>3. Pending' = Pending /\ Passing' = Passing
    BY DEF IncrFails, Pending, Passing, Refused
  <1>4. EndIsNear'
    <2>1. CASE endless'
      BY <2>1 DEF EndIsNear
    <2>2. CASE ~endless'
      <3>1. /\ ~endless /\ ttl' = ttl /\ fresh' = fresh
            /\ count' = count \/ (count' = count + 1 /\ count # 0)
        <4>1. /\ ttl' = ttl /\ fresh' = fresh
              /\ \/ count' = count /\ endless' = endless
                 \/ count' = count + 1 /\ ~(endless \/ First(count + 1))
          BY <2>2 DEF IncrFails
        <4>2. ~endless
          BY <2>2, <4>1
        <4>3. ~First(count + 1) => count # 0
          BY DEF First
        <4> QED
          BY <4>1, <4>2, <4>3
      <3> QED
        BY <1>1, <1>3, <3>1 DEF EndIsNear, OcrTypes
    <2> QED
      BY <2>1, <2>2
  <1>5. PlacesAreTaken'
    <2>1. count' >= count /\ admitted' = admitted + 1 /\ beyond' = beyond + 1
      BY <1>1 DEF IncrFails, OcrTypes
    <2> QED
      BY <1>1, <1>2, <1>3, <2>1, FewerPass
  <1> QED
    BY <1>2, <1>4, <1>5 DEF OcrIInv

\* A request that leaves before it was decided on: only its place is free.
LEMMA LeavesKeeps ==
  ASSUME OcrTypes, EndIsNear, NEW c \in OcrCalls, Leaves(c)
  PROVE  /\ Pending' = Pending \ {c} /\ Passing' = Passing \ {c}
         /\ EndIsNear'
  <1>1. Pending' = Pending \ {c} /\ Passing' = Passing \ {c}
    BY LeavingKeepsOthers DEF Leaves
  <1>2. EndIsNear'
    <2>1. CASE endless'
      BY <2>1 DEF EndIsNear
    <2>2. CASE ~endless'
      <3>1. ~endless /\ c \notin fresh \ timed
        BY <2>2 DEF Leaves
      <3>2. c \notin Pending
        BY <3>1 DEF EndIsNear, Pending, OcrTypes
      <3>3. Pending' = Pending
        BY <1>1, <3>2
      <3> QED
        BY <3>1, <3>3 DEF EndIsNear, Leaves
    <2> QED
      BY <2>1, <2>2
  <1> QED
    BY <1>1, <1>2

LEMMA ProcessStopsKeeps ==
  ASSUME OcrIInv, NEW c \in OcrCalls, ProcessStops(c)
  PROVE  OcrIInv'
  <1>1. OcrTypes /\ PlacesAreTaken /\ EndIsNear /\ Leaves(c)
    BY DEF OcrIInv, ProcessStops
  <1>2. OcrTypes'
    BY <1>1 DEF ProcessStops, Leaves, OcrTypes
  <1>3. Passing' = Passing \ {c} /\ EndIsNear'
    BY <1>1, LeavesKeeps
  <1>4. PlacesAreTaken'
    BY <1>1, <1>2, <1>3, FewerPass DEF ProcessStops, Leaves, OcrTypes
  <1> QED
    BY <1>2, <1>3, <1>4 DEF OcrIInv

\* The place of a request within the limit is taken; one that is beyond the limit,
\* or of an earlier window, takes none.
LEMMA CallFailsKeeps ==
  ASSUME OcrIInv, NEW c \in OcrCalls, CallFails(c)
  PROVE  OcrIInv'
  <1>1. OcrTypes /\ PlacesAreTaken /\ EndIsNear /\ Leaves(c)
    BY DEF OcrIInv, CallFails
  <1>2. OcrTypes'
    BY <1>1 DEF CallFails, Leaves, OcrTypes
  <1>3. Passing' = Passing \ {c} /\ EndIsNear'
    BY <1>1, LeavesKeeps
  <1>4. PlacesAreTaken'
    <2>1. CASE c \in Passing
      <3>1. admitted' = admitted + 1 /\ count' = count /\ beyond' = beyond
        BY <2>1 DEF CallFails, Leaves, Passing
      <3>2. Cardinality(Passing') = Cardinality(Passing) - 1 /\ Cardinality(Passing) \in Nat
        BY <1>1, <1>3, <2>1, PassingIsFinite, FS_RemoveElement
      <3> QED
        BY <1>1, <3>1, <3>2, OcrAssumption DEF PlacesAreTaken, OcrTypes
    <2>2. CASE c \notin Passing
      <3>1. /\ count' = count
            /\ \/ admitted' = admitted /\ beyond' = beyond
               \/ admitted' = admitted + 1 /\ beyond' = beyond + 1
        BY <2>2 DEF CallFails, Leaves, Passing
      <3> QED
        BY <1>1, <1>2, <1>3, <3>1, FewerPass DEF OcrTypes
    <2> QED
      BY <2>1, <2>2
  <1> QED
    BY <1>2, <1>3, <1>4 DEF OcrIInv

LEMMA WindowEndsKeeps ==
  ASSUME OcrIInv, WindowEnds
  PROVE  OcrIInv'
  <1>1. OcrTypes'
    BY DEF OcrIInv, WindowEnds, OcrTypes
  <1>2. Pending' = Pending /\ Passing' = {}
    BY DEF WindowEnds, Pending, Passing
  <1>3. EndIsNear'
    BY <1>2 DEF OcrIInv, EndIsNear, WindowEnds
  <1>4. PlacesAreTaken'
    BY <1>2, FS_EmptySet, OcrAssumption DEF PlacesAreTaken, WindowEnds
  <1> QED
    BY <1>1, <1>3, <1>4 DEF OcrIInv

LEMMA OcrNextIInv ==
  ASSUME OcrIInv, [OcrNext]_ocrVars
  PROVE  OcrIInv'
  <1>1. CASE \E c \in OcrCalls :
               Incr(c) \/ Expire(c) \/ Decide(c) \/ IncrFails(c) \/ CallFails(c) \/ ProcessStops(c)
    BY <1>1, IncrKeeps, ExpireKeeps, DecideKeeps, IncrFailsKeeps, CallFailsKeeps, ProcessStopsKeeps
  <1>2. CASE WindowEnds
    BY <1>2, WindowEndsKeeps
  <1>3. CASE UNCHANGED ocrVars
    BY <1>3 DEF ocrVars, OcrIInv, OcrTypes, EndIsNear, PlacesAreTaken, Pending, Passing, Refused
  <1> QED
    BY <1>1, <1>2, <1>3 DEF OcrNext

\* For every limit and any finite number of requests at a time, however they
\* interleave and whichever calls to Redis fail: what a window lets through beyond
\* its limit is what a failing Redis let through, and no more.
THEOREM EveryLimitEnds == OcrSpec => []LimitEnds
  <1>1. OcrInit => OcrIInv
    BY OcrInitIInv
  <1>2. OcrIInv /\ [OcrNext]_ocrVars => OcrIInv'
    BY OcrNextIInv
  <1>3. OcrIInv => LimitEnds
    <2> SUFFICES ASSUME OcrIInv PROVE LimitEnds
      OBVIOUS
    <2>1. count > 0 => ttl \/ endless \/ \E c \in OcrCalls : ocr[c] # 0 /\ c \notin timed
      BY DEF OcrIInv, EndIsNear, Pending
    <2>2. Cardinality(Passing) \in Nat
      BY PassingIsFinite DEF OcrIInv
    <2>3. admitted <= MaxOcr + beyond
      BY <2>2, OcrAssumption DEF OcrIInv, PlacesAreTaken, OcrTypes
    <2> QED
      BY <2>1, <2>3 DEF LimitEnds
  <1> QED
    BY <1>1, <1>2, <1>3, PTL DEF OcrSpec

\* The number of requests counted stays within its bound.
LEMMA OcrTypesHold == OcrSpec => []OcrTypeOK
<1>1. OcrInit => OcrTypeOK
  <2>1. 0 \in 0..MaxCounted /\ 0 \in Nat
    BY OcrAssumption
  <2> QED
    BY <2>1 DEF OcrInit, OcrTypeOK
<1>2. ASSUME OcrTypeOK, [OcrNext]_ocrVars PROVE OcrTypeOK'
  <2>1. ASSUME NEW c \in OcrCalls, Incr(c) PROVE OcrTypeOK'
    <3>1. count + 1 \in 0..MaxCounted
      BY <1>2, <2>1, OcrAssumption DEF OcrTypeOK, Incr
    <3> QED
      BY <1>2, <2>1, <3>1 DEF OcrTypeOK, Incr
  <2>2. ASSUME NEW c \in OcrCalls, Expire(c) PROVE OcrTypeOK'
    BY <1>2, <2>2 DEF OcrTypeOK, Expire
  <2>3. ASSUME NEW c \in OcrCalls, Decide(c) PROVE OcrTypeOK'
    BY <1>2, <2>3, OcrAssumption DEF OcrTypeOK, Decide
  <2>4. ASSUME NEW c \in OcrCalls, CallFails(c) \/ ProcessStops(c) PROVE OcrTypeOK'
    <3>1. endless' \in BOOLEAN
      BY <1>2, <2>4 DEF OcrTypeOK, CallFails, ProcessStops, Leaves
    <3> QED
      BY <1>2, <2>4, <3>1, OcrAssumption DEF OcrTypeOK, CallFails, ProcessStops, Leaves
  <2>7. ASSUME NEW c \in OcrCalls, IncrFails(c) PROVE OcrTypeOK'
    <3>1. endless' \in BOOLEAN
      BY <1>2, <2>7 DEF OcrTypeOK, IncrFails
    <3>2. count' \in 0..MaxCounted /\ admitted' \in Nat /\ beyond' \in Nat
      BY <1>2, <2>7, OcrAssumption DEF OcrTypeOK, IncrFails
    <3> QED
      BY <1>2, <2>7, <3>1, <3>2 DEF OcrTypeOK, IncrFails
  <2>5. CASE WindowEnds
    <3>1. 0 \in 0..MaxCounted /\ 0 \in Nat
      BY OcrAssumption
    <3> QED
      BY <1>2, <2>5, <3>1 DEF OcrTypeOK, WindowEnds
  <2>6. CASE UNCHANGED ocrVars
    BY <1>2, <2>6 DEF OcrTypeOK, ocrVars
  <2> QED
    BY <1>2, <2>1, <2>2, <2>3, <2>4, <2>5, <2>6, <2>7 DEF OcrNext
<1> QED
  BY <1>1, <1>2, PTL DEF OcrSpec

-----------------------------------------------------------------------------
(* The parts together, as MCMessages explores them.                        *)

\* There is a post to start from.
LEMMA SomethingIsPosted == NewPost # {}
<1>1. PICK t \in Titles, d \in Descriptions, g \in Tags, p \in Places, c \in Categories : TRUE
  BY MatchingAssumption
<1>2. [title |-> t, description |-> d, tags |-> g, location |-> p, category |-> c,
       detectedType |-> NoType, images |-> TRUE] \in NewPost
  BY DEF NewPost
<1> QED
  BY <1>2

\* Each part starts as it does alone, and moves as it does alone or stays.
LEMMA MessagesHasNotices == MessagesSpec => NoticesSpec
<1>1. MessagesInit => (\E e \in NoticeEvents : NoticesInitWith(e))
  BY DEF MessagesInit
<1>2. [MessagesNext]_messagesVars => [NoticesNext]_noticeVars
  BY DEF MessagesNext, messagesVars
<1> QED
  BY <1>1, <1>2, PTL DEF MessagesSpec, NoticesSpec

LEMMA MessagesHasChat == MessagesSpec => ChatSpec
<1>1. MessagesInit => ChatInit
  BY DEF MessagesInit
<1>2. [MessagesNext]_messagesVars => [ChatNext]_chatVars
  BY DEF MessagesNext, messagesVars
<1> QED
  BY <1>1, <1>2, PTL DEF MessagesSpec, ChatSpec

LEMMA MessagesHasLostFound == MessagesSpec => LostFoundSpec
<1>1. MessagesInit => (\E images \in 0..MaxImages, tagged \in BOOLEAN, consent \in BOOLEAN :
                          LostFoundInitWith(images, tagged, consent))
  <2> SUFFICES ASSUME MessagesInit PROVE (\E images \in 0..MaxImages, tagged \in BOOLEAN, consent \in BOOLEAN :
      LostFoundInitWith(images, tagged, consent))
    OBVIOUS
  <2>1. PICK images \in {0, 1}, tagged \in BOOLEAN, consent \in BOOLEAN : LostFoundInitWith(images, tagged, consent)
    BY DEF MessagesInit
  <2>2. images \in 0..MaxImages
    BY LostFoundAssumption, MessagesAssumption
  <2> QED
    BY <2>1, <2>2
<1>2. [MessagesNext]_messagesVars => [LostFoundNext]_lostFoundVars
  BY DEF MessagesNext, messagesVars
<1> QED
  BY <1>1, <1>2, PTL DEF MessagesSpec, LostFoundSpec

LEMMA MessagesHasOcr == MessagesSpec => OcrSpec
<1>1. MessagesInit => OcrInit
  BY DEF MessagesInit
<1>2. [MessagesNext]_messagesVars => [OcrNext]_ocrVars
  BY DEF MessagesNext, messagesVars
<1> QED
  BY <1>1, <1>2, PTL DEF MessagesSpec, OcrSpec

LEMMA MessagesHasBell == MessagesSpec => BellSpec
<1>1. MessagesInit => BellInit
  BY DEF MessagesInit
<1>2. [MessagesNext]_messagesVars => [BellNext]_bellVars
  BY DEF MessagesNext, messagesVars
<1> QED
  BY <1>1, <1>2, PTL DEF MessagesSpec, BellSpec

LEMMA MessagesHasAssistant == MessagesSpec => AssistantSpec
<1>1. MessagesInit => AssistantInit
  BY DEF MessagesInit
<1>2. [MessagesNext]_messagesVars => [AssistantNext]_assistantVars
  BY DEF MessagesNext, messagesVars
<1> QED
  BY <1>1, <1>2, PTL DEF MessagesSpec, AssistantSpec

LEMMA MessagesHasBrowse == MessagesSpec => BrowseSpec
<1>1. MessagesInit => BrowseInit
  BY DEF MessagesInit
<1>2. [MessagesNext]_messagesVars => [BrowseNext]_browseVars
  BY DEF MessagesNext, messagesVars
<1> QED
  BY <1>1, <1>2, PTL DEF MessagesSpec, BrowseSpec

LEMMA MessagesHasMatching == MessagesSpec => MatchingSpec
<1>1. MessagesInit => MatchingInitWith(NewPost)
  <2> SUFFICES ASSUME MessagesInit PROVE MatchingInitWith(NewPost)
    OBVIOUS
  <2>1. PICK some \in NewPost : some = CHOOSE p \in NewPost : TRUE
    BY SomethingIsPosted
  <2>2. PICK found \in SUBSET NewPost : MatchingInitWith(found)
    BY <2>1 DEF MessagesInit
  <2> QED
    BY <2>2 DEF MatchingInitWith
<1>2. [MessagesNext]_messagesVars => [MatchingNext]_matchingVars
  BY DEF MessagesNext, messagesVars
<1> QED
  BY <1>1, <1>2, PTL DEF MessagesSpec, MatchingSpec

LEMMA MessagesHasFavourites == MessagesSpec => FavouritesSpec
<1>1. MessagesInit => FavouritesInit
  BY DEF MessagesInit
<1>2. [MessagesNext]_messagesVars => [FavouritesNext]_favouriteVars
  BY DEF MessagesNext, messagesVars
<1> QED
  BY <1>1, <1>2, PTL DEF MessagesSpec, FavouritesSpec

PartsSpec ==
  /\ NoticesSpec /\ ChatSpec /\ LostFoundSpec /\ OcrSpec /\ BellSpec
  /\ AssistantSpec /\ BrowseSpec /\ MatchingSpec /\ FavouritesSpec

\* A behaviour of the parts together is one of each part.
LEMMA MessagesHasParts == MessagesSpec => PartsSpec
  BY MessagesHasNotices, MessagesHasChat, MessagesHasLostFound, MessagesHasOcr, MessagesHasBell,
     MessagesHasAssistant, MessagesHasBrowse, MessagesHasMatching, MessagesHasFavourites DEF PartsSpec

\* The types of the notices and of a lost or found item are conjuncts of their invariants.
LEMMA NoticesTypesHold == NoticesSpec => []NoticesTypeOK
<1>1. NoticesIInv => NoticesTypeOK
  BY DEF NoticesIInv, NoticesPlaced
<1> QED
  BY <1>1, NoticesInvariant, PTL

LEMMA LostFoundTypesHold == LostFoundSpec => []LostFoundTypeOK
<1>1. LostFoundIInv => LostFoundTypeOK
  BY DEF LostFoundIInv
<1> QED
  BY <1>1, LostFoundIsInvariant, PTL

\* Each part of MCMessages is of its types in every reachable state, for every value of
\* the constants: the counts of calls, messages, photos and queries stay within their
\* bounds, and what is under way refers to what exists.
THEOREM MessagesTypesHold == MessagesSpec => []MessagesTypeOK
<1>1. MessagesSpec => PartsSpec
  BY MessagesHasParts
<1>2. MessagesTypeOK <=> /\ NoticesTypeOK /\ ChatTypeOK /\ LostFoundTypeOK /\ OcrTypeOK /\ BellTypeOK
                         /\ AssistantTypeOK /\ BrowseTypeOK /\ MatchingTypeOK /\ FavouritesTypeOK
  BY DEF MessagesTypeOK
<1> QED
  BY <1>1, <1>2, NoticesTypesHold, ChatTypesHold, LostFoundTypesHold, OcrTypesHold, BellTypesHold,
     AssistantTypesHold, BrowseTypesHold, MatchingTypesHold, FavouritesTypesHold, PTL DEF PartsSpec

\* The specification that the run explores keeps what each of its parts keeps: the
\* invariants of the parts hold of them together.
THEOREM MessagesKeepTheirParts ==
  MessagesSpec => [](/\ NobodyIsForgotten /\ WindowShowsItsConversation /\ ApprovalStands /\ ClaimantsHear
                     /\ AnalysisSettles /\ LimitEnds /\ ListsAreHonest /\ PhotosEndUpInOnePost
                     /\ CopiesAgree /\ FindingIsMutual /\ NoMatchIsMissed /\ ButtonShowsTheRecord)
<1>1. MessagesSpec => PartsSpec
  BY MessagesHasParts
<1> QED
  BY <1>1, EventsReachPeople, TheWindowIsTrue, ApprovalsStand, ClaimantsAreTold, AnalysesSettle, EveryLimitEnds,
     ListsTellTheTruth, PhotosArePosted, BrowseCopiesAgree, MatchesAreMutual, MatchesArePublished,
     TheButtonIsTrue, PTL DEF PartsSpec
===============================================================================
