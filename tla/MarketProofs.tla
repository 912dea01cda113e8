----------------------------- MODULE MarketProofs -----------------------------
(* What holds of offers, of the page of an order, of settled reports, of the*)
(* catalogue's copies in Redis and of reviews, whatever the number of buyers,*)
(* pages, writers, readers and requests at a time.                       *)
EXTENDS MCMarket, SessionProofs, OrderDocumentProofs, SequenceTheorems

-----------------------------------------------------------------------------
(* Offers.                                                                 *)

OffersSpec == OffersInit /\ [][OffersNext]_offerVars

Offer == [buyer : Buyers, status : OfferStatuses, overdue : BOOLEAN]

\* A request, between the statements of its handler.
OfferRequest ==
  [op : {"create", "insert"}, buyer : Buyers]
    \cup [op : {"save"}, offer : DOMAIN offers, status : OfferStatuses \ {"PENDING"}]
    \cup [op : {"reject"}, offer : DOMAIN offers]

OfferTypes ==
  /\ offers \in Seq(Offer) /\ decided \in Seq(OfferStatuses) /\ Len(decided) = Len(offers)
  /\ offering \in [OfferWorkers -> OfferRequest \cup {NoRequest}]
  /\ twins \subseteq Buyers

Engaged(w, op) == offering[w] # NoRequest /\ offering[w].op = op

\* An offer some request is about to save is as undecided as when it was read,
\* unless somebody decided it meanwhile, who then crossed it.
HeldIsPending ==
  \A w \in OfferWorkers : Engaged(w, "save") =>
    offering[w].offer \in crossed \/ offers[offering[w].offer].status = "PENDING"

\* A creation that withdrew the older offers finds none when it stores its own.
NoneWhileInserting ==
  \A w \in OfferWorkers : Engaged(w, "insert") /\ offering[w].buyer \notin twins =>
    Older(offering[w].buyer) = {}

OffersIInv ==
  OfferTypes /\ HeldIsPending /\ DecisionsStand /\ NoneWhileInserting /\ OneOfferPerBuyer

LEMMA OffersInitIInv == OffersInit => OffersIInv
  <1> SUFFICES ASSUME OffersInit PROVE OffersIInv
    OBVIOUS
  <1>1. offers = <<>> /\ decided = <<>> /\ DOMAIN offers = {} /\ Len(decided) = Len(offers)
    BY DEF OffersInit
  <1>2. OfferTypes
    BY <1>1 DEF OffersInit, OfferTypes
  <1>3. HeldIsPending /\ NoneWhileInserting
    BY DEF OffersInit, HeldIsPending, NoneWhileInserting, Engaged
  <1>4. DecisionsStand /\ OneOfferPerBuyer
    BY <1>1 DEF DecisionsStand, OneOfferPerBuyer
  <1> QED
    BY <1>2, <1>3, <1>4 DEF OffersIInv

\* A function on 1..n is a sequence of length n.
LEMMA FunctionIsSeq ==
  ASSUME NEW S, NEW n \in Nat, NEW f \in [1..n -> S]
  PROVE  f \in Seq(S) /\ Len(f) = n
  <1>1. f \in Seq(S)
    BY SeqDef
  <1>2. DOMAIN f = 1..Len(f) /\ Len(f) \in Nat /\ DOMAIN f = 1..n
    BY <1>1, LenProperties
  <1> QED
    BY <1>1, <1>2

\* updateMany and save keep the offers and their number.
LEMMA StoredFacts ==
  ASSUME OfferTypes, NEW w \in OfferWorkers, NEW S \in SUBSET DOMAIN offers,
         NEW status \in OfferStatuses, Stored(w, S, status)
  PROVE  /\ offers' \in Seq(Offer) /\ decided' \in Seq(OfferStatuses)
         /\ Len(offers') = Len(offers) /\ Len(decided') = Len(offers')
         /\ DOMAIN offers' = DOMAIN offers
         /\ \A i \in DOMAIN offers :
              /\ offers'[i].buyer = offers[i].buyer
              /\ offers'[i].status = IF i \in S THEN status ELSE offers[i].status
              /\ decided'[i] = IF i \in S /\ decided[i] = "PENDING" THEN status ELSE decided[i]
  <1>1. /\ Len(offers) \in Nat /\ DOMAIN offers = 1..Len(offers)
        /\ \A i \in DOMAIN offers : offers[i] \in Offer /\ decided[i] \in OfferStatuses
    BY LenProperties DEF OfferTypes
  <1>2. offers' \in [1..Len(offers) -> Offer] /\ decided' \in [1..Len(offers) -> OfferStatuses]
    BY <1>1 DEF Stored, Offer
  <1>3. \A i \in DOMAIN offers :
              /\ offers'[i].buyer = offers[i].buyer
              /\ offers'[i].status = IF i \in S THEN status ELSE offers[i].status
              /\ decided'[i] = IF i \in S /\ decided[i] = "PENDING" THEN status ELSE decided[i]
    BY <1>1 DEF Stored, Offer
  <1> QED
    BY <1>1, <1>2, <1>3, FunctionIsSeq

\* What a request stores as decided is decided.
LEMMA StoredKeepsDecisions ==
  ASSUME OffersIInv, NEW w \in OfferWorkers, NEW S \in SUBSET DOMAIN offers,
         NEW status \in OfferStatuses, Stored(w, S, status),
         \A i \in S : i \in crossed \/ offers[i].status = "PENDING"
  PROVE  DecisionsStand'
  <1>1. \A i \in DOMAIN offers \ crossed' : i \notin crossed
    BY DEF Stored
  <1> QED
    BY <1>1, StoredFacts DEF OffersIInv, DecisionsStand

\* Storing a decision takes no pending offer but the ones decided, makes none, and
\* crosses what other requests were about to save.
LEMMA StoredKeepsOthers ==
  ASSUME OffersIInv, NEW w \in OfferWorkers, NEW S \in SUBSET DOMAIN offers,
         NEW status \in OfferStatuses \ {"PENDING"}, Stored(w, S, status)
  PROVE  /\ \A v \in OfferWorkers \ {w} : Engaged(v, "save") =>
              offering[v].offer \in crossed' \/ offers'[offering[v].offer].status = "PENDING"
         /\ \A b \in Buyers : Older(b)' = Older(b) \ S
  <1>1. \A v \in OfferWorkers : Engaged(v, "save") => offering[v].offer \in DOMAIN offers
    BY DEF OffersIInv, OfferTypes, OfferRequest, Engaged
  <1>2. ASSUME NEW v \in OfferWorkers \ {w}, Engaged(v, "save"), offering[v].offer \notin crossed'
        PROVE  offers'[offering[v].offer].status = "PENDING"
    <2>1. offering[v].offer \notin S /\ offering[v].offer \notin crossed
      BY <1>1, <1>2 DEF Stored, Held, Engaged
    <2> QED
      BY <1>1, <1>2, <2>1, StoredFacts DEF OffersIInv, HeldIsPending
  <1>3. ASSUME NEW b \in Buyers PROVE Older(b)' = Older(b) \ S
    <2>1. /\ DOMAIN offers' = DOMAIN offers
          /\ \A i \in DOMAIN offers :
               /\ offers'[i].buyer = offers[i].buyer
               /\ offers'[i].status = IF i \in S THEN status ELSE offers[i].status
      BY StoredFacts DEF OffersIInv
    <2> QED
      BY <2>1 DEF Older
  <1> QED
    BY <1>2, <1>3

\* A request goes on.
LEMMA ThenFacts ==
  ASSUME OfferTypes, NEW w \in OfferWorkers, NEW r, Then(w, r)
  PROVE  offering'[w] = r /\ \A v \in OfferWorkers \ {w} : offering'[v] = offering[v]
  BY DEF OfferTypes, Then

LEMMA CreateOfferKeeps ==
  ASSUME OffersIInv, NEW w \in OfferWorkers, NEW b \in Buyers, CreateOffer(w, b)
  PROVE  OffersIInv'
  <1> DEFINE r == [op |-> "create", buyer |-> b]
  <1>1. /\ OfferTypes /\ offering' = [offering EXCEPT ![w] = r] /\ Then(w, r)
        /\ UNCHANGED <<offers, decided, crossed, twins>>
    BY DEF CreateOffer, Then, OffersIInv
  <1>2. OfferTypes'
    BY <1>1 DEF OfferTypes, OfferRequest
  <1>3. r.op = "create" /\ offering'[w] = r /\ \A v \in OfferWorkers \ {w} : offering'[v] = offering[v]
    BY <1>1, ThenFacts
  <1> HIDE DEF r
  <1>4. HeldIsPending' /\ NoneWhileInserting'
    BY <1>1, <1>3 DEF OffersIInv, HeldIsPending, NoneWhileInserting, Engaged, Older
  <1> QED
    BY <1>1, <1>2, <1>4 DEF OffersIInv, DecisionsStand, OneOfferPerBuyer

LEMMA WithdrawOlderKeeps ==
  ASSUME OffersIInv, NEW w \in OfferWorkers, WithdrawOlder(w)
  PROVE  OffersIInv'
  <1> DEFINE b == offering[w].buyer
             r == [op |-> "insert", buyer |-> b]
  <1>1. OfferTypes /\ Stored(w, Older(b), "WITHDRAWN") /\ Then(w, r) /\ twins' = twins \ {b}
    BY DEF WithdrawOlder, OffersIInv
  <1>2. b \in Buyers /\ "WITHDRAWN" \in OfferStatuses \ {"PENDING"} /\ Older(b) \in SUBSET DOMAIN offers
    BY <1>1 DEF WithdrawOlder, OfferTypes, OfferRequest, OfferStatuses, OfferOutcomes, Older
  <1>3. r.op = "insert" /\ r.buyer = b /\ r \in OfferRequest
    BY <1>2 DEF OfferRequest
  <1> HIDE DEF r, b
  <1>4. offering'[w] = r /\ \A v \in OfferWorkers \ {w} : offering'[v] = offering[v]
    BY <1>1, ThenFacts
  <1>5. DOMAIN offers' = DOMAIN offers /\ OfferTypes'
    BY <1>1, <1>2, <1>3, StoredFacts DEF Then, OfferTypes, OfferRequest
  <1>6. DecisionsStand'
    BY <1>1, <1>2, StoredKeepsDecisions DEF Older
  <1>7. HeldIsPending'
    BY <1>1, <1>2, <1>3, <1>4, StoredKeepsOthers DEF HeldIsPending, Engaged
  <1>8. \A c \in Buyers : Older(c)' = Older(c) \ Older(b)
    BY <1>1, <1>2, StoredKeepsOthers
  <1>9. NoneWhileInserting'
    <2> SUFFICES ASSUME NEW v \in OfferWorkers, Engaged(v, "insert")', NEW c \in Buyers \ twins',
                        c = offering'[v].buyer
                 PROVE  Older(c)' = {}
      BY <1>5 DEF NoneWhileInserting, OfferTypes, OfferRequest, Engaged
    <2>1. CASE c = b
      BY <1>8, <2>1
    <2>2. CASE c # b
      <3>1. v # w /\ Engaged(v, "insert") /\ c = offering[v].buyer /\ c \notin twins
        BY <1>1, <1>3, <1>4, <2>2 DEF Engaged
      <3>2. Older(c) = {}
        BY <3>1 DEF OffersIInv, NoneWhileInserting
      <3> QED
        BY <1>8, <3>2
    <2> QED
      BY <2>1, <2>2
  <1>10. OneOfferPerBuyer'
    <2> SUFFICES ASSUME NEW c \in Buyers \ twins', NEW i \in Older(c)', NEW j \in Older(c)'
                 PROVE  i = j
      BY DEF OneOfferPerBuyer, Older
    <2>1. i \in Older(c) /\ j \in Older(c) /\ c # b
      BY <1>8
    <2> QED
      BY <1>1, <2>1 DEF OffersIInv, OneOfferPerBuyer, Older
  <1> QED
    BY <1>5, <1>6, <1>7, <1>9, <1>10 DEF OffersIInv

\* The stored offer is the last one, and pending.
LEMMA InsertFacts ==
  ASSUME OfferTypes, NEW b \in Buyers,
         offers' = Append(offers, [buyer |-> b, status |-> "PENDING", overdue |-> FALSE]),
         decided' = Append(decided, "PENDING")
  PROVE  /\ offers' \in Seq(Offer) /\ decided' \in Seq(OfferStatuses)
         /\ Len(decided') = Len(offers')
         /\ DOMAIN offers' = DOMAIN offers \cup {Len(offers) + 1}
         /\ \A i \in DOMAIN offers : offers'[i] = offers[i] /\ decided'[i] = decided[i]
         /\ decided'[Len(offers) + 1] = "PENDING"
         /\ offers'[Len(offers) + 1] = [buyer |-> b, status |-> "PENDING", overdue |-> FALSE]
  <1>1. "PENDING" \in OfferStatuses
    BY DEF OfferStatuses
  <1>2. [buyer |-> b, status |-> "PENDING", overdue |-> FALSE] \in Offer
    BY <1>1 DEF Offer
  <1> QED
    BY <1>1, <1>2, LenProperties DEF OfferTypes

LEMMA InsertOfferKeeps ==
  ASSUME OffersIInv, NEW w \in OfferWorkers, InsertOffer(w)
  PROVE  OffersIInv'
  <1>0. PICK b \in Buyers, n \in Nat : b = offering[w].buyer /\ n = Len(offers) + 1
    BY LenProperties DEF InsertOffer, OffersIInv, OfferTypes, OfferRequest
  <1> DEFINE twin == \E v \in OfferWorkers \ {w} : Engaged(v, "insert") /\ offering[v].buyer = b
  <1>1. /\ OfferTypes /\ Then(w, NoRequest) /\ crossed' = crossed
        /\ offers' = Append(offers, [buyer |-> b, status |-> "PENDING", overdue |-> FALSE])
        /\ decided' = Append(decided, "PENDING")
        /\ twins' = IF twin THEN twins \cup {b} ELSE twins
    BY <1>0 DEF InsertOffer, OffersIInv, Engaged
  <1>2. Engaged(w, "insert")
    BY DEF InsertOffer, Engaged
  <1>3. offering'[w] = NoRequest /\ \A v \in OfferWorkers \ {w} : offering'[v] = offering[v]
    BY <1>1, ThenFacts
  <1> HIDE DEF twin
  <1>4. /\ offers' \in Seq(Offer) /\ decided' \in Seq(OfferStatuses)
        /\ Len(decided') = Len(offers')
        /\ DOMAIN offers' = DOMAIN offers \cup {n}
        /\ \A i \in DOMAIN offers : offers'[i] = offers[i] /\ decided'[i] = decided[i]
        /\ decided'[n] = "PENDING" /\ offers'[n].status = "PENDING" /\ offers'[n].buyer = b
    <2>1. n = Len(offers) + 1
      BY <1>0
    <2>2. offers'[n] = [buyer |-> b, status |-> "PENDING", overdue |-> FALSE]
      BY <1>1, <2>1, InsertFacts
    <2>3. /\ offers' \in Seq(Offer) /\ decided' \in Seq(OfferStatuses)
          /\ Len(decided') = Len(offers') /\ DOMAIN offers' = DOMAIN offers \cup {n}
          /\ \A i \in DOMAIN offers : offers'[i] = offers[i] /\ decided'[i] = decided[i]
          /\ decided'[n] = "PENDING"
      BY <1>1, <2>1, InsertFacts
    <2> QED
      BY <2>2, <2>3
  <1>5. OfferTypes'
    BY <1>1, <1>2, <1>4 DEF OfferTypes, OfferRequest, Then
  <1>6. HeldIsPending'
    <2>1. \A v \in OfferWorkers : Engaged(v, "save") => offering[v].offer \in DOMAIN offers
      BY <1>1 DEF OfferTypes, OfferRequest, Engaged
    <2> QED
      BY <1>1, <1>3, <1>4, <2>1 DEF OffersIInv, HeldIsPending, Engaged
  <1>7. DecisionsStand'
    BY <1>1, <1>4 DEF OffersIInv, DecisionsStand
  <1>8. ASSUME NEW c \in Buyers \ {b} PROVE Older(c)' = Older(c)
    BY <1>4, <1>8 DEF Older
  <1>9. ASSUME ~twin PROVE b \in twins \/ Older(b)' = {n}
    <2>1. b \in twins \/ Older(b) = {}
      BY <1>0, <1>2 DEF OffersIInv, NoneWhileInserting
    <2>2. Older(b)' = Older(b) \cup {n}
      BY <1>4 DEF Older
    <2> QED
      BY <2>1, <2>2
  <1>10. NoneWhileInserting'
    <2> SUFFICES ASSUME NEW v \in OfferWorkers, Engaged(v, "insert")', NEW c \in Buyers \ twins',
                        c = offering'[v].buyer
                 PROVE  Older(c)' = {}
      BY <1>5 DEF NoneWhileInserting, OfferTypes, OfferRequest, Engaged
    <2>1. v # w /\ Engaged(v, "insert") /\ c = offering[v].buyer
      BY <1>3 DEF Engaged
    <2>2. c # b /\ c \notin twins
      BY <1>1, <2>1 DEF twin
    <2>3. Older(c) = {}
      BY <2>1, <2>2 DEF OffersIInv, NoneWhileInserting
    <2> QED
      BY <1>8, <2>2, <2>3
  <1>11. OneOfferPerBuyer'
    <2> SUFFICES ASSUME NEW c \in Buyers \ twins', NEW i \in Older(c)', NEW j \in Older(c)'
                 PROVE  i = j
      BY DEF OneOfferPerBuyer, Older
    <2>1. CASE c = b
      BY <1>1, <1>9, <2>1
    <2>2. CASE c # b
      <3>1. c \notin twins /\ i \in Older(c) /\ j \in Older(c)
        BY <1>1, <1>8, <2>2
      <3> QED
        BY <3>1 DEF OffersIInv, OneOfferPerBuyer, Older
    <2> QED
      BY <2>1, <2>2
  <1> QED
    BY <1>5, <1>6, <1>7, <1>10, <1>11 DEF OffersIInv

LEMMA LoadOfferKeeps ==
  ASSUME OffersIInv, NEW w \in OfferWorkers, NEW i \in DOMAIN offers,
         NEW a \in DOMAIN OfferOutcomes, LoadOffer(w, i, a)
  PROVE  OffersIInv'
  <1> DEFINE r == [op |-> "save", offer |-> i, status |-> Becomes(a, i)]
  <1>1. /\ OfferTypes /\ Then(w, r) /\ UNCHANGED <<offers, decided, crossed, twins>>
        /\ offers[i].status = "PENDING"
    BY DEF LoadOffer, OffersIInv
  <1>2. Becomes(a, i) \in OfferStatuses \ {"PENDING"}
    BY DEF Becomes, OfferStatuses, OfferOutcomes
  <1>3. r \in OfferRequest /\ r.op = "save" /\ r.offer = i
    BY <1>2 DEF OfferRequest
  <1> HIDE DEF r
  <1>4. offering'[w] = r /\ \A v \in OfferWorkers \ {w} : offering'[v] = offering[v]
    BY <1>1, ThenFacts
  <1>5. OfferTypes'
    BY <1>1, <1>3 DEF OfferTypes, OfferRequest, Then
  <1>6. HeldIsPending' /\ NoneWhileInserting'
    BY <1>1, <1>3, <1>4 DEF OffersIInv, HeldIsPending, NoneWhileInserting, Engaged, Older
  <1> QED
    BY <1>1, <1>5, <1>6 DEF OffersIInv, DecisionsStand, OneOfferPerBuyer

\* A request that decides about pending offers, or about one it read as pending.
LEMMA DecidingKeeps ==
  ASSUME OffersIInv, NEW w \in OfferWorkers, NEW S \in SUBSET DOMAIN offers,
         NEW status \in OfferStatuses \ {"PENDING"}, Stored(w, S, status),
         \A i \in S : i \in crossed \/ offers[i].status = "PENDING",
         NEW r, Then(w, r), r = NoRequest \/ (r \in OfferRequest /\ r.op = "reject"),
         UNCHANGED twins
  PROVE  OffersIInv'
  <1>1. OfferTypes
    BY DEF OffersIInv
  <1>2. offering'[w] = r /\ \A v \in OfferWorkers \ {w} : offering'[v] = offering[v]
    BY <1>1, ThenFacts
  <1>3. OfferTypes'
    BY <1>1, StoredFacts DEF Then, OfferTypes, OfferRequest
  <1>4. DecisionsStand'
    BY StoredKeepsDecisions
  <1>5. HeldIsPending'
    <2> SUFFICES ASSUME NEW v \in OfferWorkers, Engaged(v, "save")'
                 PROVE  (offering[v].offer \in crossed \/ offers[offering[v].offer].status = "PENDING")'
      BY DEF HeldIsPending
    <2>1. v # w /\ Engaged(v, "save") /\ offering'[v] = offering[v]
      BY <1>2 DEF Engaged
    <2> QED
      BY <2>1, StoredKeepsOthers
  <1>6. \A c \in Buyers : Older(c)' = Older(c) \ S
    BY StoredKeepsOthers
  <1>7. NoneWhileInserting'
    <2> SUFFICES ASSUME NEW v \in OfferWorkers, Engaged(v, "insert")', NEW c \in Buyers \ twins',
                        c = offering'[v].buyer
                 PROVE  Older(c)' = {}
      BY <1>3 DEF NoneWhileInserting, OfferTypes, OfferRequest, Engaged
    <2>1. Engaged(v, "insert") /\ c = offering[v].buyer
      BY <1>2 DEF Engaged
    <2> QED
      BY <1>6, <2>1 DEF OffersIInv, NoneWhileInserting
  <1>8. OneOfferPerBuyer'
    <2> SUFFICES ASSUME NEW c \in Buyers \ twins', NEW i \in Older(c)', NEW j \in Older(c)'
                 PROVE  i = j
      BY DEF OneOfferPerBuyer, Older
    <2> QED
      BY <1>6 DEF OffersIInv, OneOfferPerBuyer, Older
  <1> QED
    BY <1>3, <1>4, <1>5, <1>7, <1>8 DEF OffersIInv

LEMMA SaveOfferKeeps ==
  ASSUME OffersIInv, NEW w \in OfferWorkers, SaveOffer(w)
  PROVE  OffersIInv'
  <1> DEFINE r == offering[w]
             next == IF r.status = "ACCEPTED" THEN [op |-> "reject", offer |-> r.offer] ELSE NoRequest
  <1>1. /\ OfferTypes /\ Engaged(w, "save") /\ UNCHANGED twins
        /\ Stored(w, {r.offer}, r.status) /\ Then(w, next)
    BY DEF SaveOffer, OffersIInv, Engaged
  <1>2. r.offer \in DOMAIN offers /\ r.status \in OfferStatuses \ {"PENDING"}
    BY <1>1 DEF OfferTypes, OfferRequest, Engaged
  <1>3. r.offer \in crossed \/ offers[r.offer].status = "PENDING"
    BY <1>1 DEF OffersIInv, HeldIsPending
  <1>4. next = NoRequest \/ (next \in OfferRequest /\ next.op = "reject")
    BY <1>2 DEF OfferRequest
  <1> HIDE DEF r, next
  <1> QED
    BY <1>1, <1>2, <1>3, <1>4, DecidingKeeps

LEMMA RejectOthersKeeps ==
  ASSUME OffersIInv, NEW w \in OfferWorkers, RejectOthers(w)
  PROVE  OffersIInv'
  <1> DEFINE S == Others(offering[w].offer)
  <1>1. Stored(w, S, "REJECTED") /\ Then(w, NoRequest) /\ UNCHANGED twins
    BY DEF RejectOthers
  <1>2. S \in SUBSET DOMAIN offers /\ \A i \in S : offers[i].status = "PENDING"
    BY DEF Others
  <1>3. "REJECTED" \in OfferStatuses \ {"PENDING"}
    BY DEF OfferStatuses, OfferOutcomes
  <1> HIDE DEF S
  <1> QED
    BY <1>1, <1>2, <1>3, DecidingKeeps

LEMMA OfferFailsKeeps ==
  ASSUME OffersIInv, NEW w \in OfferWorkers, OfferFails(w)
  PROVE  OffersIInv'
  <1>1. OfferTypes /\ Then(w, NoRequest) /\ UNCHANGED <<offers, decided, crossed, twins>>
    BY DEF OfferFails, OffersIInv
  <1>2. offering'[w] = NoRequest /\ \A v \in OfferWorkers \ {w} : offering'[v] = offering[v]
    BY <1>1, ThenFacts
  <1>3. OfferTypes'
    BY <1>1 DEF OfferTypes, OfferRequest, Then
  <1>4. HeldIsPending' /\ NoneWhileInserting'
    BY <1>1, <1>2 DEF OffersIInv, HeldIsPending, NoneWhileInserting, Engaged, Older
  <1> QED
    BY <1>1, <1>3, <1>4 DEF OffersIInv, DecisionsStand, OneOfferPerBuyer

LEMMA OfferOverdueKeeps ==
  ASSUME OffersIInv, NEW i \in DOMAIN offers, OfferOverdue(i)
  PROVE  OffersIInv'
  <1> DEFINE e == [offers[i] EXCEPT !.overdue = TRUE]
  <1>1. /\ OfferTypes /\ UNCHANGED <<offering, decided, crossed, twins>>
        /\ offers' = [offers EXCEPT ![i] = e]
    BY DEF OfferOverdue, OffersIInv
  <1>2. i \in 1..Len(offers) /\ DOMAIN offers = 1..Len(offers) /\ offers[i] \in Offer
    BY <1>1, LenProperties DEF OfferTypes
  <1>3. e \in Offer /\ e.status = offers[i].status /\ e.buyer = offers[i].buyer
    BY <1>2 DEF Offer
  <1> HIDE DEF e
  <1>4. /\ offers' \in Seq(Offer) /\ Len(offers') = Len(offers) /\ DOMAIN offers' = DOMAIN offers
        /\ \A j \in DOMAIN offers : /\ offers'[j].status = offers[j].status
                                    /\ offers'[j].buyer = offers[j].buyer
    BY <1>1, <1>2, <1>3, ExceptSeq, LenProperties DEF OfferTypes
  <1>5. OfferTypes'
    BY <1>1, <1>4 DEF OfferTypes, OfferRequest
  <1>6. \A c \in Buyers : Older(c)' = Older(c)
    BY <1>4 DEF Older
  <1>7. HeldIsPending'
    BY <1>1, <1>4 DEF OffersIInv, HeldIsPending, Engaged, OfferTypes, OfferRequest
  <1>8. NoneWhileInserting'
    BY <1>1, <1>6 DEF OffersIInv, NoneWhileInserting, Engaged, OfferTypes, OfferRequest
  <1>9. DecisionsStand' /\ OneOfferPerBuyer'
    BY <1>1, <1>4 DEF OffersIInv, DecisionsStand, OneOfferPerBuyer
  <1> QED
    BY <1>5, <1>7, <1>8, <1>9 DEF OffersIInv

LEMMA OffersNextIInv == OffersIInv /\ [OffersNext]_offerVars => OffersIInv'
  <1> SUFFICES ASSUME OffersIInv, [OffersNext]_offerVars PROVE OffersIInv'
    OBVIOUS
  <1>1. CASE UNCHANGED <<offers, offering, decided, crossed, twins>>
    BY <1>1 DEF OffersIInv, OfferTypes, OfferRequest, HeldIsPending, NoneWhileInserting, Engaged, Older,
                DecisionsStand, OneOfferPerBuyer
  <1>2. CASE \E i \in DOMAIN offers : OrderFromOffer(i)
    BY <1>1, <1>2 DEF OrderFromOffer
  <1>3. CASE ProductChanges \/ UNCHANGED offerVars
    BY <1>1, <1>3 DEF ProductChanges, offerVars
  <1>4. ASSUME NEW w \in OfferWorkers,
               \/ \E b \in Buyers : CreateOffer(w, b)
               \/ \E i \in DOMAIN offers, a \in DOMAIN OfferOutcomes : LoadOffer(w, i, a)
               \/ WithdrawOlder(w) \/ InsertOffer(w) \/ SaveOffer(w) \/ RejectOthers(w)
               \/ OfferFails(w)
        PROVE  OffersIInv'
    BY <1>4, CreateOfferKeeps, WithdrawOlderKeeps, InsertOfferKeeps, LoadOfferKeeps,
       SaveOfferKeeps, RejectOthersKeeps, OfferFailsKeeps
  <1> QED
    BY <1>2, <1>3, <1>4, OfferOverdueKeeps DEF OffersNext

LEMMA OffersInvariance == OffersSpec => []OffersIInv
  BY OffersInitIInv, OffersNextIInv, PTL DEF OffersSpec

\* For any buyers, offers and requests at a time: only an offer that was decided
\* while another request was about to save it may change its decision.
THEOREM DecisionsAreFinal == OffersSpec => []DecisionsStand
  <1>1. OffersIInv => DecisionsStand
    BY DEF OffersIInv
  <1> QED
    BY OffersInvariance, <1>1, PTL

\* Likewise a buyer has two pending offers only after two overlapping creations.
THEOREM BuyersBidOnce == OffersSpec => []OneOfferPerBuyer
  <1>1. OffersIInv => OneOfferPerBuyer
    BY DEF OffersIInv
  <1> QED
    BY OffersInvariance, <1>1, PTL

-----------------------------------------------------------------------------
(* The page of an order.                                                   *)

PageSpec == PageInit /\ [][PageNext]_pageVars

PageIInv ==
  /\ role \in {"BUYER", "SELLER", "ADMIN"}
  /\ orderRow \in Doc /\ Coherent(orderRow) /\ confirmed \in BOOLEAN

LEMMA PageStart == PageInit => PageIInv
  BY NewDocFacts, PageAssumption DEF PageInit, PageIInv

LEMMA HandledKeeps ==
  ASSUME PageIInv, NEW op \in RequestOps \cup SagaOps, Handled(op), role' = role
  PROVE  PageIInv'
<1> PICK d : d = orderRow
  OBVIOUS
<1> PICK e \in Saves(op, d) : e = orderRow'
  BY DEF Handled
<1>1. d \in Doc /\ Coherent(d)
  BY DEF PageIInv
<1>2. CASE op \in RequestOps
  BY <1>1, <1>2, RequestFacts DEF PageIInv, Handled, Follows
<1>3. CASE op = "markAwaitingSellerConfirmation"
  BY <1>1, <1>3, MarkAwaitingFacts DEF PageIInv, Handled
<1>4. CASE op = "cancelOrder"
  BY <1>1, <1>4, CancelOrderFacts DEF PageIInv, Handled, Follows
<1> QED
  BY <1>2, <1>3, <1>4 DEF SagaOps

LEMMA PageStep == PageIInv /\ [PageNext]_pageVars => PageIInv'
<1> SUFFICES ASSUME PageIInv, [PageNext]_pageVars PROVE PageIInv'
  OBVIOUS
<1>1. ASSUME UNCHANGED <<role, orderRow, confirmed>> PROVE PageIInv'
  BY <1>1 DEF PageIInv
<1>2. ASSUME NEW op \in OthersOps, OthersAct(op) PROVE PageIInv'
  BY <1>2, PageAssumption, HandledKeeps DEF OthersAct
<1>3. ASSUME NEW op \in Pressed, Click(op) \/ Accepted(op) \/ RequestFails(op) PROVE PageIInv'
  <2>1. op \in RequestOps
    BY PageAssumption DEF Buttons, RequestOps
  <2> QED
    BY <1>1, <1>3, <2>1, HandledKeeps DEF Click, Accepted, RequestFails
<1>4. CASE Fetch
  BY <1>1, <1>4 DEF Fetch
<1>5. ASSUME NEW f \in fetches,
             ReadOrder(f) \/ ShowOrder(f) \/ ReadPayment(f) \/ ShowPayment(f) \/ FetchFails(f)
      PROVE  PageIInv'
  BY <1>1, <1>5 DEF ReadOrder, ShowOrder, ReadPayment, ShowPayment, FetchFails
<1>6. CASE UNCHANGED pageVars
  BY <1>1, <1>6 DEF pageVars
<1> QED
  BY <1>2, <1>3, <1>4, <1>5, <1>6 DEF PageNext

\* What a page whose order is up to date reads of the row.
LEMMA OrderReads ==
  ASSUME shown = OrderView
  PROVE  /\ shown.status = orderRow.status /\ shown.disputeStatus = orderRow.disputeStatus
         /\ shown.paymentIssue = orderRow.paymentIssue
         /\ shown.paymentMethod = orderRow.paymentMethod
         /\ shown.paymentStatus = orderRow.paymentStatus
  BY DEF OrderView

\* What it reads of the money when the payment is up to date, or not there.
LEMMA PaymentReads ==
  ASSUME PageIInv, shown = OrderView, payment \in {PaymentView, Absent}
  PROVE  /\ IsBankTransfer <=> orderRow.paymentMethod = "BANK_TRANSFER"
         /\ TransferReported <=> (payment # Absent /\ orderRow.transferReported)
         /\ TransferConfirmed <=> (payment # Absent /\ confirmed)
         /\ PaymentStatus = orderRow.paymentStatus
         /\ IssueOpen <=> orderRow.paymentIssue = "OPEN"
<1>1. CASE payment = Absent
  <2>1. PaymentStatus = orderRow.paymentStatus
    BY <1>1, OrderReads DEF PaymentStatus, PageIInv, Coherent
  <2> QED
    BY <1>1, <2>1, OrderReads DEF IsBankTransfer, TransferReported, TransferConfirmed, IssueOpen
<1>2. CASE payment = PaymentView
  <2>1. PaymentView \in PaymentViews
    BY DEF PageIInv, Doc, PaymentView, PaymentViews
  <2>2. payment # Absent
    BY <1>2, <2>1, PageAssumption
  <2>3. /\ payment.paymentMethod = orderRow.paymentMethod /\ payment.paymentStatus = orderRow.paymentStatus
        /\ payment.transferReported = orderRow.transferReported /\ payment.transferConfirmed = confirmed
        /\ payment.paymentIssue = orderRow.paymentIssue
    BY <1>2 DEF PaymentView
  <2>4. /\ IsBankTransfer <=> orderRow.paymentMethod = "BANK_TRANSFER"
        /\ TransferReported <=> orderRow.transferReported
        /\ TransferConfirmed <=> confirmed
        /\ IssueOpen <=> orderRow.paymentIssue = "OPEN"
    BY OrderReads, <2>2, <2>3 DEF IsBankTransfer, TransferReported, TransferConfirmed, IssueOpen
  <2>5. PaymentStatus = orderRow.paymentStatus
    BY OrderReads, <2>2, <2>3 DEF PaymentStatus, PageIInv, Coherent
  <2> QED
    BY <2>2, <2>4, <2>5
<1> QED
  BY <1>1, <1>2

LEMMA HonouredWhenCurrent == PageIInv => ButtonsAreHonoured
<1> SUFFICES ASSUME PageIInv, NEW op \in Buttons, role \in Parties[op], Current(op)
             PROVE  /\ Button[op] => Saves(op, orderRow) # {} \/ Refusable(op)
                    /\ Saves(op, orderRow) # {} => Button[op] \/ Withheld(op)
  BY DEF ButtonsAreHonoured
<1>a. shown = OrderView /\ (op \in PaymentButtons => payment \in {PaymentView, Absent})
  BY DEF Current
<1> USE <1>a, OrderReads, PaymentReads DEF PaymentButtons
<1> PICK d \in Doc : d = orderRow
  BY DEF PageIInv
<1>1. CASE op = "confirmOrder"
  <2>1. role = "SELLER"
    BY <1>1 DEF Parties, Buttons
  <2>2. Button[op] <=> Completes
    BY <1>1 DEF Button
  <2>3. Saves(op, d) # {} <=> d.status = "AWAITING_SELLER" /\ (d.paymentMethod = "BANK_TRANSFER" => d.paymentStatus = "PAID")
    BY <1>1 DEF Saves, ConfirmOrder, When, MayBecome, VALID_TRANSITIONS, Statuses
  <2> QED
    BY <1>1, <2>1, <2>2, <2>3 DEF Completes, Ended, Refusable, Withheld, Doc, Statuses
<1>2. CASE op = "rejectOrder"
  <2>1. role = "SELLER"
    BY <1>2 DEF Parties, Buttons
  <2>2. Button[op] <=> ~Ended
    BY <1>2, <2>1 DEF Button
  <2>3. Saves(op, d) # {} <=> d.status \in Open
    BY <1>2 DEF Saves, RejectOrder, When, MayBecome, VALID_TRANSITIONS, Statuses, Open, Doc
  <2> QED
    BY <2>2, <2>3 DEF Ended, Doc, Statuses, Open
<1>3. CASE op = "cancelByBuyer"
  <2>1. role = "BUYER"
    BY <1>3 DEF Parties, Buttons
  <2>2. Button[op] <=> ~Ended
    BY <1>3, <2>1 DEF Button
  <2>3. Saves(op, d) # {} <=> d.status \in Open
    BY <1>3 DEF Saves, CancelByBuyer, When, MayBecome, VALID_TRANSITIONS, Statuses, Open, Doc
  <2> QED
    BY <2>2, <2>3 DEF Ended, Doc, Statuses, Open
<1>4. CASE op = "reportBankTransfer"
  <2>1. role = "BUYER"
    BY <1>4 DEF Parties, Buttons
  <2>2. Button[op] <=> ReportsTransfer
    BY <1>4 DEF Button
  <2>3. Saves(op, d) # {} <=> d.status # "CANCELLED" /\ d.paymentStatus # "PAID"
    BY <1>4 DEF Saves, ReportBankTransfer, When
  <2> QED
    BY <1>4, <2>1, <2>2, <2>3 DEF ReportsTransfer, PaymentDisplayStatus, Ended, Withheld, Doc, Statuses
<1>5. CASE op = "confirmBankTransfer"
  <2>1. role = "SELLER"
    BY <1>5 DEF Parties, Buttons
  <2>2. Button[op] <=> ConfirmsTransfer
    BY <1>5 DEF Button
  <2>3. Saves(op, d) # {} <=> /\ d.paymentMethod = "BANK_TRANSFER" /\ d.transferReported
                              /\ d.paymentStatus # "PAID" /\ d.status # "CANCELLED"
    BY <1>5 DEF Saves, ConfirmBankTransfer, When
  <2> QED
    BY <1>5, <2>1, <2>2, <2>3 DEF ConfirmsTransfer, PaymentDisplayStatus, Withheld, Doc, Statuses
<1>6. CASE op = "processRefund"
  <2>1. role # "ADMIN"
    BY <1>6 DEF Parties, Buttons
  <2>2. Button[op] <=> Refunds
    BY <1>6 DEF Button
  <2>3. Saves(op, d) # {} <=> d.paymentStatus = "PAID" /\ d.status = "CANCELLED"
    BY <1>6 DEF Saves, ProcessRefund, When
  <2> QED
    BY <1>6, <2>1, <2>2, <2>3 DEF Refunds
<1>7. CASE op = "openPaymentIssue"
  <2>1. role # "ADMIN"
    BY <1>7 DEF Parties, Buttons
  <2>2. Button[op] <=> OpensIssue
    BY <1>7 DEF Button
  <2>3. Saves(op, d) # {} <=> /\ d.paymentIssue # "OPEN" /\ d.paymentStatus # "REFUNDED"
                              /\ d.paymentMethod = "BANK_TRANSFER" \/ d.paymentStatus = "PAID"
    BY <1>7 DEF Saves, OpenPaymentIssue, When
  <2> QED
    BY <1>7, <2>1, <2>2, <2>3 DEF OpensIssue, Refusable
<1>8. CASE op = "openDispute"
  <2>1. role # "ADMIN"
    BY <1>8 DEF Parties, Buttons
  <2>2. Button[op] <=> Disputes
    BY <1>8 DEF Button
  <2>3. Saves(op, d) # {} <=> d.status = "COMPLETED" /\ d.disputeStatus # "OPEN"
    BY <1>8 DEF Saves, OpenDispute, When
  <2> QED
    BY <1>8, <2>1, <2>2, <2>3 DEF Disputes, Refusable, Withheld
<1>9. CASE op = "addDisputeEvidence"
  <2>1. role # "ADMIN"
    BY <1>9 DEF Parties, Buttons
  <2>2. Button[op] <=> AddsEvidence
    BY <1>9 DEF Button
  <2>3. Saves(op, d) # {} <=> d.disputeStatus = "OPEN"
    BY <1>9 DEF Saves, AddDisputeEvidence, When
  <2> QED
    BY <2>1, <2>2, <2>3 DEF AddsEvidence
<1>10. CASE op = "resolveDispute"
  <2>1. role = "ADMIN"
    BY <1>10 DEF Parties, Buttons
  <2>2. Button[op] <=> Settles
    BY <1>10 DEF Button
  <2>3. Saves(op, d) # {} <=> d.disputeStatus = "OPEN"
    <3>1. Saves(op, d) = ResolveDispute(d)
      BY <1>10 DEF Saves
    <3>2. d.disputeStatus = "OPEN" =>
            [Remedied(d, "NONE") EXCEPT !.disputeStatus = "RESOLVED"] \in ResolveDispute(d)
      BY DEF ResolveDispute, When
    <3> QED
      BY <3>1, <3>2 DEF ResolveDispute, When
  <2> QED
    BY <1>10, <2>1, <2>2, <2>3 DEF Settles, Withheld
<1>11. CASE op = "resolvePaymentIssue"
  <2>1. role = "ADMIN"
    BY <1>11 DEF Parties, Buttons
  <2>2. Button[op] <=> SettlesIssue
    BY <1>11 DEF Button
  <2>3. Saves(op, d) # {} <=> d.paymentIssue = "OPEN"
    BY <1>11 DEF Saves, ResolvePaymentIssue, When
  <2> QED
    BY <2>1, <2>2, <2>3 DEF SettlesIssue
<1> QED
  BY <1>1, <1>2, <1>3, <1>4, <1>5, <1>6, <1>7, <1>8, <1>9, <1>10, <1>11 DEF Buttons

\* Whatever the other party, an admin and the saga do to the row in between: the
\* buttons of a page that is up to date agree with what the server accepts, save
\* the named cases.
THEOREM PageAgreesWithServer == PageSpec => []ButtonsAreHonoured
<1>1. PageSpec => []PageIInv
  BY PageStart, PageStep, PTL DEF PageSpec
<1> QED
  BY <1>1, HonouredWhenCurrent, PTL

-----------------------------------------------------------------------------
(* Reports.                                                                *)

ReportsSpec == ReportsInit /\ [][ReportsNext]_reportVars

Report == [target : Targets, status : ReportStatuses]

Task == [report : Nat, action : DOMAIN Actions, at : {"sanction", "read", "save"}]

ReportsTypes ==
  /\ reports \in Seq(Report) /\ post \in BOOLEAN
  /\ tasks \in [Pages -> Task \cup {NoTask}]
  /\ \A p \in Pages : tasks[p] # NoTask => tasks[p].report \in DOMAIN reports
  /\ penalties \in Seq(Nat) /\ DOMAIN penalties = DOMAIN reports
  /\ sanctions \in Seq(SUBSET Sanctions) /\ DOMAIN sanctions = DOMAIN reports
  /\ closedBy \in Seq(DOMAIN Actions \cup {"none"}) /\ DOMAIN closedBy = DOMAIN reports

\* The sanction of an action was carried out for report i, where it has one.
Carried(i, action) == Actions[action].sanction \in sanctions[i] \cup {"none"}

\* A page that is past the sanction has had it carried out.
SanctionFirst == \A p \in Pages : At(p, "read") \/ At(p, "save") => Carried(tasks[p].report, tasks[p].action)

ClosedIsCarried == \A i \in DOMAIN reports : closedBy[i] # "none" => Carried(i, closedBy[i])

RemovedIsGone == \A i \in DOMAIN reports : "remove" \in sanctions[i] => ~post

Saving(p, i) == At(p, "save") /\ tasks[p].report = i

\* A report that asked for its penalty was found valid, is settled, and nobody is
\* about to save it.
PenaltySettles ==
  \A i \in DOMAIN reports :
    \/ i \in contested \/ penalties[i] = 0
    \/ /\ penalties[i] = 1 /\ Settled(reports[i].status)
       /\ closedBy[i] = "RESOLVE" /\ reports[i].target = "USER"
       /\ \A p \in Pages : ~Saving(p, i)

\* Only a post is removed.
PostsAreRemoved ==
  \A p \in Pages :
    tasks[p] # NoTask => (tasks[p].action = "REMOVE" => reports[tasks[p].report].target = "POST")

ReportsIInv ==
  ReportsTypes /\ PostsAreRemoved /\ SanctionFirst /\ ClosedIsCarried /\ RemovedIsGone /\ PenaltySettles

LEMMA ActionsAreSteps ==
  /\ "none" \notin DOMAIN Actions
  /\ \A a \in DOMAIN Actions : Actions[a].sanction \in Sanctions \cup {"none"} /\ Actions[a].status \in ReportStatuses
  BY DEF Actions, Step, Sanctions, ReportStatuses

\* Of all the actions on accounts, only a plain resolution asks for the penalty.
LEMMA PenalisedResolves ==
  ASSUME NEW a \in DOMAIN Actions, a # "REMOVE",
         Actions[a].status = "RESOLVED", ~Actions[a].skip
  PROVE  a = "RESOLVE"
  BY DEF Actions, Step

LEMMA ReportsStart == ReportsInit => ReportsIInv
<1> SUFFICES ASSUME ReportsInit PROVE ReportsIInv
  OBVIOUS
<1> reports = <<>> /\ DOMAIN reports = {}
  BY DEF ReportsInit
<1>1. ReportsTypes
  BY EmptySeq DEF ReportsInit, ReportsTypes
<1>2. PostsAreRemoved /\ SanctionFirst /\ ClosedIsCarried /\ RemovedIsGone /\ PenaltySettles
  BY DEF ReportsInit, PostsAreRemoved, SanctionFirst, ClosedIsCarried, RemovedIsGone, PenaltySettles, At
<1> QED
  BY <1>1, <1>2 DEF ReportsIInv

\* A step that leaves the reports and their history alone and moves at most the
\* task of p, to nothing or on along its way.
LEMMA ReportsTaskMoves ==
  ASSUME ReportsIInv, UNCHANGED <<reports, post, reportHistory>>,
         NEW p \in Pages, NEW t \in Task \cup {NoTask}, tasks' = [tasks EXCEPT ![p] = t],
         t # NoTask => /\ t.report \in DOMAIN reports
                       /\ t.action = "REMOVE" => reports[t.report].target = "POST"
                       /\ t.at # "sanction" => Carried(t.report, t.action)
                       /\ t.at = "save" => ~Settled(reports[t.report].status)
  PROVE  ReportsIInv'
<1> USE DEF ReportsIInv, reportHistory
<1>1. ReportsTypes'
  BY DEF ReportsTypes
<1>2. SanctionFirst'
  BY DEF ReportsTypes, SanctionFirst, At, Carried
<1>3. ClosedIsCarried' /\ RemovedIsGone'
  BY DEF ClosedIsCarried, RemovedIsGone, Carried
<1>4. PenaltySettles'
  BY DEF ReportsTypes, PenaltySettles, Saving, At, Settled
<1>5. PostsAreRemoved'
  BY DEF ReportsTypes, PostsAreRemoved
<1> QED
  BY <1>1, <1>2, <1>3, <1>4, <1>5

\* The sanction of p's action is carried out.
LEMMA ReportsSanction ==
  ASSUME ReportsIInv, NEW p \in Pages, At(p, "sanction"),
         NEW s \in Sanctions, s = Actions[tasks[p].action].sanction,
         Sanctioned(tasks[p].report, s), Proceed(p),
         UNCHANGED <<reports, penalties, closedBy, contested>>,
         post' \in BOOLEAN, ~post => ~post', s = "remove" => ~post'
  PROVE  ReportsIInv'
<1> USE DEF ReportsIInv
<1> PICK i : i = tasks[p].report
  OBVIOUS
<1> PICK t : t = [tasks[p] EXCEPT !.at = "read"]
  OBVIOUS
<1>1. i \in DOMAIN reports /\ tasks[p] \in Task /\ tasks[p] # NoTask
  BY DEF ReportsTypes, At
<1>2. t \in Task /\ t.report = i /\ t.action = tasks[p].action /\ t.at = "read"
  BY <1>1 DEF Task
<1>3. tasks' = [tasks EXCEPT ![p] = t]
  BY DEF Proceed
<1>4. sanctions' = [sanctions EXCEPT ![i] = @ \cup {s}]
  BY DEF Sanctioned
<1>5. ReportsTypes'
  BY <1>1, <1>2, <1>3, <1>4 DEF ReportsTypes
<1>6. \A j \in DOMAIN reports : sanctions[j] \subseteq sanctions'[j]
  BY <1>1, <1>4 DEF ReportsTypes
<1>7. s \in sanctions'[i]
  BY <1>1, <1>4 DEF ReportsTypes
<1>8. SanctionFirst'
  <2> SUFFICES ASSUME NEW q \in Pages, (At(q, "read") \/ At(q, "save"))'
               PROVE  Carried(tasks[q].report, tasks[q].action)'
    BY DEF SanctionFirst
  <2>1. CASE q = p
    BY <2>1, <1>1, <1>2, <1>3, <1>7 DEF Carried, ReportsTypes
  <2>2. CASE q # p
    <3>1. tasks'[q] = tasks[q]
      BY <2>2, <1>3 DEF ReportsTypes
    <3>2. At(q, "read") \/ At(q, "save")
      BY <3>1 DEF At
    <3>3. tasks[q].report \in DOMAIN reports
      BY <3>2 DEF At, ReportsTypes
    <3> QED
      BY <3>1, <3>2, <3>3, <1>6 DEF SanctionFirst, Carried
  <2> QED
    BY <2>1, <2>2
<1>9. ClosedIsCarried'
  BY <1>6 DEF ClosedIsCarried, Carried
<1>10. RemovedIsGone'
  BY <1>1, <1>4 DEF RemovedIsGone, ReportsTypes
<1>11. PenaltySettles'
  BY <1>1, <1>2, <1>3 DEF PenaltySettles, Saving, At, Settled, ReportsTypes
<1>12. PostsAreRemoved'
  BY <1>1, <1>2, <1>3 DEF PostsAreRemoved, ReportsTypes
<1> QED
  BY <1>5, <1>8, <1>9, <1>10, <1>11, <1>12

LEMMA CreateReportKeeps ==
  ASSUME ReportsIInv, NEW target \in Targets, CreateReport(target)
  PROVE  ReportsIInv'
<1> USE DEF ReportsIInv
<1> DEFINE n == Len(reports) + 1
           r == [target |-> target, status |-> "PENDING"]
<1>1. r \in Report
  BY DEF Report, ReportStatuses
<1>2. Len(reports) \in Nat /\ DOMAIN reports = 1..Len(reports) /\ reports \in Seq(Report)
  BY LenProperties DEF ReportsTypes
<1>3. reports' = Append(reports, r) /\ DOMAIN reports' = 1..n
  BY <1>1, <1>2 DEF CreateReport
<1>4. reports' \in Seq(Report) /\ \A i \in DOMAIN reports : reports'[i] = reports[i]
  BY <1>1, <1>2, <1>3
<1> HIDE DEF r
<1>5. /\ penalties \in Seq(Nat) /\ Len(penalties) = Len(reports)
      /\ sanctions \in Seq(SUBSET Sanctions) /\ Len(sanctions) = Len(reports)
      /\ closedBy \in Seq(DOMAIN Actions \cup {"none"}) /\ Len(closedBy) = Len(reports)
  BY <1>2, LenProperties DEF ReportsTypes
<1>6. /\ penalties' \in Seq(Nat) /\ DOMAIN penalties' = 1..n
      /\ penalties'[n] = 0 /\ \A i \in DOMAIN reports : penalties'[i] = penalties[i]
  BY <1>2, <1>5, AppendProperties DEF CreateReport
<1>7. /\ sanctions' \in Seq(SUBSET Sanctions) /\ DOMAIN sanctions' = 1..n
      /\ sanctions'[n] = {} /\ \A i \in DOMAIN reports : sanctions'[i] = sanctions[i]
  <2>1. sanctions' = Append(sanctions, {}) /\ {} \in SUBSET Sanctions
    BY DEF CreateReport
  <2> QED
    BY <1>2, <1>5, <2>1, AppendProperties
<1>8. /\ closedBy' \in Seq(DOMAIN Actions \cup {"none"}) /\ DOMAIN closedBy' = 1..n
      /\ closedBy'[n] = "none" /\ \A i \in DOMAIN reports : closedBy'[i] = closedBy[i]
  BY <1>2, <1>5, AppendProperties DEF CreateReport
<1>9. tasks' = tasks /\ post' = post /\ contested' = contested
  BY DEF CreateReport
<1>10. DOMAIN reports' = DOMAIN reports \cup {n}
  BY <1>2, <1>3
<1>11. ReportsTypes'
  BY <1>3, <1>4, <1>6, <1>7, <1>8, <1>9, <1>10 DEF ReportsTypes
<1> HIDE DEF n
<1>12. \A q \in Pages : tasks[q] # NoTask => tasks[q].report \in DOMAIN reports
  BY DEF ReportsTypes
<1>13. SanctionFirst'
  BY <1>7, <1>9, <1>12 DEF SanctionFirst, Carried, At
<1>14. ClosedIsCarried'
  BY <1>7, <1>8, <1>10 DEF ClosedIsCarried, Carried
<1>15. RemovedIsGone'
  BY <1>7, <1>9, <1>10 DEF RemovedIsGone
<1>16. PenaltySettles'
  BY <1>4, <1>6, <1>8, <1>9, <1>10 DEF PenaltySettles, Saving, At, Settled
<1>17. PostsAreRemoved'
  BY <1>4, <1>9, <1>12 DEF PostsAreRemoved
<1> QED
  BY <1>11, <1>13, <1>14, <1>15, <1>16, <1>17

LEMMA SettleKeeps ==
  ASSUME ReportsIInv, NEW p \in Pages, NEW i \in DOMAIN reports, NEW action \in DOMAIN Actions,
         Settle(p, i, action)
  PROVE  ReportsIInv'
<1> PICK t : t = [report |-> i, action |-> action,
                  at |-> IF Actions[action].sanction = "none" THEN "read" ELSE "sanction"]
  OBVIOUS
<1>1. i \in Nat
  BY LenProperties DEF ReportsIInv, ReportsTypes
<1>2. t \in Task /\ t.report = i /\ t.action = action
  BY <1>1 DEF Task
<1>3. t.at # "sanction" => Carried(i, action)
  BY DEF Carried
<1>4. t.at # "save"
  OBVIOUS
<1>5. tasks' = [tasks EXCEPT ![p] = t] /\ UNCHANGED <<reports, post, reportHistory>>
  BY DEF Settle
<1>6. action = "REMOVE" => reports[i].target = "POST"
  <2>1. reports[i] \in Report
    BY ElementOfSeq DEF ReportsIInv, ReportsTypes
  <2>2. action = "REMOVE" => "REMOVE" \in AdminOffers(i, lists[p][i]) \/ "REMOVE" \in ModeratorOffers(i)
    BY DEF Settle
  <2> QED
    BY <2>1, <2>2 DEF AdminOffers, ModeratorOffers, Report, Targets
<1> QED
  BY <1>2, <1>3, <1>4, <1>5, <1>6, ReportsTaskMoves

LEMMA ReadReportKeeps ==
  ASSUME ReportsIInv, NEW p \in Pages, ReadReport(p)
  PROVE  ReportsIInv'
<1> PICK t : t = [tasks[p] EXCEPT !.at = "save"]
  OBVIOUS
<1>1. tasks[p] \in Task /\ tasks[p] # NoTask /\ tasks[p].report \in DOMAIN reports
  BY DEF ReportsIInv, ReportsTypes, ReadReport, At
<1>2. t \in Task /\ t.report = tasks[p].report /\ t.action = tasks[p].action /\ t.at = "save"
  BY <1>1 DEF Task
<1>3. /\ Carried(t.report, t.action) /\ ~Settled(reports[t.report].status)
      /\ t.action = "REMOVE" => reports[t.report].target = "POST"
  BY <1>1, <1>2 DEF ReadReport, ReportsIInv, SanctionFirst, PostsAreRemoved
<1>4. tasks' = [tasks EXCEPT ![p] = t] /\ UNCHANGED <<reports, post, reportHistory>>
  BY DEF ReadReport
<1> QED
  BY <1>1, <1>2, <1>3, <1>4, ReportsTaskMoves

LEMMA SaveReportKeeps ==
  ASSUME ReportsIInv, NEW p \in Pages, SaveReport(p)
  PROVE  ReportsIInv'
<1> USE DEF ReportsIInv
<1> PICK i : i = tasks[p].report
  OBVIOUS
<1> PICK a : a = tasks[p].action
  OBVIOUS
<1> PICK rep : rep = [reports[i] EXCEPT !.status = Actions[a].status]
  OBVIOUS
<1>1. i \in DOMAIN reports /\ a \in DOMAIN Actions /\ tasks[p] # NoTask
  BY DEF SaveReport, At, ReportsTypes, Task
<1>2. reports[i] \in Report
  BY <1>1, ElementOfSeq DEF ReportsTypes
<1>3. rep \in Report /\ rep.status = Actions[a].status
  BY <1>1, <1>2, ActionsAreSteps DEF Report
<1>4. reports' = [reports EXCEPT ![i] = rep]
  BY DEF SaveReport
<1>5. reports' \in Seq(Report) /\ DOMAIN reports' = DOMAIN reports
  BY <1>1, <1>3, <1>4, ExceptSeq DEF ReportsTypes
<1>6. /\ tasks' = [tasks EXCEPT ![p] = NoTask]
      /\ closedBy' = [closedBy EXCEPT ![i] = a]
      /\ sanctions' = sanctions /\ post' = post
  BY DEF SaveReport
<1>7. /\ penalties' = penalties \/ (penalties' = [penalties EXCEPT ![i] = OnceMore(@)] /\ Penalised(i, Actions[a]))
      /\ contested \subseteq contested'
      /\ i \notin contested' => \A q \in Pages \ {p} : ~Saving(q, i)
  BY DEF SaveReport, Saving
<1>8. Saving(p, i) /\ Carried(i, a)
  BY DEF SaveReport, Saving, SanctionFirst
<1>9. ReportsTypes'
  <2>1. penalties' \in Seq(Nat) /\ DOMAIN penalties' = DOMAIN reports
    <3> PICK n : n = OnceMore(penalties[i])
      OBVIOUS
    <3>1. n \in Nat
      BY <1>1, ElementOfSeq DEF ReportsTypes, OnceMore
    <3>2. penalties' = penalties \/ penalties' = [penalties EXCEPT ![i] = n]
      BY <1>7
    <3>3. penalties \in Seq(Nat) /\ DOMAIN penalties = DOMAIN reports /\ i \in 1..Len(penalties)
      BY <1>1, LenProperties DEF ReportsTypes
    <3>4. /\ [penalties EXCEPT ![i] = n] \in Seq(Nat)
          /\ DOMAIN [penalties EXCEPT ![i] = n] = DOMAIN penalties
      BY <3>1, <3>3, ExceptSeq
    <3> QED
      BY <3>2, <3>3, <3>4
  <2>2. closedBy' \in Seq(DOMAIN Actions \cup {"none"}) /\ DOMAIN closedBy' = DOMAIN reports
    BY <1>1, <1>6, ExceptSeq DEF ReportsTypes
  <2>3. tasks' \in [Pages -> Task \cup {NoTask}]
    BY <1>6 DEF ReportsTypes
  <2>4. \A q \in Pages : tasks'[q] # NoTask => tasks'[q].report \in DOMAIN reports
    BY <1>6 DEF ReportsTypes
  <2> QED
    BY <1>5, <1>6, <2>1, <2>2, <2>3, <2>4 DEF ReportsTypes
<1>10. SanctionFirst'
  BY <1>6 DEF SanctionFirst, At, Carried, ReportsTypes
<1>11. ClosedIsCarried'
  BY <1>1, <1>5, <1>6, <1>8 DEF ClosedIsCarried, Carried, ReportsTypes
<1>12. RemovedIsGone'
  BY <1>5, <1>6 DEF RemovedIsGone
<1>13. PenaltySettles'
  <2> SUFFICES ASSUME NEW j \in DOMAIN reports, j \notin contested', penalties'[j] # 0
               PROVE  /\ penalties'[j] = 1 /\ Settled(reports[j].status)'
                      /\ closedBy'[j] = "RESOLVE" /\ reports'[j].target = "USER"
                      /\ \A q \in Pages : ~Saving(q, j)'
    BY <1>5 DEF PenaltySettles
  <2>1. j \notin contested
    BY <1>7
  <2>2. CASE j = i
    <3>1. penalties[i] = 0
      BY <2>1, <2>2, <1>8 DEF PenaltySettles
    <3>2. penalties'[i] = 1 /\ Penalised(i, Actions[a])
      BY <3>1, <2>2, <1>7, <1>1 DEF ReportsTypes, OnceMore
    <3>3. /\ Actions[a].status = "RESOLVED" /\ reports[i].target = "USER" /\ a = "RESOLVE"
      BY <3>2, <1>1, PenalisedResolves DEF Penalised, PostsAreRemoved
    <3>5. reports'[i].status = "RESOLVED" /\ reports'[i].target = "USER" /\ closedBy'[i] = "RESOLVE"
      BY <3>3, <1>1, <1>2, <1>3, <1>4, <1>6 DEF ReportsTypes, Report
    <3>4. \A q \in Pages : ~Saving(q, i)'
      BY <1>6, <1>7, <2>2 DEF Saving, At, ReportsTypes
    <3> QED
      BY <3>2, <3>4, <3>5, <2>2 DEF Settled
  <2>3. CASE j # i
    <3>1. penalties'[j] = penalties[j] /\ reports'[j] = reports[j] /\ closedBy'[j] = closedBy[j]
      BY <2>3, <1>4, <1>6, <1>7 DEF ReportsTypes
    <3>2. /\ penalties[j] = 1 /\ Settled(reports[j].status)
          /\ closedBy[j] = "RESOLVE" /\ reports[j].target = "USER"
          /\ \A q \in Pages : ~Saving(q, j)
      BY <3>1, <2>1 DEF PenaltySettles
    <3>3. \A q \in Pages : ~Saving(q, j)'
      BY <3>2, <1>6 DEF Saving, At, ReportsTypes
    <3> QED
      BY <3>1, <3>2, <3>3 DEF Settled
  <2> QED
    BY <2>2, <2>3
<1>14. PostsAreRemoved'
  <2> SUFFICES ASSUME NEW q \in Pages, tasks'[q] # NoTask, tasks'[q].action = "REMOVE"
               PROVE  reports'[tasks'[q].report].target = "POST"
    BY DEF PostsAreRemoved
  <2>1. q # p /\ tasks'[q] = tasks[q]
    BY <1>6 DEF ReportsTypes
  <2>2. reports[tasks[q].report].target = "POST" /\ tasks[q].report \in DOMAIN reports
    BY <2>1 DEF PostsAreRemoved, ReportsTypes
  <2>3. rep.target = reports[i].target
    BY <1>2 DEF Report
  <2> QED
    BY <2>1, <2>2, <2>3, <1>1, <1>4 DEF ReportsTypes
<1> QED
  BY <1>9, <1>10, <1>11, <1>12, <1>13, <1>14

LEMMA ReportsStep == ReportsIInv /\ [ReportsNext]_reportVars => ReportsIInv'
<1> SUFFICES ASSUME ReportsIInv, [ReportsNext]_reportVars PROVE ReportsIInv'
  OBVIOUS
<1>1. ASSUME NEW target \in Targets, CreateReport(target) PROVE ReportsIInv'
  BY <1>1, CreateReportKeeps
<1>2. ASSUME UNCHANGED <<reports, post, tasks, reportHistory>> PROVE ReportsIInv'
  BY <1>2 DEF ReportsIInv, reportHistory, ReportsTypes, PostsAreRemoved, SanctionFirst, ClosedIsCarried, RemovedIsGone,
              PenaltySettles, At, Carried, Saving, Settled
<1>3. ASSUME NEW p \in Pages, FetchData(p) \/ LoadData(p) PROVE ReportsIInv'
  BY <1>3, <1>2 DEF FetchData, LoadData
<1>4. ASSUME NEW p \in Pages, NEW i \in DOMAIN reports, NEW action \in DOMAIN Actions, Settle(p, i, action)
      PROVE  ReportsIInv'
  BY <1>4, SettleKeeps
<1>5. ASSUME NEW p \in Pages, Deduct(p) \/ Lock(p) \/ Remove(p) PROVE ReportsIInv'
  <2>1. At(p, "sanction") /\ Proceed(p) /\ UNCHANGED <<reports, penalties, closedBy, contested>>
    BY <1>5 DEF Deduct, Lock, Remove
  <2> PICK s \in Sanctions : /\ s = Actions[tasks[p].action].sanction
                             /\ Sanctioned(tasks[p].report, s)
                             /\ IF s = "remove" THEN post' = FALSE ELSE post' = post
    BY <1>5 DEF Deduct, Lock, Remove, Sanctions
  <2>2. post' \in BOOLEAN /\ (~post => ~post') /\ (s = "remove" => ~post')
    BY DEF ReportsIInv, ReportsTypes
  <2> QED
    BY <2>1, <2>2, ReportsSanction
<1>6. ASSUME NEW p \in Pages, ReadReport(p) PROVE ReportsIInv'
  BY <1>6, ReadReportKeeps
<1>7. ASSUME NEW p \in Pages, SaveReport(p) PROVE ReportsIInv'
  BY <1>7, SaveReportKeeps
<1>8. ASSUME NEW p \in Pages, SettleFails(p) PROVE ReportsIInv'
  <2>1. UNCHANGED <<reports, post, reportHistory>> /\ tasks' = [tasks EXCEPT ![p] = NoTask]
    BY <1>8 DEF SettleFails
  <2> QED
    BY <2>1, ReportsTaskMoves
<1>9. CASE ToggleBan \/ UNCHANGED reportVars
  BY <1>9, <1>2 DEF ToggleBan, reportVars, reportHistory
<1> QED
  BY <1>1, <1>3, <1>4, <1>5, <1>6, <1>7, <1>8, <1>9 DEF ReportsNext

LEMMA ReportsInvariant == ReportsSpec => []ReportsIInv
  BY ReportsStart, ReportsStep, PTL DEF ReportsSpec

\* However many reports, admins and moderators there are: a report that is closed
\* has the sanction it was closed with, a removed post is gone, and unless two
\* pages were saving it at a time its penalty was asked for at most once, and only
\* when it was a plain resolution of a report about somebody's account.
THEOREM SettlementsHold == ReportsSpec => []SanctionsHold
<1>1. ReportsIInv => SanctionsHold
  BY DEF ReportsIInv, ReportsTypes, ClosedIsCarried, RemovedIsGone, PenaltySettles, SanctionsHold, Carried
<1> QED
  BY <1>1, ReportsInvariant, PTL

-----------------------------------------------------------------------------
(* The catalogue.                                                          *)

CatalogueTypes ==
  /\ DOMAIN entry = Keys
  /\ writer \in [Writers -> {NoPost} \cup WriterTasks]

\* A writer that has not written yet owes the deletion of every key.
WritersOweAll ==
  \A w \in Writers : writer[w] # NoPost /\ writer[w].step = "loaded" => writer[w].due = Keys

CatalogueIInv == CatalogueTypes /\ WritersOweAll /\ CacheIsCurrent

Owes(w, k) == writer[w] # NoPost /\ writer[w].step # "loaded" /\ k \in writer[w].due

LEMMA CatalogueStarts == CatalogueInit => CatalogueIInv
  BY DEF CatalogueInit, CatalogueInitWith, CatalogueIInv, CatalogueTypes, WritersOweAll, CacheIsCurrent

\* The task of one writer changes, the product and the entries do not: what it no
\* longer owes is missed, or its entry is gone.
LEMMA WriterMoves ==
  ASSUME CatalogueIInv, NEW w \in Writers, NEW t \in {NoPost} \cup WriterTasks,
         writer' = [writer EXCEPT ![w] = t],
         t # NoPost /\ t.step = "loaded" => t.due = Keys,
         product' = product, DOMAIN entry' = Keys,
         \A k \in Keys : \/ entry'[k] = NoPost
                         \/ k \in missed'
                         \/ /\ entry'[k] = entry[k]
                            /\ k \in overlapped => k \in overlapped'
                            /\ k \in missed => k \in missed'
                            /\ Owes(w, k) => t # NoPost /\ t.step # "loaded" /\ k \in t.due
  PROVE  CatalogueIInv'
<1> USE DEF CatalogueIInv
<1>1. CatalogueTypes'
  BY DEF CatalogueTypes
<1>2. WritersOweAll'
  BY DEF WritersOweAll, CatalogueTypes
<1>3. CacheIsCurrent'
  <2> SUFFICES ASSUME NEW k \in Keys, entry'[k] # NoPost, k \notin missed', k \notin overlapped'
               PROVE  entry'[k].value = View(k, product)' \/ WillDelete(k)'
    BY DEF CacheIsCurrent
  <2>1. /\ entry'[k] = entry[k] /\ k \notin overlapped /\ k \notin missed
        /\ Owes(w, k) => t # NoPost /\ t.step # "loaded" /\ k \in t.due
    OBVIOUS
  <2>2. entry[k].value = View(k, product) \/ WillDelete(k)
    BY <2>1 DEF CacheIsCurrent
  <2>3. ASSUME WillDelete(k) PROVE WillDelete(k)'
    <3> PICK v \in Writers : Owes(v, k)
      BY <2>3 DEF WillDelete, Owes
    <3>1. writer'[v] = IF v = w THEN t ELSE writer[v]
      BY DEF CatalogueTypes
    <3>2. writer'[v] # NoPost /\ writer'[v].step # "loaded" /\ k \in writer'[v].due
      BY <2>1, <3>1 DEF Owes
    <3> QED
      BY <3>2 DEF WillDelete
  <2>4. View(k, product)' = View(k, product)
    BY DEF View
  <2> QED
    BY <2>1, <2>2, <2>3, <2>4
<1> QED
  BY <1>1, <1>2, <1>3

\* The entry of one key changes, no writer does.
LEMMA EntryMoves ==
  ASSUME CatalogueIInv, NEW k \in Keys, UNCHANGED <<product, writer>>, DOMAIN entry' = Keys,
         \/ entry'[k] = NoPost \/ entry'[k].value = View(k, product) \/ k \in overlapped',
         \A j \in Keys \ {k} : /\ entry'[j] = entry[j]
                               /\ j \in overlapped => j \in overlapped'
                               /\ j \in missed => j \in missed'
  PROVE  CatalogueIInv'
<1> USE DEF CatalogueIInv
<1>1. CatalogueTypes' /\ WritersOweAll'
  BY DEF CatalogueTypes, WritersOweAll
<1>2. CacheIsCurrent'
  <2> SUFFICES ASSUME NEW j \in Keys, entry'[j] # NoPost, j \notin overlapped', j \notin missed'
               PROVE  entry'[j].value = View(j, product)' \/ WillDelete(j)'
    BY DEF CacheIsCurrent
  <2>1. View(j, product)' = View(j, product) /\ (WillDelete(j)' <=> WillDelete(j))
    BY DEF View, WillDelete
  <2>2. CASE j = k
    BY <2>1, <2>2
  <2>3. CASE j # k
    <3>1. entry'[j] = entry[j] /\ j \notin overlapped /\ j \notin missed
      BY <2>3
    <3> QED
      BY <3>1, <2>1 DEF CacheIsCurrent
  <2> QED
    BY <2>2, <2>3
<1> QED
  BY <1>1, <1>2

LEMMA LoadProductKeeps ==
  ASSUME CatalogueIInv, NEW w \in Writers, NEW effect \in Effects, NEW text \in Texts,
         LoadProduct(w, effect, text)
  PROVE  CatalogueIInv'
<1> PICK t : t = [effect |-> effect, text |-> text, step |-> "loaded", due |-> Keys]
  OBVIOUS
<1>1. t \in WriterTasks /\ t.due = Keys
  BY DEF WriterTasks
<1>2. writer' = [writer EXCEPT ![w] = t] /\ UNCHANGED <<product, entry, overlapped, missed>>
  BY DEF LoadProduct
<1>3. \A k \in Keys : ~Owes(w, k)
  BY DEF LoadProduct, Owes
<1> QED
  BY <1>1, <1>2, <1>3, WriterMoves DEF CatalogueIInv, CatalogueTypes

LEMMA UnsuitableKeeps ==
  ASSUME CatalogueIInv, NEW w \in Writers, Unsuitable(w)
  PROVE  CatalogueIInv'
<1>1. writer' = [writer EXCEPT ![w] = NoPost] /\ UNCHANGED <<product, entry, overlapped, missed>>
  BY DEF Unsuitable
<1>2. \A k \in Keys : ~Owes(w, k)
  BY DEF Unsuitable, Owes
<1> QED
  BY <1>1, <1>2, WriterMoves DEF CatalogueIInv, CatalogueTypes

LEMMA WriteProductKeeps ==
  ASSUME CatalogueIInv, NEW w \in Writers, WriteProduct(w)
  PROVE  CatalogueIInv'
<1> PICK t : t = [writer[w] EXCEPT !.step = IF BySaga(writer[w].effect) THEN "clear" ELSE "publish"]
  OBVIOUS
<1>1. writer[w] \in WriterTasks /\ writer[w] # NoPost /\ writer[w].step = "loaded" /\ writer[w].due = Keys
  BY DEF WriteProduct, CatalogueIInv, CatalogueTypes, WritersOweAll
<1>2. t \in WriterTasks /\ t.step # "loaded" /\ t.due = Keys
  BY <1>1 DEF WriterTasks
<1>3. UNCHANGED <<entry, overlapped, missed>>
  BY DEF WriteProduct
<1>4. CASE writer' = [writer EXCEPT ![w] = NoPost] /\ product' = product
  <2>1. \A k \in Keys : ~Owes(w, k)
    BY <1>1 DEF Owes
  <2> QED
    BY <1>3, <1>4, <2>1, WriterMoves DEF CatalogueIInv, CatalogueTypes
<1>5. CASE writer' = [writer EXCEPT ![w] = t]
  <2>1. CatalogueTypes' /\ WritersOweAll'
    BY <1>2, <1>3, <1>5 DEF CatalogueIInv, CatalogueTypes, WritersOweAll
  <2>2. writer'[w] = t /\ t # NoPost
    BY <1>2, <1>5, CatalogueAssumption DEF CatalogueIInv, CatalogueTypes
  <2>3. \A k \in Keys : WillDelete(k)'
    BY <1>2, <2>2 DEF WillDelete
  <2> QED
    BY <2>1, <2>3 DEF CatalogueIInv, CacheIsCurrent
<1> QED
  BY <1>4, <1>5 DEF WriteProduct

LEMMA PublishedKeeps ==
  ASSUME CatalogueIInv, NEW w \in Writers, Published(w)
  PROVE  CatalogueIInv'
<1> PICK t : t = [writer[w] EXCEPT !.step = "clear"]
  OBVIOUS
<1>1. writer[w] \in WriterTasks /\ writer[w] # NoPost
  BY DEF Published, CatalogueIInv, CatalogueTypes
<1>2. t \in WriterTasks /\ t.step # "loaded" /\ t.due = writer[w].due
  BY <1>1 DEF WriterTasks
<1>3. t # NoPost
  BY <1>2, CatalogueAssumption
<1>4. writer' = [writer EXCEPT ![w] = t] /\ UNCHANGED <<product, entry, overlapped, missed>>
  BY DEF Published
<1>5. \A k \in Keys : Owes(w, k) => k \in t.due
  BY <1>2 DEF Owes
<1> QED
  BY <1>2, <1>3, <1>4, <1>5, WriterMoves DEF CatalogueIInv, CatalogueTypes

\* With k cleared a writer owes the rest of what it owed.
LEMMA ClearedOwesTheRest ==
  ASSUME NEW job \in WriterTasks, job.step = "clear", NEW k \in Keys
  PROVE  /\ Cleared(job, k) \in {NoPost} \cup WriterTasks
         /\ Cleared(job, k) # NoPost => Cleared(job, k).step = "clear"
         /\ \A j \in job.due \ {k} : Cleared(job, k) # NoPost /\ j \in Cleared(job, k).due
<1> PICK t : t = [job EXCEPT !.due = job.due \ {k}]
  OBVIOUS
<1>1. t \in WriterTasks /\ t.step = "clear" /\ t.due = job.due \ {k}
  BY DEF WriterTasks
<1>2. t # NoPost
  BY <1>1, CatalogueAssumption
<1>3. Cleared(job, k) = IF job.due = {k} THEN NoPost ELSE t
  BY DEF Cleared
<1> QED
  BY <1>1, <1>2, <1>3

LEMMA DeleteKeeps ==
  ASSUME CatalogueIInv, NEW w \in Writers, NEW k \in Keys, DeleteKey(w, k) \/ DeleteFails(w, k)
  PROVE  CatalogueIInv'
<1> PICK t : t = Cleared(writer[w], k)
  OBVIOUS
<1>1. writer[w] \in WriterTasks /\ writer[w].step = "clear"
  BY DEF DeleteKey, DeleteFails, CatalogueIInv, CatalogueTypes
<1>2. /\ t \in {NoPost} \cup WriterTasks
      /\ t # NoPost => t.step = "clear"
      /\ \A j \in writer[w].due \ {k} : t # NoPost /\ j \in t.due
  BY <1>1, ClearedOwesTheRest
<1>3. writer' = [writer EXCEPT ![w] = t] /\ product' = product
  BY DEF DeleteKey, DeleteFails
<1>4. DOMAIN entry' = Keys /\ (entry'[k] = NoPost \/ k \in missed')
  BY DEF DeleteKey, DeleteFails, CatalogueIInv, CatalogueTypes
<1>5. \A j \in Keys \ {k} : /\ entry'[j] = entry[j]
                            /\ j \in overlapped => j \in overlapped'
                            /\ j \in missed => j \in missed'
  BY DEF DeleteKey, DeleteFails, CatalogueIInv, CatalogueTypes
<1>6. \A j \in Keys \ {k} : Owes(w, j) => t # NoPost /\ t.step # "loaded" /\ j \in t.due
  BY <1>2 DEF Owes
<1>7. \A j \in Keys : \/ entry'[j] = NoPost
                      \/ j \in missed'
                      \/ /\ entry'[j] = entry[j]
                         /\ j \in overlapped => j \in overlapped'
                         /\ j \in missed => j \in missed'
                         /\ Owes(w, j) => t # NoPost /\ t.step # "loaded" /\ j \in t.due
  <2> SUFFICES ASSUME NEW j \in Keys, entry'[j] # NoPost, j \notin missed'
               PROVE  /\ entry'[j] = entry[j]
                      /\ j \in overlapped => j \in overlapped'
                      /\ j \in missed => j \in missed'
                      /\ Owes(w, j) => t # NoPost /\ t.step # "loaded" /\ j \in t.due
    OBVIOUS
  <2>1. j \in Keys \ {k}
    BY <1>4
  <2> QED
    BY <2>1, <1>5, <1>6
<1> QED
  BY <1>2, <1>3, <1>4, <1>7, WriterMoves

LEMMA WriterEndsKeeps ==
  ASSUME CatalogueIInv, NEW w \in Writers, WriterEnds(w)
  PROVE  CatalogueIInv'
<1>1. writer' = [writer EXCEPT ![w] = NoPost] /\ UNCHANGED <<product, entry, overlapped>> /\ missed \subseteq missed'
  BY DEF WriterEnds
<1>2. \A k \in Keys : Owes(w, k) => k \in missed'
  BY DEF WriterEnds, Owes
<1> QED
  BY <1>1, <1>2, WriterMoves DEF CatalogueIInv, CatalogueTypes

LEMMA StoreEntryKeeps ==
  ASSUME CatalogueIInv, NEW r \in Readers, StoreEntry(r)
  PROVE  CatalogueIInv'
<1> PICK k : k = reader[r].key
  OBVIOUS
<1> PICK e : e = [value |-> reader[r].seen]
  OBVIOUS
<1>1. UNCHANGED <<product, writer>>
  BY DEF StoreEntry
<1>2. CASE UNCHANGED <<entry, overlapped, missed>>
  BY <1>1, <1>2 DEF CatalogueIInv, CatalogueTypes, WritersOweAll, CacheIsCurrent, WillDelete, View
<1>3. CASE /\ entry' = [entry EXCEPT ![k] = e]
           /\ overlapped' = IF e.value # View(k, product) THEN overlapped \cup {k} ELSE overlapped \ {k}
           /\ missed' = missed \ {k}
  <2>1. CASE k \in Keys
    <3>1. DOMAIN entry' = Keys /\ entry'[k] = e /\ \A j \in Keys \ {k} : entry'[j] = entry[j]
      BY <1>3, <2>1 DEF CatalogueIInv, CatalogueTypes
    <3>2. entry'[k].value = View(k, product) \/ k \in overlapped'
      BY <1>3, <3>1
    <3>3. \A j \in Keys \ {k} : (j \in overlapped => j \in overlapped') /\ (j \in missed => j \in missed')
      BY <1>3
    <3> QED
      BY <1>1, <2>1, <3>1, <3>2, <3>3, EntryMoves
  <2>2. CASE k \notin Keys
    <3>1. /\ DOMAIN entry' = Keys /\ \A j \in Keys : entry'[j] = entry[j]
      BY <1>3, <2>2 DEF CatalogueIInv, CatalogueTypes
    <3>2. \A j \in Keys : (j \in overlapped => j \in overlapped') /\ (j \in missed => j \in missed')
      BY <1>3, <2>2
    <3> QED
      BY <1>1, <3>1, <3>2 DEF CatalogueIInv, CatalogueTypes, WritersOweAll, CacheIsCurrent, WillDelete, View
  <2> QED
    BY <2>1, <2>2
<1>4. \/ UNCHANGED <<entry, overlapped, missed>>
      \/ /\ entry' = [entry EXCEPT ![k] = e]
         /\ overlapped' = IF e.value # View(k, product) THEN overlapped \cup {k} ELSE overlapped \ {k}
         /\ missed' = missed \ {k}
  BY DEF StoreEntry
<1> QED
  BY <1>2, <1>3, <1>4

LEMMA CatalogueStep == CatalogueIInv /\ [CatalogueNext]_catalogueVars => CatalogueIInv'
<1> SUFFICES ASSUME CatalogueIInv, [CatalogueNext]_catalogueVars PROVE CatalogueIInv'
  OBVIOUS
<1>1. ASSUME NEW w \in Writers, NEW effect \in Effects, NEW text \in Texts, LoadProduct(w, effect, text)
      PROVE  CatalogueIInv'
  BY <1>1, LoadProductKeeps
<1>2. ASSUME NEW w \in Writers, Unsuitable(w) \/ WriteProduct(w) \/ Published(w) \/ WriterEnds(w)
      PROVE  CatalogueIInv'
  BY <1>2, UnsuitableKeeps, WriteProductKeeps, PublishedKeeps, WriterEndsKeeps
<1>3. ASSUME NEW w \in Writers, NEW k \in Keys, DeleteKey(w, k) \/ DeleteFails(w, k) PROVE CatalogueIInv'
  BY <1>3, DeleteKeeps
<1>4. ASSUME UNCHANGED <<product, writer, entry, overlapped, missed>> PROVE CatalogueIInv'
  BY <1>4 DEF CatalogueIInv, CatalogueTypes, WritersOweAll, CacheIsCurrent, WillDelete, View
<1>5. ASSUME NEW r \in Readers, StoreFails(r) \/ \E k \in Keys, known \in BOOLEAN : ReadProduct(r, k, known)
      PROVE  CatalogueIInv'
  BY <1>4, <1>5 DEF StoreFails, ReadProduct
<1>6. ASSUME NEW r \in Readers, StoreEntry(r) PROVE CatalogueIInv'
  BY <1>6, StoreEntryKeeps
<1>7. ASSUME NEW k \in Keys, EntryExpires(k) PROVE CatalogueIInv'
  <2>1. UNCHANGED <<product, writer>> /\ DOMAIN entry' = Keys /\ entry'[k] = NoPost
    BY <1>7 DEF EntryExpires, CatalogueIInv, CatalogueTypes
  <2>2. \A j \in Keys \ {k} : /\ entry'[j] = entry[j]
                              /\ j \in overlapped => j \in overlapped'
                              /\ j \in missed => j \in missed'
    BY <1>7 DEF EntryExpires, CatalogueIInv, CatalogueTypes
  <2> QED
    BY <2>1, <2>2, EntryMoves
<1>8. CASE UNCHANGED catalogueVars
  BY <1>4, <1>8 DEF catalogueVars
<1> QED
  BY <1>1, <1>2, <1>3, <1>5, <1>6, <1>7, <1>8 DEF CatalogueNext

LEMMA CatalogueInvariant == CatalogueSpec => []CatalogueIInv
  BY CatalogueStarts, CatalogueStep, PTL DEF CatalogueSpec

\* However many writers and readers race: what Redis answers for a key differs from
\* the database only while a writer is on its way to delete it, after a reader stored
\* what a write had overtaken, or after a failure kept a writer from deleting it.
THEOREM CopiesAreCurrent == CatalogueSpec => []CacheIsCurrent
  BY CatalogueInvariant, PTL DEF CatalogueIInv

-----------------------------------------------------------------------------
(* The reviews of Reviews, for any orders, students and requests at a time. *)

ReviewsSpec == ReviewsInit /\ [][ReviewsNext]_reviewVars

ReviewRowsTypeOK ==
  /\ sold \in [DOMAIN Sales -> Doc] /\ atFault \subseteq DOMAIN Sales
  /\ reviews \subseteq Review
  /\ posting \in [ReviewWorkers -> Posting \cup {NoReview}]
  /\ entitled \subseteq ReviewWorkers

\* A request that is due now has met a moment at which it was.
DueIsSeen ==
  \A w \in ReviewWorkers :
    posting[w] # NoReview /\ Due(posting[w].orderId, posting[w].buyerId, sold, atFault)
      => w \in entitled

\* A request order-service has answered for has met such a moment, by the buyer
\* of the order and for its product.
VerifiedWasDue ==
  \A w \in ReviewWorkers :
    posting[w] # NoReview /\ posting[w].at = "create"
      => /\ w \in entitled
         /\ posting[w].buyerId = Sales[posting[w].orderId].buyer
         /\ posting[w].productId = Sales[posting[w].orderId].product

ReviewsIInv == ReviewRowsTypeOK /\ DueIsSeen /\ VerifiedWasDue /\ ReviewsAreEarned

LEMMA ReviewsInitIInv == ReviewsInit => ReviewsIInv
  <1> SUFFICES ASSUME ReviewsInit PROVE ReviewsIInv
    OBVIOUS
  <1>1. ReviewRowsTypeOK
    BY DEF ReviewsInit, ReviewRowsTypeOK, NewDoc, Doc, Statuses
  <1> QED
    BY <1>1 DEF ReviewsInit, ReviewsIInv, DueIsSeen, VerifiedWasDue, ReviewsAreEarned

\* What order-service answers for is due.
LEMMA EligibleIsDue ==
  ASSUME ReviewRowsTypeOK, NEW o \in DOMAIN Sales, NEW user, Eligible(o, user, sold, atFault)
  PROVE  Due(o, user, sold, atFault)
  <1>1. sold[o] \in Doc
    BY DEF ReviewRowsTypeOK
  <1>2. sold[o].paymentStatus \in {"UNPAID", "PAID", "REFUNDED"}
    BY <1>1 DEF Doc
  <1> QED
    BY <1>2 DEF Eligible, Due

LEMMA OrderMovesKeeps ==
  ASSUME ReviewsIInv, NEW o \in DOMAIN Sales, NEW op \in RequestOps, OrderMoves(o, op)
  PROVE  ReviewsIInv'
  <1>1. PICK d \in Saves(op, sold[o]) : sold' = [sold EXCEPT ![o] = d]
    BY DEF OrderMoves
  <1>2. sold[o] \in Doc
    BY DEF ReviewsIInv, ReviewRowsTypeOK
  <1>3. d \in Doc
    BY <1>1, <1>2, RequestFacts DEF Follows
  <1>4. atFault' \subseteq DOMAIN Sales
    BY DEF OrderMoves, ReviewsIInv, ReviewRowsTypeOK
  <1>5. /\ reviews' = reviews /\ posting' = posting
        /\ entitled' = entitled \cup
             {w \in ReviewWorkers : posting[w] # NoReview
                                    /\ Due(posting[w].orderId, posting[w].buyerId, sold', atFault')}
    BY DEF OrderMoves
  <1>6. ReviewRowsTypeOK'
    BY <1>1, <1>3, <1>4, <1>5 DEF ReviewsIInv, ReviewRowsTypeOK
  <1>7. DueIsSeen'
    BY <1>5 DEF DueIsSeen
  <1>8. VerifiedWasDue' /\ ReviewsAreEarned'
    BY <1>5 DEF ReviewsIInv, VerifiedWasDue, ReviewsAreEarned
  <1> QED
    BY <1>6, <1>7, <1>8 DEF ReviewsIInv

LEMMA PostReviewKeeps ==
  ASSUME ReviewsIInv, NEW w \in ReviewWorkers, NEW user \in Reviewers, NEW ware \in Wares,
         NEW o \in DOMAIN Sales, PostReview(w, user, ware, o)
  PROVE  ReviewsIInv'
  <1> DEFINE p == [at |-> "exists", orderId |-> o, buyerId |-> user, productId |-> ware]
  <1>1. p \in Posting /\ p.at = "exists" /\ p.orderId = o /\ p.buyerId = user
    BY DEF Posting
  <1>2. /\ posting' = [posting EXCEPT ![w] = p]
        /\ entitled' = IF Due(o, user, sold, atFault) THEN entitled \cup {w} ELSE entitled \ {w}
        /\ UNCHANGED <<sold, atFault, reviews>>
    BY DEF PostReview
  <1> HIDE DEF p
  <1>3. ReviewRowsTypeOK'
    BY <1>1, <1>2 DEF ReviewsIInv, ReviewRowsTypeOK
  <1>4. posting'[w] = p /\ \A v \in ReviewWorkers \ {w} : posting'[v] = posting[v]
                                                          /\ (v \in entitled' <=> v \in entitled)
    BY <1>2 DEF ReviewsIInv, ReviewRowsTypeOK
  <1>5. ASSUME NEW v \in ReviewWorkers, posting'[v] # NoReview,
               Due(posting'[v].orderId, posting'[v].buyerId, sold', atFault')
        PROVE  v \in entitled'
    <2>1. CASE v = w
      BY <1>1, <1>2, <1>4, <1>5, <2>1
    <2>2. CASE v # w
      <3>1. Due(posting[v].orderId, posting[v].buyerId, sold, atFault) /\ posting[v] # NoReview
        BY <1>2, <1>4, <1>5, <2>2
      <3> QED
        BY <1>4, <2>2, <3>1 DEF ReviewsIInv, DueIsSeen
    <2> QED
      BY <2>1, <2>2
  <1>6. VerifiedWasDue'
    BY <1>1, <1>4 DEF ReviewsIInv, VerifiedWasDue
  <1>7. ReviewsAreEarned'
    BY <1>2 DEF ReviewsIInv, ReviewsAreEarned
  <1>8. DueIsSeen'
    BY <1>5 DEF DueIsSeen
  <1> QED
    BY <1>3, <1>6, <1>7, <1>8 DEF ReviewsIInv

\* A request that goes on keeps what it asked for; the others are untouched.
LEMMA GoesKeeps ==
  ASSUME ReviewsIInv, NEW w \in ReviewWorkers, posting[w] # NoReview,
         NEW at \in {"exists", "verify", "create"}, Goes(w, at),
         UNCHANGED <<sold, atFault, reviews, entitled>>,
         at = "create" => /\ w \in entitled
                          /\ posting[w].buyerId = Sales[posting[w].orderId].buyer
                          /\ posting[w].productId = Sales[posting[w].orderId].product
  PROVE  ReviewsIInv'
  <1>1. posting[w] \in Posting /\ posting' = [posting EXCEPT ![w] = [posting[w] EXCEPT !.at = at]]
    BY DEF ReviewsIInv, ReviewRowsTypeOK, Goes
  <1>2. /\ posting'[w] \in Posting /\ posting'[w].at = at
        /\ posting'[w].orderId = posting[w].orderId
        /\ posting'[w].buyerId = posting[w].buyerId
        /\ posting'[w].productId = posting[w].productId
        /\ \A v \in ReviewWorkers \ {w} : posting'[v] = posting[v]
    BY <1>1 DEF ReviewsIInv, ReviewRowsTypeOK, Posting
  <1>3. ReviewRowsTypeOK'
    BY <1>1, <1>2 DEF ReviewsIInv, ReviewRowsTypeOK
  <1>4. ASSUME NEW v \in ReviewWorkers, posting'[v] # NoReview,
               Due(posting'[v].orderId, posting'[v].buyerId, sold', atFault')
        PROVE  v \in entitled'
    <2>1. /\ posting'[v].orderId = posting[v].orderId /\ posting'[v].buyerId = posting[v].buyerId
          /\ posting[v] # NoReview
      BY <1>2, <1>4
    <2>2. Due(posting[v].orderId, posting[v].buyerId, sold, atFault)
      BY <1>4, <2>1
    <2> QED
      BY <2>1, <2>2 DEF ReviewsIInv, DueIsSeen
  <1>5. VerifiedWasDue'
    BY <1>2 DEF ReviewsIInv, VerifiedWasDue
  <1>6. ReviewsAreEarned'
    BY DEF ReviewsIInv, ReviewsAreEarned
  <1>7. DueIsSeen'
    BY <1>4 DEF DueIsSeen
  <1> QED
    BY <1>3, <1>5, <1>6, <1>7 DEF ReviewsIInv

\* A request that ends leaves the others as they are.
LEMMA EndsKeeps ==
  ASSUME ReviewsIInv, NEW w \in ReviewWorkers, Ends(w), UNCHANGED <<sold, atFault, entitled>>
  PROVE  /\ DueIsSeen' /\ VerifiedWasDue'
         /\ posting' \in [ReviewWorkers -> Posting \cup {NoReview}]
  <1>1. /\ posting' \in [ReviewWorkers -> Posting \cup {NoReview}]
        /\ posting'[w] = NoReview /\ \A v \in ReviewWorkers \ {w} : posting'[v] = posting[v]
    BY DEF ReviewsIInv, ReviewRowsTypeOK, Ends
  <1>2. VerifiedWasDue'
    BY <1>1 DEF ReviewsIInv, VerifiedWasDue
  <1>3. ASSUME NEW v \in ReviewWorkers, posting'[v] # NoReview,
               Due(posting'[v].orderId, posting'[v].buyerId, sold', atFault')
        PROVE  v \in entitled'
    <2>1. posting'[v] = posting[v] /\ posting[v] # NoReview
      BY <1>1, <1>3
    <2>2. Due(posting[v].orderId, posting[v].buyerId, sold, atFault)
      BY <1>3, <2>1
    <2> QED
      BY <2>1, <2>2 DEF ReviewsIInv, DueIsSeen
  <1>4. DueIsSeen'
    BY <1>3 DEF DueIsSeen
  <1> QED
    BY <1>1, <1>2, <1>4

LEMMA RefusalKeeps ==
  ASSUME ReviewsIInv, NEW w \in ReviewWorkers, Ends(w),
         UNCHANGED <<sold, atFault, entitled>>, reviews' = reviews
  PROVE  ReviewsIInv'
  BY EndsKeeps DEF ReviewsIInv, ReviewRowsTypeOK, ReviewsAreEarned

LEMMA FindExistingKeeps ==
  ASSUME ReviewsIInv, NEW w \in ReviewWorkers, FindExisting(w)
  PROVE  ReviewsIInv'
  <1>1. CASE Ends(w)
    BY <1>1, RefusalKeeps DEF FindExisting
  <1>2. CASE Goes(w, "verify")
    BY <1>2, GoesKeeps DEF FindExisting
  <1> QED
    BY <1>1, <1>2 DEF FindExisting

LEMMA VerifyCompletedOrderKeeps ==
  ASSUME ReviewsIInv, NEW w \in ReviewWorkers, VerifyCompletedOrder(w)
  PROVE  ReviewsIInv'
  <1> DEFINE p == posting[w]
  <1>1. CASE Ends(w)
    BY <1>1, RefusalKeeps DEF VerifyCompletedOrder
  <1>2. CASE /\ Eligible(p.orderId, p.buyerId, sold, atFault)
             /\ Sales[p.orderId].product = p.productId
             /\ Goes(w, "create")
    <2>1. p # NoReview /\ UNCHANGED <<sold, atFault, reviews, entitled>>
      BY DEF VerifyCompletedOrder
    <2>2. p.orderId \in DOMAIN Sales
      BY <2>1 DEF ReviewsIInv, ReviewRowsTypeOK, Posting
    <2>3. Due(p.orderId, p.buyerId, sold, atFault)
      BY <1>2, <2>2, EligibleIsDue DEF ReviewsIInv
    <2>4. w \in entitled
      BY <2>1, <2>3 DEF ReviewsIInv, DueIsSeen
    <2>5. p.buyerId = Sales[p.orderId].buyer
      BY <1>2 DEF Eligible
    <2> QED
      BY <1>2, <2>1, <2>4, <2>5, GoesKeeps
  <1> QED
    BY <1>1, <1>2 DEF VerifyCompletedOrder

LEMMA CreateReviewKeeps ==
  ASSUME ReviewsIInv, NEW w \in ReviewWorkers, CreateReview(w)
  PROVE  ReviewsIInv'
  <1> DEFINE p == posting[w]
             r == [orderId |-> p.orderId, buyerId |-> p.buyerId, productId |-> p.productId,
                   due |-> w \in entitled]
  <1>1. p \in Posting /\ p # NoReview /\ p.at = "create"
    BY DEF CreateReview, ReviewsIInv, ReviewRowsTypeOK
  <1>2. /\ w \in entitled /\ p.buyerId = Sales[p.orderId].buyer
        /\ p.productId = Sales[p.orderId].product
    BY <1>1 DEF ReviewsIInv, VerifiedWasDue
  <1>3. Ends(w) /\ UNCHANGED <<sold, atFault, entitled>>
    BY DEF CreateReview
  <1>4. /\ DueIsSeen' /\ VerifiedWasDue'
        /\ posting' \in [ReviewWorkers -> Posting \cup {NoReview}]
    BY <1>3, EndsKeeps
  <1>5. reviews' \subseteq Review /\ ReviewsAreEarned'
    <2>1. CASE ReviewedBefore(p.orderId)
      BY <2>1 DEF CreateReview, ReviewsIInv, ReviewRowsTypeOK, ReviewsAreEarned
    <2>2. CASE ~ReviewedBefore(p.orderId)
      <3>1. reviews' = reviews \cup {r}
        BY <2>2 DEF CreateReview
      <3>2. r \in Review
        BY <1>1, <1>2 DEF Posting, Review
      <3>3. /\ r.buyerId = Sales[r.orderId].buyer /\ r.productId = Sales[r.orderId].product
            /\ r.due /\ \A other \in reviews : other.orderId # r.orderId
        BY <1>2, <2>2 DEF ReviewedBefore
      <3> HIDE DEF r
      <3>4. ReviewsAreEarned'
        BY <3>1, <3>3 DEF ReviewsIInv, ReviewsAreEarned
      <3> QED
        BY <3>1, <3>2, <3>4 DEF ReviewsIInv, ReviewRowsTypeOK
    <2> QED
      BY <2>1, <2>2
  <1> QED
    BY <1>3, <1>4, <1>5 DEF ReviewsIInv, ReviewRowsTypeOK

LEMMA ReviewsNextIInv == ReviewsIInv /\ [ReviewsNext]_reviewVars => ReviewsIInv'
  <1> SUFFICES ASSUME ReviewsIInv, [ReviewsNext]_reviewVars PROVE ReviewsIInv'
    OBVIOUS
  <1>1. CASE UNCHANGED reviewVars
    BY <1>1 DEF reviewVars, ReviewsIInv, ReviewRowsTypeOK, DueIsSeen, VerifiedWasDue,
                ReviewsAreEarned, Due
  <1>2. CASE ReviewsNext
    BY <1>2, OrderMovesKeeps, PostReviewKeeps, FindExistingKeeps, VerifyCompletedOrderKeeps,
       CreateReviewKeeps DEF ReviewsNext
  <1> QED
    BY <1>1, <1>2

\* Whatever is sent, by however many at a time, and however the orders go on
\* between the questions createReview asks.
THEOREM EveryReviewIsEarned == ReviewsSpec => []ReviewsAreEarned
  <1>1. ReviewsIInv => ReviewsAreEarned
    BY DEF ReviewsIInv
  <1> QED
    BY ReviewsInitIInv, ReviewsNextIInv, <1>1, PTL DEF ReviewsSpec

-----------------------------------------------------------------------------
(* The parts together, as the run market explores them.                     *)

LEMMA MarketHasSession == MarketSpec => Spec
<1>1. MarketInit => Init
  BY DEF MarketInit
<1>2. [MarketNext]_marketVars => [Next]_vars
  BY DEF MarketNext, marketVars
<1> QED
  BY <1>1, <1>2, PTL DEF MarketSpec, Spec

LEMMA MarketHasOffers == MarketSpec => OffersSpec
<1>1. MarketInit => OffersInit
  BY DEF MarketInit
<1>2. [MarketNext]_marketVars => [OffersNext]_offerVars
  BY DEF MarketNext, marketVars
<1> QED
  BY <1>1, <1>2, PTL DEF MarketSpec, OffersSpec

LEMMA MarketHasPage == MarketSpec => PageSpec
<1>1. MarketInit => PageInit
  BY DEF MarketInit
<1>2. [MarketNext]_marketVars => [PageNext]_pageVars
  BY DEF MarketNext, marketVars
<1> QED
  BY <1>1, <1>2, PTL DEF MarketSpec, PageSpec

LEMMA MarketHasReports == MarketSpec => ReportsSpec
<1>1. MarketInit => ReportsInit
  BY DEF MarketInit
<1>2. [MarketNext]_marketVars => [ReportsNext]_reportVars
  BY DEF MarketNext, marketVars
<1> QED
  BY <1>1, <1>2, PTL DEF MarketSpec, ReportsSpec

LEMMA MarketHasCatalogue == MarketSpec => CatalogueSpec
<1>1. MarketInit => CatalogueInit
  BY MarketAssumption DEF MarketInit, CatalogueInit
<1>2. [MarketNext]_marketVars => [CatalogueNext]_catalogueVars
  BY DEF MarketNext, marketVars
<1> QED
  BY <1>1, <1>2, PTL DEF MarketSpec, CatalogueSpec

LEMMA MarketHasReviews == MarketSpec => ReviewsSpec
<1>1. MarketInit => ReviewsInit
  BY DEF MarketInit
<1>2. [MarketNext]_marketVars => [ReviewsNext]_reviewVars
  BY DEF MarketNext, marketVars
<1> QED
  BY <1>1, <1>2, PTL DEF MarketSpec, ReviewsSpec

\* The specification that the run explores keeps what each of its parts keeps: the
\* invariants of the account, the session, the offers, the page, the reports, the
\* cache and the reviews hold of them together.
THEOREM MarketKeepsItsParts ==
  MarketSpec => [](/\ GuessesAreBounded /\ RevokedStaysRevoked /\ KeepsSession /\ NothingWaitsInVain
                   /\ DecisionsStand /\ OneOfferPerBuyer /\ ButtonsAreHonoured
                   /\ SanctionsHold /\ CacheIsCurrent /\ ReviewsAreEarned)
  BY MarketHasSession, MarketHasOffers, MarketHasPage, MarketHasReports, MarketHasCatalogue, MarketHasReviews,
     CodesDie, RevocationsHold, SessionsAreKept, CallsAreSeenOff, DecisionsAreFinal, BuyersBidOnce,
     PageAgreesWithServer, SettlementsHold, CopiesAreCurrent, EveryReviewIsEarned, PTL
===============================================================================
