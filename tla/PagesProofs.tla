----------------------------- MODULE PagesProofs ------------------------------
(***************************************************************************)
(* What holds of the pages of the browser and of the gateway they talk to, *)
(* however many requests are under way and whatever bounds the runs set.   *)
(***************************************************************************)
EXTENDS Browse, Favourites, Gateway, Bell, Assistant, SequenceTheorems, FiniteSetTheorems, TLAPS

-----------------------------------------------------------------------------
(* Browse.                                                                 *)

BrowseSpec == BrowseInit /\ [][BrowseNext]_browseVars

BrowseTypes ==
  /\ query \in Queries /\ address \in Queries /\ moving \in Queries
  /\ search \in SearchTexts /\ timer \in BOOLEAN /\ asked \in Nat

\* The copies: the page is one of the query's search and filters, the router is
\* taking the query to the address or is on its way elsewhere, and the box holds the
\* query or the timer runs.
CopiesFollow ==
  /\ query.page # 0 => pageFor = Chosen(query)
  /\ moving = query \/ moving # address
  /\ timer \/ search = query.text

\* The query asked last is the current one, on its way or shown.
LastAskedIsCurrent ==
  /\ \A c \in asking : c.n \in Nat /\ c.n <= asked /\ (c.n = asked => c.query = query)
  /\ shownQuery.n \in Nat /\ shownQuery.n <= asked
  /\ shownQuery.n = asked => shownQuery.query \in {query, NoQuery}

BrowseIInv == BrowseTypes /\ CopiesFollow /\ LastAskedIsCurrent

\* A query back on its first page.
LEMMA FirstPage ==
  ASSUME NEW q \in Queries
  PROVE  LET final == [q EXCEPT !.page = 0]
         IN  final \in Queries /\ final.page = 0 /\ Chosen(final) = Chosen(q) /\ final.text = q.text
  <1>2. 0 \in Pages
    BY BrowseAssumption DEF Pages
  <1> QED
    BY <1>2 DEF Queries, Chosen

\* Two queries asked for one after the other.
LEMMA AskingTwo ==
  ASSUME NEW a, NEW b, NEW n \in Nat
  PROVE  LET qs == <<a>> \o <<b>>
         IN  /\ Len(qs) = 2 /\ qs # <<>>
             /\ \A c \in Asking(n, qs) : c.n \in {n + 1, n + 2} /\ (c.n = n + 2 => c.query = b)
  <1> DEFINE qs == <<a>> \o <<b>>
  <1>1. Len(qs) = 2 /\ qs[2] = b /\ qs \in Seq({a, b})
    OBVIOUS
  <1>2. DOMAIN qs = 1..2 /\ qs # <<>>
    BY <1>1
  <1> HIDE DEF qs
  <1>3. \A c \in Asking(n, qs) : \E i \in 1..2 : c.n = n + i /\ c.query = qs[i]
    BY <1>2 DEF Asking
  <1>4. \A c \in Asking(n, qs) : c.n \in {n + 1, n + 2} /\ (c.n = n + 2 => c.query = b)
    BY <1>1, <1>3
  <1> QED
    BY <1>1, <1>2, <1>4 DEF qs

LEMMA BrowseInitIInv == BrowseInit => BrowseIInv
  <1> SUFFICES ASSUME BrowseInit PROVE BrowseIInv
    OBVIOUS
  <1>1. PICK a \in Queries :
          /\ address = a /\ search = a.text /\ timer = FALSE
          /\ query = [a EXCEPT !.page = 0] /\ moving = [a EXCEPT !.page = 0]
          /\ LET qs == <<a>> \o (IF a.page # 0 THEN <<[a EXCEPT !.page = 0]>> ELSE <<>>)
             IN  asking = Asking(0, qs) /\ asked = Len(qs)
          /\ shownQuery = [n |-> 0, query |-> NoQuery] /\ pageFor = Chosen(a)
    BY DEF BrowseInit
  <1>2. /\ query \in Queries /\ query.page = 0 /\ query.text = a.text /\ moving = query
        /\ a.page = 0 => query = a
    BY <1>1, FirstPage DEF Queries
  <1>5. asked \in Nat => BrowseTypes /\ CopiesFollow
    <2>1. address = a /\ search = a.text /\ timer = FALSE /\ a.text \in SearchTexts
      BY <1>1 DEF Queries
    <2> QED
      BY <1>2, <2>1 DEF BrowseTypes, CopiesFollow
  <1>3. CASE a.page = 0
    <2>1. asking = Asking(0, <<a>>) /\ asked = 1
      BY <1>1, <1>3
    <2>2. \A c \in asking : c.n = 1 /\ c.query = query
      BY <1>2, <1>3, <2>1 DEF Asking
    <2>3. LastAskedIsCurrent
      BY <1>1, <2>1, <2>2 DEF LastAskedIsCurrent
    <2> QED
      BY <1>5, <2>1, <2>3 DEF BrowseIInv
  <1>4. CASE a.page # 0
    <2>1. asking = Asking(0, <<a>> \o <<query>>) /\ asked = Len(<<a>> \o <<query>>)
      BY <1>1, <1>4
    <2>2. asked = 2 /\ \A c \in asking : c.n \in {1, 2} /\ (c.n = 2 => c.query = query)
      BY <2>1, AskingTwo
    <2>3. LastAskedIsCurrent
      BY <1>1, <2>2 DEF LastAskedIsCurrent
    <2> QED
      BY <1>5, <2>2, <2>3 DEF BrowseIInv
  <1> QED
    BY <1>3, <1>4

\* What the effects leave behind, whatever the component's query became.
LEMMA EffectsOf ==
  ASSUME BrowseIInv, NEW q \in Queries, Effects(q)
  PROVE  /\ query' \in Queries /\ query'.text = q.text /\ moving' \in Queries /\ asked' \in Nat
         /\ query'.page # 0 => pageFor' = Chosen(query')
         /\ moving' = query' \/ (moving' = moving /\ query' = query /\ q = query)
         /\ \A c \in asking' : c.n \in Nat /\ c.n <= asked' /\ (c.n = asked' => c.query = query')
         /\ shownQuery.n <= asked'
         /\ shownQuery.n = asked' => shownQuery.query \in {query', NoQuery}
  <1>1. PICK final : final = Settled(query, q)
    OBVIOUS
  <1>2. /\ final \in Queries /\ final.text = q.text /\ Chosen(final) = Chosen(q)
        /\ final = q \/ final.page = 0
        /\ Chosen(q) = Chosen(query) => final = q
        /\ Chosen(q) # Chosen(query) => final.page = 0
    BY <1>1, FirstPage DEF Settled, BrowseIInv, BrowseTypes
  <1>3. PICK qs : qs = (IF q # query THEN <<q>> ELSE <<>>) \o (IF final # q THEN <<final>> ELSE <<>>)
    OBVIOUS
  <1>4. /\ query' = final /\ asking' = asking \cup Asking(asked, qs) /\ asked' = asked + Len(qs)
        /\ moving' = IF qs = <<>> THEN moving ELSE final
        /\ pageFor' = IF q.page # query.page \/ final.page = 0 THEN Chosen(final) ELSE pageFor
    BY <1>1, <1>3 DEF Effects
  <1>5. query'.page # 0 => pageFor' = Chosen(query')
    BY <1>2, <1>4 DEF BrowseIInv, CopiesFollow
  <1>6. /\ asked \in Nat /\ shownQuery.n \in Nat /\ shownQuery.n <= asked
        /\ \A c \in asking : c.n \in Nat /\ c.n <= asked
    BY DEF BrowseIInv, BrowseTypes, LastAskedIsCurrent
  <1>7. CASE q = query
    <2>1. final = q /\ qs = <<>>
      BY <1>2, <1>3, <1>7
    <2>2. Asking(asked, qs) = {} /\ Len(qs) = 0
      BY <2>1 DEF Asking
    <2> QED
      BY <1>2, <1>4, <1>5, <1>6, <1>7, <2>1, <2>2 DEF BrowseIInv, BrowseTypes, LastAskedIsCurrent
  <1>8. CASE q # query /\ final = q
    <2>1. qs = <<q>> /\ Len(qs) = 1 /\ qs # <<>>
      BY <1>3, <1>8
    <2>2. \A c \in Asking(asked, qs) : c.n = asked + 1 /\ c.query = final
      BY <1>8, <2>1 DEF Asking
    <2>3. asked' = asked + 1 /\ moving' = final
      BY <1>4, <2>1
    <2>4. \A c \in asking' : c \in asking \/ (c.n = asked + 1 /\ c.query = final)
      BY <1>4, <2>2
    <2> QED
      BY <1>2, <1>4, <1>5, <1>6, <2>3, <2>4
  <1>9. CASE q # query /\ final # q
    <2>1. qs = <<q>> \o <<final>>
      BY <1>3, <1>9
    <2>2. /\ Len(qs) = 2 /\ qs # <<>>
          /\ \A c \in Asking(asked, qs) :
               c.n \in {asked + 1, asked + 2} /\ (c.n = asked + 2 => c.query = final)
      BY <1>6, <2>1, AskingTwo
    <2>3. asked' = asked + 2 /\ moving' = final
      BY <1>4, <2>2
    <2>4. \A c \in asking' :
            \/ c \in asking
            \/ c.n \in {asked + 1, asked + 2} /\ (c.n = asked + 2 => c.query = final)
      BY <1>4, <2>2
    <2> QED
      BY <1>2, <1>4, <1>5, <1>6, <2>3, <2>4
  <1> QED
    BY <1>7, <1>8, <1>9

LEMMA BrowseStep == BrowseIInv /\ [BrowseNext]_browseVars => BrowseIInv'
  <1> SUFFICES ASSUME BrowseIInv, [BrowseNext]_browseVars PROVE BrowseIInv'
    OBVIOUS
  <1> USE DEF BrowseIInv, BrowseTypes
  <1>1. ASSUME NEW t \in SearchTexts, TypeInBox(t) PROVE BrowseIInv'
    BY <1>1 DEF TypeInBox, CopiesFollow, LastAskedIsCurrent
  <1>2. ASSUME NEW f \in Filters, SelectFilter(f) PROVE BrowseIInv'
    <2>1. PICK q : q = [query EXCEPT !.filter = f]
      OBVIOUS
    <2>2. q \in Queries /\ q.text = query.text /\ Effects(q) /\ q # query
      BY <1>2, <2>1 DEF Queries, SelectFilter
    <2>3. UNCHANGED <<search, timer, address, shownQuery>>
      BY <1>2 DEF SelectFilter
    <2> QED
      BY <2>2, <2>3, EffectsOf DEF CopiesFollow, LastAskedIsCurrent
  <1>3. ASSUME NEW p \in Pages, SelectPage(p) PROVE BrowseIInv'
    <2>1. PICK q : q = [query EXCEPT !.page = p]
      OBVIOUS
    <2>2. q \in Queries /\ q.text = query.text /\ Effects(q) /\ q # query
      BY <1>3, <2>1 DEF Queries, SelectPage
    <2>3. UNCHANGED <<search, timer, address, shownQuery>>
      BY <1>3 DEF SelectPage
    <2> QED
      BY <2>2, <2>3, EffectsOf DEF CopiesFollow, LastAskedIsCurrent
  <1>4. ASSUME NEW q \in Queries, Navigate(q) PROVE BrowseIInv'
    BY <1>4 DEF Navigate, CopiesFollow, LastAskedIsCurrent
  <1>5. ASSUME NEW c \in asking, TakeProducts(c) \/ FetchFails(c) PROVE BrowseIInv'
    <2>1. UNCHANGED <<search, query, timer, address, moving, asked, pageFor>> /\ asking' = asking \ {c}
          /\ (shownQuery' = c \/ shownQuery' = [n |-> c.n, query |-> NoQuery])
      BY <1>5 DEF TakeProducts, FetchFails
    <2>2. BrowseTypes' /\ CopiesFollow'
      BY <2>1 DEF CopiesFollow
    <2>3. LastAskedIsCurrent'
      BY <1>5, <2>1 DEF LastAskedIsCurrent
    <2> QED
      BY <2>2, <2>3
  <1>6. CASE Debounce
    <2>1. PICK q : q = [query EXCEPT !.text = search]
      OBVIOUS
    <2>2. q \in Queries /\ q.text = search /\ Effects(q) /\ ~timer' /\ timer' \in BOOLEAN
      BY <1>6, <2>1 DEF Queries, Debounce
    <2>3. UNCHANGED <<search, address, shownQuery>>
      BY <1>6 DEF Debounce
    <2> QED
      BY <2>2, <2>3, EffectsOf DEF CopiesFollow, LastAskedIsCurrent
  <1>7. CASE AddressMoves
    <2>1. Effects(moving) /\ address' = moving /\ search' = moving.text /\ timer' \in BOOLEAN
          /\ shownQuery' = shownQuery /\ moving.text \in SearchTexts
      BY <1>7 DEF AddressMoves, Queries
    <2> QED
      BY <2>1, EffectsOf DEF CopiesFollow, LastAskedIsCurrent
  <1>8. CASE UNCHANGED browseVars
    BY <1>8 DEF browseVars, CopiesFollow, LastAskedIsCurrent
  <1> QED
    BY <1>1, <1>2, <1>3, <1>4, <1>5, <1>6, <1>7, <1>8 DEF BrowseNext

\* The list of products: however typing, filters, pages and the back button interleave
\* with the timer and the router, for any texts, filters and pages and any number of
\* queries, the copies agree once nothing is under way (Products.tsx, the five effects).
THEOREM BrowseCopiesAgree == BrowseSpec => []CopiesAgree
  <1>1. BrowseIInv => CopiesAgree
    BY DEF BrowseIInv, BrowseTypes, CopiesFollow, LastAskedIsCurrent, CopiesAgree
  <1> QED
    BY <1>1, BrowseInitIInv, BrowseStep, PTL DEF BrowseSpec

\* Queries asked for, and those that what is under way will ask for at most: two by a
\* box that does not hold the query, two by an address on its way.
StillToAsk ==
  (IF timer /\ search # query.text THEN 2 ELSE 0) + (IF moving # address /\ moving # query THEN 2 ELSE 0)

BrowseBounded ==
  /\ asked + StillToAsk <= MaxBrowsed + 3
  /\ \A c \in asking : c.n \in 1..asked /\ c.query \in Queries
  /\ shownQuery.n \in 0..asked

\* A sequence of an element or of nothing.
LEMMA OneOrNone ==
  ASSUME NEW S, NEW b \in BOOLEAN, NEW e \in S
  PROVE  LET s == IF b THEN <<e>> ELSE <<>> IN s \in Seq(S) /\ Len(s) = IF b THEN 1 ELSE 0
<1>1. <<e>> \in Seq(S) /\ Len(<<e>>) = 1 /\ <<>> \in Seq(S) /\ Len(<<>>) = 0
  BY EmptySeq
<1>2. CASE b
  BY <1>1, <1>2
<1>3. CASE ~b
  BY <1>1, <1>3
<1> QED
  BY <1>2, <1>3

LEMMA AskingIs ==
  ASSUME NEW from \in Nat, NEW qs \in Seq(Queries), NEW c \in Asking(from, qs)
  PROVE  c.n \in 1..(from + Len(qs)) /\ c.query \in Queries
<1>1. PICK i \in DOMAIN qs : c = [n |-> from + i, query |-> qs[i]]
  BY DEF Asking
<1>2. i \in 1..Len(qs) /\ Len(qs) \in Nat /\ qs[i] \in Queries
  BY <1>1, ElementOfSeq, LenProperties
<1> QED
  BY <1>1, <1>2

\* What the effects of a query ask for, and where they take the copies.
LEMMA EffectsAsk ==
  ASSUME BrowseTypes, BrowseBounded, NEW q \in Queries, Effects(q)
  PROVE  /\ asked' \in Nat /\ asked <= asked' /\ asked' <= asked + 2 /\ query' \in Queries /\ query'.text = q.text
         /\ q = query => asked' = asked /\ moving' = moving /\ query' = query
         /\ q # query => moving' = query'
         /\ \A c \in asking' : c.n \in 1..asked' /\ c.query \in Queries
<1>1. PICK final : final = Settled(query, q)
  OBVIOUS
<1>2. final \in Queries /\ final.text = q.text /\ (q = query => final = q)
  BY <1>1, FirstPage DEF Settled
<1>3. PICK first \in Seq(Queries) : first = IF q # query THEN <<q>> ELSE <<>>
  BY OneOrNone
<1>4. PICK second \in Seq(Queries) : second = IF final # q THEN <<final>> ELSE <<>>
  BY <1>2, OneOrNone
<1>5. /\ Len(first) = IF q # query THEN 1 ELSE 0
      /\ Len(second) = IF final # q THEN 1 ELSE 0
  BY <1>3, <1>4, EmptySeq
<1>6. PICK qs \in Seq(Queries) : qs = first \o second
  BY ConcatProperties
<1>7. Len(qs) = Len(first) + Len(second) /\ (qs = <<>> <=> q = query)
  BY <1>2, <1>5, <1>6, ConcatProperties, EmptySeq
<1>8. /\ query' = final /\ asking' = asking \cup Asking(asked, qs) /\ asked' = asked + Len(qs)
      /\ moving' = IF qs = <<>> THEN moving ELSE final
  BY <1>1, <1>3, <1>4, <1>6 DEF Effects
<1>9. asked \in Nat /\ asked' \in Nat /\ asked <= asked' /\ asked' <= asked + 2
      /\ (q = query => asked' = asked)
  BY <1>2, <1>5, <1>7, <1>8 DEF BrowseTypes
<1>10. ASSUME NEW c \in asking' PROVE c.n \in 1..asked' /\ c.query \in Queries
  <2>1. CASE c \in asking
    BY <1>9, <2>1 DEF BrowseBounded
  <2>2. CASE c \in Asking(asked, qs)
    BY <1>8, <1>9, <2>2, AskingIs
  <2> QED
    BY <1>8, <1>10, <2>1, <2>2
<1> QED
  BY <1>2, <1>7, <1>8, <1>9, <1>10

LEMMA NumbersBounded ==
  ASSUME NEW m \in Nat, NEW a \in Nat, NEW b \in Nat, NEW s \in 0..4, NEW t \in 0..4, a + s <= m + 3,
         \/ b = a /\ (a < m \/ t <= s)
         \/ b <= a + 2 /\ a < m /\ t <= 2
         \/ b <= a + 2 /\ s >= 2 /\ t = 0
  PROVE  b + t <= m + 3
  OBVIOUS

\* With the effects of a query, the bound is a matter of numbers.
LEMMA BoundedAfterEffects ==
  ASSUME BrowseIInv, BrowseBounded, NEW q \in Queries, Effects(q), shownQuery' = shownQuery,
         asked' + StillToAsk' <= MaxBrowsed + 3
  PROVE  BrowseBounded'
<1>1. /\ \A c \in asking' : c.n \in 1..asked' /\ c.query \in Queries
      /\ asked' \in Nat /\ asked <= asked' /\ asked \in Nat
  BY EffectsAsk DEF BrowseIInv, BrowseTypes
<1>2. (shownQuery.n \in 0..asked)'
  BY <1>1 DEF BrowseBounded
<1> QED
  BY <1>1, <1>2 DEF BrowseBounded

LEMMA BrowseStaysBounded ==
  ASSUME BrowseIInv, BrowseBounded, [BrowseNext]_browseVars
  PROVE  BrowseBounded'
<1>1. /\ asked \in Nat /\ MaxBrowsed \in Nat /\ StillToAsk \in 0..4 /\ StillToAsk' \in 0..4
      /\ query \in Queries /\ address \in Queries /\ moving \in Queries /\ search \in SearchTexts
  BY BrowseAssumption DEF BrowseIInv, BrowseTypes, StillToAsk
<1>2. /\ asked + StillToAsk <= MaxBrowsed + 3
      /\ \A c \in asking : c.n \in 1..asked /\ c.query \in Queries
      /\ shownQuery.n \in 0..asked
  BY DEF BrowseBounded
<1>3. ASSUME UNCHANGED <<asking, asked, shownQuery>>, asked < MaxBrowsed \/ StillToAsk' = StillToAsk
      PROVE  BrowseBounded'
  <2>1. asked' + StillToAsk' <= MaxBrowsed + 3
    <3>1. asked + StillToAsk <= MaxBrowsed + 3
      BY <1>2
    <3>2. asked' = asked /\ asked' \in Nat /\ (asked < MaxBrowsed \/ StillToAsk' <= StillToAsk)
      BY <1>1, <1>3
    <3> QED
      BY <1>1, <3>1, <3>2, NumbersBounded
  <2> QED
    BY <1>2, <1>3, <2>1 DEF BrowseBounded
\* A filter or a page is chosen: two queries at most, and the address follows the last.
<1>4. ASSUME NEW q \in Queries, Browsing, Effects(q), UNCHANGED <<search, timer, address, shownQuery>>,
             q # query
      PROVE  BrowseBounded'
  <2>1. moving' = query' /\ asked' \in Nat /\ asked' <= asked + 2
    BY <1>2, <1>4, EffectsAsk DEF BrowseIInv, BrowseBounded
  <2>2. StillToAsk' \in {0, 2}
    BY <2>1 DEF StillToAsk
  <2>3. asked' + StillToAsk' <= MaxBrowsed + 3
    <3>1. asked + StillToAsk <= MaxBrowsed + 3 /\ asked < MaxBrowsed /\ StillToAsk' <= 2
      BY <1>2, <1>4, <2>2 DEF Browsing
    <3> QED
      BY <1>1, <2>1, <3>1, NumbersBounded
  <2> QED
    BY <1>4, <2>3, BoundedAfterEffects
\* The box or the address reaches the query: what it may ask for was counted.
<1>5. ASSUME NEW q \in Queries, Effects(q), shownQuery' = shownQuery, ~timer' \/ search' = q.text,
             q # query => StillToAsk >= 2,
             moving' = query' \/ (q = query /\ StillToAsk' <= StillToAsk)
      PROVE  BrowseBounded'
  <2>1. /\ asked' \in Nat /\ asked' <= asked + 2 /\ query'.text = q.text
        /\ q = query => asked' = asked
        /\ q # query => moving' = query'
    BY <1>5, EffectsAsk DEF BrowseIInv
  <2>2. moving' = query' => StillToAsk' = 0
    BY <1>5, <2>1 DEF StillToAsk
  <2>3. asked' + StillToAsk' <= MaxBrowsed + 3
    <3>1. asked + StillToAsk <= MaxBrowsed + 3
      BY <1>2
    <3>2. CASE q = query /\ StillToAsk' <= StillToAsk
      BY <1>1, <2>1, <3>1, <3>2, NumbersBounded
    <3>3. CASE q = query /\ moving' = query'
      <4>1. StillToAsk' <= StillToAsk
        BY <1>1, <2>2, <3>3
      <4> QED
        BY <1>1, <2>1, <3>1, <3>3, <4>1, NumbersBounded
    <3>4. CASE q # query
      BY <1>1, <1>5, <2>1, <2>2, <3>1, <3>4, NumbersBounded
    <3> QED
      BY <1>5, <3>2, <3>3, <3>4
  <2> QED
    BY <1>5, <2>3, BoundedAfterEffects
<1>6. ASSUME NEW t \in SearchTexts, TypeInBox(t) PROVE BrowseBounded'
  BY <1>3, <1>6 DEF TypeInBox, Browsing
<1>7. ASSUME NEW f \in Filters, SelectFilter(f) PROVE BrowseBounded'
  <2>1. PICK q : q = [query EXCEPT !.filter = f]
    OBVIOUS
  <2>2. q \in Queries /\ Effects(q) /\ q # query /\ Browsing /\ UNCHANGED <<search, timer, address, shownQuery>>
    BY <1>1, <1>7, <2>1 DEF Queries, SelectFilter
  <2> QED
    BY <1>4, <2>2
<1>8. ASSUME NEW p \in Pages, SelectPage(p) PROVE BrowseBounded'
  <2>1. PICK q : q = [query EXCEPT !.page = p]
    OBVIOUS
  <2>2. q \in Queries /\ Effects(q) /\ q # query /\ Browsing /\ UNCHANGED <<search, timer, address, shownQuery>>
    BY <1>1, <1>8, <2>1 DEF Queries, SelectPage
  <2> QED
    BY <1>4, <2>2
<1>9. ASSUME NEW q \in Queries, Navigate(q) PROVE BrowseBounded'
  BY <1>3, <1>9 DEF Navigate, Browsing
<1>10. ASSUME NEW c \in asking, TakeProducts(c) \/ FetchFails(c) PROVE BrowseBounded'
  <2>1. /\ UNCHANGED <<search, query, timer, address, moving, asked>> /\ asking' = asking \ {c}
        /\ shownQuery'.n = c.n
    BY <1>10 DEF TakeProducts, FetchFails
  <2>2. StillToAsk' = StillToAsk
    BY <2>1 DEF StillToAsk
  <2>3. c.n \in 0..asked
    BY <1>1, <1>2
  <2> QED
    BY <1>2, <2>1, <2>2, <2>3 DEF BrowseBounded
<1>11. CASE Debounce
  <2>1. PICK q : q = [query EXCEPT !.text = search]
    OBVIOUS
  <2>2. /\ q \in Queries /\ q.text = search /\ Effects(q) /\ timer /\ ~timer'
        /\ UNCHANGED <<search, address, shownQuery>>
    BY <1>1, <1>11, <2>1 DEF Queries, Debounce
  <2>3. q # query => search # query.text
    BY <1>1, <2>1 DEF Queries
  <2>4. q # query => StillToAsk >= 2
    BY <2>2, <2>3 DEF StillToAsk
  <2>5. moving' = query' \/ (q = query /\ moving' = moving /\ query' = query)
    BY <2>2, EffectsAsk DEF BrowseIInv
  <2>6. q = query /\ moving' = moving /\ query' = query => StillToAsk' <= StillToAsk
    BY <2>2 DEF StillToAsk
  <2> QED
    BY <1>5, <2>2, <2>4, <2>5, <2>6
<1>12. CASE AddressMoves
  <2>1. /\ moving # address /\ Effects(moving) /\ search' = moving.text /\ shownQuery' = shownQuery
    BY <1>12 DEF AddressMoves
  <2>2. moving # query => StillToAsk >= 2
    BY <2>1 DEF StillToAsk
  <2>3. moving' = query'
    BY <1>1, <2>1, EffectsAsk DEF BrowseIInv
  <2> QED
    BY <1>1, <1>5, <2>1, <2>2, <2>3
<1>13. CASE UNCHANGED browseVars
  <2>1. UNCHANGED <<asking, asked, shownQuery>> /\ StillToAsk' = StillToAsk
    BY <1>13 DEF browseVars, StillToAsk
  <2> QED
    BY <1>3, <2>1
<1> QED
  BY <1>6, <1>7, <1>8, <1>9, <1>10, <1>11, <1>12, <1>13 DEF BrowseNext

LEMMA BrowseTypesHold == BrowseSpec => []BrowseTypeOK
<1>1. BrowseInit => BrowseBounded
  <2> SUFFICES ASSUME BrowseInit PROVE BrowseBounded
    OBVIOUS
  <2>1. PICK a \in Queries :
          /\ address = a /\ search = a.text /\ timer = FALSE
          /\ query = [a EXCEPT !.page = 0] /\ moving = [a EXCEPT !.page = 0]
          /\ LET qs == <<a>> \o (IF a.page # 0 THEN <<[a EXCEPT !.page = 0]>> ELSE <<>>)
             IN  asking = Asking(0, qs) /\ asked = Len(qs)
          /\ shownQuery = [n |-> 0, query |-> NoQuery]
    BY DEF BrowseInit
  <2>2. PICK f \in Queries : f = [a EXCEPT !.page = 0]
    BY FirstPage
  <2>3. PICK more \in Seq(Queries) : more = IF a.page # 0 THEN <<f>> ELSE <<>>
    BY OneOrNone
  <2>4. Len(more) = IF a.page # 0 THEN 1 ELSE 0
    BY <2>3, EmptySeq
  <2>5. PICK qs \in Seq(Queries) : qs = <<a>> \o more
    <3>1. <<a>> \in Seq(Queries)
      OBVIOUS
    <3> QED
      BY <3>1, ConcatProperties
  <2>6. Len(qs) = 1 + Len(more)
    BY <2>5, ConcatProperties
  <2>7. asking = Asking(0, qs) /\ asked = Len(qs)
    BY <2>1, <2>2, <2>3, <2>5
  <2>8. asked \in Nat /\ asked <= 2 /\ StillToAsk = 0
    BY <2>1, <2>4, <2>6, <2>7 DEF StillToAsk
  <2>9. \A c \in asking : c.n \in 1..asked /\ c.query \in Queries
    BY <2>7, <2>8, AskingIs
  <2> QED
    BY <2>1, <2>8, <2>9, BrowseAssumption DEF BrowseBounded
<1>2. BrowseIInv /\ BrowseBounded /\ [BrowseNext]_browseVars => BrowseBounded'
  BY BrowseStaysBounded
<1>3. BrowseIInv /\ BrowseBounded => BrowseTypeOK
  BY BrowseAssumption DEF BrowseIInv, BrowseTypes, BrowseBounded, BrowseTypeOK, StillToAsk
<1> QED
  BY <1>1, <1>2, <1>3, BrowseInitIInv, BrowseStep, PTL DEF BrowseSpec

-----------------------------------------------------------------------------
(* Favourites.                                                             *)

FavouritesSpec == FavouritesInit /\ [][FavouritesNext]_favouriteVars

Toggle == [op : {"none", "check", "toggle"},
           at : {"idle", "checking", "loading", "finding", "found", "answered"},
           found : Nat, answer : {"none", "on", "off", "error"}, when : Nat]

FavouriteTypes ==
  /\ toggles \in [FavouriteCalls -> Toggle]
  /\ record \in Nat /\ created \in Nat /\ decided \in Nat /\ newest \in 0..decided
  /\ pressed \in BOOLEAN /\ astray \in BOOLEAN
  /\ \A c \in FavouriteCalls : toggles[c].when <= decided
  /\ \A c \in FavouriteCalls : toggles[c].at = "answered" => toggles[c].answer # "none"

\* Answers on their way that say what is stored.
TellsTheState(c) == toggles[c].at = "answered" /\ toggles[c].answer # "error"

\* c was decided after everything else that the page has been or will be told.
Latest(c) ==
  /\ TellsTheState(c) /\ newest < toggles[c].when
  /\ \A d \in FavouriteCalls \ {c} : TellsTheState(d) => toggles[d].when < toggles[c].when

\* The page's first question is undecided, or the answer decided last is on its way
\* and true, or the page has it.
LastAnswerIsTrue ==
  \/ \E c \in FavouriteCalls : toggles[c].at = "checking"
  \/ \E c \in FavouriteCalls : Latest(c) /\ (toggles[c].answer = "on" <=> Stored)
  \/ /\ pressed <=> Stored
     /\ \A c \in FavouriteCalls : TellsTheState(c) => toggles[c].when < newest

FavouritesIInv == FavouriteTypes /\ (astray \/ LastAnswerIsTrue)

LEMMA IdleIsToggle == IdleCall \in Toggle /\ IdleCall.at = "idle" /\ IdleCall.when = 0
  BY DEF Toggle, IdleCall

\* One call that changes as it may keeps the types.
LEMMA TypesAfterCall ==
  ASSUME FavouriteTypes, NEW c \in FavouriteCalls, NEW t \in Toggle,
         toggles' = [toggles EXCEPT ![c] = t], t.at = "answered" => t.answer # "none",
         decided' \in {decided, decided + 1}, t.when <= decided', t.when \in Nat,
         record' \in Nat, created' \in Nat, newest' \in 0..decided', pressed' \in BOOLEAN,
         astray' \in BOOLEAN
  PROVE  /\ FavouriteTypes'
         /\ toggles'[c] = t /\ \A d \in FavouriteCalls \ {c} : toggles'[d] = toggles[d]
  <1>1. toggles'[c] = t /\ \A d \in FavouriteCalls \ {c} : toggles'[d] = toggles[d]
    BY DEF FavouriteTypes
  <1>2. toggles' \in [FavouriteCalls -> Toggle]
    BY DEF FavouriteTypes
  <1>3. \A d \in FavouriteCalls : toggles[d].when \in Nat
    BY DEF FavouriteTypes, Toggle
  <1>4. decided' \in Nat /\ \A d \in FavouriteCalls : toggles'[d].when <= decided'
    BY <1>1, <1>3 DEF FavouriteTypes
  <1>5. \A d \in FavouriteCalls : toggles'[d].at = "answered" => toggles'[d].answer # "none"
    BY <1>1 DEF FavouriteTypes
  <1> QED
    BY <1>1, <1>2, <1>4, <1>5 DEF FavouriteTypes

LEMMA FavouritesInitIInv == FavouritesInit => FavouritesIInv
  <1> SUFFICES ASSUME FavouritesInit PROVE FavouritesIInv
    OBVIOUS
  <1>1. PICK first \in FavouriteCalls :
          toggles = [c \in FavouriteCalls |->
                      IF c = first THEN [IdleCall EXCEPT !.op = "check", !.at = "checking"] ELSE IdleCall]
    BY DEF FavouritesInit
  <1> DEFINE question == [IdleCall EXCEPT !.op = "check", !.at = "checking"]
  <1>2. question \in Toggle /\ question.at = "checking" /\ question.when = 0
    BY DEF IdleCall, Toggle
  <1> HIDE DEF question
  <1>3. toggles = [c \in FavouriteCalls |-> IF c = first THEN question ELSE IdleCall]
    BY <1>1 DEF question
  <1>4. FavouriteTypes
    <2>1. /\ toggles \in [FavouriteCalls -> Toggle]
          /\ \A c \in FavouriteCalls : toggles[c].when = 0 /\ toggles[c].at # "answered"
      BY <1>2, <1>3, IdleIsToggle
    <2>2. /\ record \in Nat /\ created \in Nat /\ decided = 0 /\ newest = 0
          /\ pressed \in BOOLEAN /\ astray \in BOOLEAN
      <3>1. record \in {0, 1} /\ created = record
        BY DEF FavouritesInit
      <3>2. decided = 0 /\ newest = 0 /\ pressed = FALSE /\ astray = FALSE
        BY DEF FavouritesInit
      <3>3. record \in Nat /\ created \in Nat
        BY <3>1
      <3> QED
        BY <3>2, <3>3
    <2> QED
      BY <2>1, <2>2 DEF FavouriteTypes
  <1>5. toggles[first].at = "checking"
    BY <1>2, <1>3
  <1> QED
    BY <1>4, <1>5 DEF FavouritesIInv, LastAnswerIsTrue

\* A decision that is told is the latest one.
LEMMA DecidedIsLatest ==
  ASSUME FavouriteTypes, NEW c \in FavouriteCalls, NEW answer \in {"on", "off"},
         Answers(c, answer), UNCHANGED <<newest, pressed>>, astray' \in BOOLEAN, record' \in Nat, created' \in Nat,
         answer = "on" <=> Stored'
  PROVE  FavouritesIInv'
  <1> DEFINE t == [toggles[c] EXCEPT !.at = "answered", !.answer = answer, !.when = decided + 1]
  <1>1. decided' = decided + 1 /\ toggles' = [toggles EXCEPT ![c] = t] /\ decided \in Nat
    BY DEF Answers, FavouriteTypes
  <1>2. t \in Toggle /\ t.at = "answered" /\ t.answer = answer /\ t.when = decided + 1
    <2>1. toggles[c] \in Toggle /\ decided + 1 \in Nat
      BY DEF FavouriteTypes
    <2>2. t = [toggles[c] EXCEPT !.at = "answered", !.answer = answer, !.when = decided + 1]
      OBVIOUS
    <2> HIDE DEF t
    <2> QED
      BY <2>1, <2>2 DEF Toggle
  <1> HIDE DEF t
  <1>3. /\ FavouriteTypes'
        /\ toggles'[c] = t /\ \A d \in FavouriteCalls \ {c} : toggles'[d] = toggles[d]
    <2>1. newest' \in 0..decided' /\ pressed' \in BOOLEAN /\ decided' = t.when /\ t.when \in Nat
      BY <1>1, <1>2 DEF FavouriteTypes
    <2>2. t.answer # "none" /\ t.when <= decided'
      BY <1>2, <2>1
    <2> QED
      BY <1>1, <1>2, <2>1, <2>2, TypesAfterCall
  <1>4. \A d \in FavouriteCalls \ {c} : toggles[d].when <= decided /\ toggles[d].when \in Nat
    BY DEF FavouriteTypes, Toggle
  <1>5. Latest(c)'
    BY <1>1, <1>2, <1>3, <1>4 DEF FavouriteTypes, Latest, TellsTheState
  <1> QED
    BY <1>2, <1>3, <1>5 DEF FavouritesIInv, LastAnswerIsTrue

\* A call that tells nothing before or after a step leaves the answers as they are.
LEMMA SilentStepKeeps ==
  ASSUME FavouritesIInv, NEW c \in FavouriteCalls, NEW t \in Toggle,
         toggles' = [toggles EXCEPT ![c] = t],
         ~TellsTheState(c), toggles[c].at # "checking", t.at = "answered" => t.answer = "error",
         decided' \in {decided, decided + 1}, t.when <= decided',
         UNCHANGED <<record, created, pressed, newest, astray>>
  PROVE  FavouritesIInv'
  <1>1. /\ FavouriteTypes'
        /\ toggles'[c] = t /\ \A d \in FavouriteCalls \ {c} : toggles'[d] = toggles[d]
    <2>1. record' \in Nat /\ created' \in Nat /\ newest' \in 0..decided' /\ pressed' \in BOOLEAN
          /\ t.when \in Nat /\ astray' \in BOOLEAN
      BY DEF FavouritesIInv, FavouriteTypes, Toggle
    <2>2. FavouriteTypes /\ (t.at = "answered" => t.answer # "none")
      BY DEF FavouritesIInv
    <2> QED
      BY <2>1, <2>2, TypesAfterCall
  <1>3. ~TellsTheState(c)' /\ \A d \in FavouriteCalls : TellsTheState(d)' => TellsTheState(d) /\ toggles'[d] = toggles[d]
    BY <1>1 DEF TellsTheState
  <1>4. ASSUME NEW d \in FavouriteCalls, Latest(d)
        PROVE  Latest(d)' /\ toggles'[d] = toggles[d]
    <2>1. d # c
      BY <1>4 DEF Latest
    <2> QED
      BY <1>1, <1>3, <1>4, <2>1 DEF Latest, TellsTheState
  <1>5. ASSUME LastAnswerIsTrue PROVE LastAnswerIsTrue'
    <2>1. CASE \E d \in FavouriteCalls : toggles[d].at = "checking"
      BY <1>1, <2>1 DEF LastAnswerIsTrue
    <2>2. CASE \E d \in FavouriteCalls : Latest(d) /\ (toggles[d].answer = "on" <=> Stored)
      BY <1>4, <2>2 DEF LastAnswerIsTrue, Stored
    <2>3. CASE /\ pressed <=> Stored
               /\ \A d \in FavouriteCalls : TellsTheState(d) => toggles[d].when < newest
      BY <1>3, <2>3 DEF LastAnswerIsTrue, Stored
    <2> QED
      BY <1>5, <2>1, <2>2, <2>3 DEF LastAnswerIsTrue
  <1> QED
    BY <1>1, <1>5 DEF FavouritesIInv

\* A refusal changes nothing of what is stored or told.
LEMMA RefusalKeeps ==
  ASSUME FavouritesIInv, NEW c \in FavouriteCalls, Answers(c, "error"),
         toggles[c].at \in {"loading", "found"},
         UNCHANGED <<record, created, pressed, newest, astray>>
  PROVE  FavouritesIInv'
  <1> DEFINE t == [toggles[c] EXCEPT !.at = "answered", !.answer = "error", !.when = decided + 1]
  <1>1. decided' = decided + 1 /\ toggles' = [toggles EXCEPT ![c] = t] /\ decided \in Nat
    BY DEF Answers, FavouritesIInv, FavouriteTypes
  <1>2. t \in Toggle /\ t.at = "answered" /\ t.answer = "error" /\ t.when = decided + 1
    <2>1. toggles[c] \in Toggle /\ decided + 1 \in Nat
      BY DEF FavouritesIInv, FavouriteTypes
    <2>2. t = [toggles[c] EXCEPT !.at = "answered", !.answer = "error", !.when = decided + 1]
      OBVIOUS
    <2> HIDE DEF t
    <2> QED
      BY <2>1, <2>2 DEF Toggle
  <1> HIDE DEF t
  <1>3. ~TellsTheState(c) /\ toggles[c].at # "checking"
    BY DEF TellsTheState
  <1>4. t.when <= decided'
    BY <1>1, <1>2
  <1> QED
    BY <1>1, <1>2, <1>3, <1>4, SilentStepKeeps

LEMMA CheckKeepsTruth ==
  ASSUME FavouritesIInv, NEW c \in FavouriteCalls, Check(c)
  PROVE  FavouritesIInv'
  <1>1. Answers(c, IF Stored THEN "on" ELSE "off") /\ Stored' = Stored
    BY DEF Check, Stored
  <1> QED
    BY <1>1, DecidedIsLatest DEF Check, FavouritesIInv, FavouriteTypes

LEMMA SilentCallsKeep ==
  ASSUME FavouritesIInv, NEW c \in FavouriteCalls, Press(c) \/ LoadProduct(c) \/ FindRecord(c)
  PROVE  FavouritesIInv'
  <1>1. toggles[c] \in Toggle /\ decided \in Nat /\ toggles[c].when <= decided /\ record \in Nat
    BY DEF FavouritesIInv, FavouriteTypes
  <1>2. CASE Press(c)
    <2> DEFINE t == [IdleCall EXCEPT !.op = "toggle",
                                     !.at = IF button = "wishlist" THEN "loading" ELSE "finding"]
    <2>1. t \in Toggle /\ t.at # "answered" /\ t.when = 0
      BY DEF Toggle, IdleCall
    <2>2. toggles' = [toggles EXCEPT ![c] = t] /\ decided' = decided /\ toggles[c].at = "idle"
          /\ UNCHANGED <<record, created, pressed, newest, astray>>
      BY <1>2 DEF Press
    <2> HIDE DEF t
    <2>3. t.when <= decided' /\ ~TellsTheState(c) /\ toggles[c].at # "checking"
      BY <1>1, <2>1, <2>2 DEF TellsTheState
    <2> QED
      BY <2>1, <2>2, <2>3, SilentStepKeeps
  <1>3. CASE FindRecord(c)
    <2> DEFINE t == [toggles[c] EXCEPT !.at = "found", !.found = record]
    <2>1. t \in Toggle /\ t.at # "answered" /\ t.when = toggles[c].when
      BY <1>1 DEF Toggle
    <2>2. toggles' = [toggles EXCEPT ![c] = t]
      BY <1>3 DEF FindRecord
    <2> HIDE DEF t
    <2> QED
      BY <1>1, <1>3, <2>1, <2>2, SilentStepKeeps DEF FindRecord, TellsTheState
  <1>4. CASE LoadProduct(c) /\ listed
    <2> DEFINE t == [toggles[c] EXCEPT !.at = "finding"]
    <2>1. t \in Toggle /\ t.at # "answered" /\ t.when = toggles[c].when
      BY <1>1 DEF Toggle
    <2>2. toggles' = [toggles EXCEPT ![c] = t]
      BY <1>4 DEF LoadProduct
    <2> HIDE DEF t
    <2> QED
      BY <1>1, <1>4, <2>1, <2>2, SilentStepKeeps DEF LoadProduct, TellsTheState
  <1>5. CASE LoadProduct(c) /\ ~listed
    BY <1>5, RefusalKeeps DEF LoadProduct
  <1> QED
    BY <1>2, <1>3, <1>4, <1>5

\* A deletion by a stale id leaves another record behind, and is astray; any other
\* decision is told as it was made.
LEMMA DecisionsKeep ==
  ASSUME FavouritesIInv, NEW c \in FavouriteCalls, DeleteRecord(c) \/ CreateRecord(c)
  PROVE  FavouritesIInv'
  <1>1. toggles[c] \in Toggle /\ decided \in Nat /\ record \in Nat /\ created \in Nat /\ FavouriteTypes
    BY DEF FavouritesIInv, FavouriteTypes
  <1>2. CASE DeleteRecord(c) /\ record \in {0, toggles[c].found}
    <2>1. record' = 0 /\ ~Stored'
      BY <1>2 DEF DeleteRecord, Stored
    <2>2. Answers(c, "off") /\ UNCHANGED <<newest, pressed>> /\ astray' \in BOOLEAN /\ record' \in Nat /\ created' \in Nat
      BY <1>1, <1>2, <2>1 DEF DeleteRecord
    <2> QED
      BY <1>1, <2>1, <2>2, DecidedIsLatest
  <1>3. CASE DeleteRecord(c) /\ record \notin {0, toggles[c].found}
    <2>1. astray' /\ record' = record /\ created' = created /\ newest' = newest /\ pressed' = pressed
      BY <1>3 DEF DeleteRecord
    <2> DEFINE t == [toggles[c] EXCEPT !.at = "answered", !.answer = "off", !.when = decided + 1]
    <2>2. decided' = decided + 1 /\ toggles' = [toggles EXCEPT ![c] = t]
      BY <1>3 DEF Answers, DeleteRecord
    <2>3. t \in Toggle /\ t.answer = "off" /\ t.when = decided + 1
      <3>1. decided + 1 \in Nat
        BY <1>1
      <3>2. t = [toggles[c] EXCEPT !.at = "answered", !.answer = "off", !.when = decided + 1]
        OBVIOUS
      <3> HIDE DEF t
      <3> QED
        BY <1>1, <3>1, <3>2 DEF Toggle
    <2> HIDE DEF t
    <2>4. t.when \in Nat /\ newest' \in 0..decided' /\ pressed' \in BOOLEAN /\ t.when <= decided'
          /\ astray' \in BOOLEAN
      BY <1>1, <1>3, <2>1, <2>2, <2>3 DEF FavouriteTypes, DeleteRecord
    <2>5. FavouriteTypes'
      BY <1>1, <2>1, <2>2, <2>3, <2>4, TypesAfterCall
    <2> QED
      BY <2>1, <2>5 DEF FavouritesIInv
  <1>4. CASE CreateRecord(c) /\ Stored
    BY <1>4, RefusalKeeps DEF CreateRecord
  <1>5. CASE CreateRecord(c) /\ ~Stored
    <2>1. record' = created + 1 /\ created' = created + 1 /\ Answers(c, "on")
          /\ UNCHANGED <<newest, pressed>> /\ astray' \in BOOLEAN
      BY <1>1, <1>5 DEF CreateRecord, FavouriteTypes
    <2>2. Stored' /\ record' \in Nat /\ created' \in Nat
      BY <1>1, <2>1 DEF Stored
    <2> QED
      BY <1>1, <2>1, <2>2, DecidedIsLatest
  <1> QED
    BY <1>2, <1>3, <1>4, <1>5

\* Taking an answer: an older one is astray, the latest one is true, any other leaves
\* the latest on its way.
LEMMA TakeAnswerKeeps ==
  ASSUME FavouritesIInv, NEW c \in FavouriteCalls, TakeAnswer(c)
  PROVE  FavouritesIInv'
  <1>1. /\ FavouriteTypes /\ toggles[c] \in Toggle /\ decided \in Nat
        /\ toggles[c].when \in Nat /\ toggles[c].when <= decided /\ newest \in Nat /\ newest <= decided
    BY DEF FavouritesIInv, FavouriteTypes, Toggle
  <1>2. /\ toggles' = [toggles EXCEPT ![c] = IdleCall] /\ decided' = decided
        /\ record' = record /\ created' = created /\ pressed' = Shown(toggles[c].answer)
        /\ toggles[c].at = "answered"
    BY DEF TakeAnswer
  <1>3. /\ newest' \in 0..decided' /\ pressed' \in BOOLEAN /\ astray' \in BOOLEAN
        /\ record' \in Nat /\ created' \in Nat /\ IdleCall.when <= decided' /\ IdleCall.when \in Nat
    <2>1. newest' \in 0..decided'
      BY <1>1, <1>2 DEF TakeAnswer
    <2>2. pressed' \in BOOLEAN /\ astray' \in BOOLEAN
      BY <1>1, <1>2 DEF Shown, FavouriteTypes, TakeAnswer
    <2> QED
      BY <1>1, <1>2, <2>1, <2>2, IdleIsToggle DEF FavouriteTypes
  <1>4. /\ FavouriteTypes'
        /\ toggles'[c] = IdleCall /\ \A d \in FavouriteCalls \ {c} : toggles'[d] = toggles[d]
    BY <1>1, <1>2, <1>3, IdleIsToggle, TypesAfterCall
  <1>5. ~TellsTheState(c)' /\ \A d \in FavouriteCalls : TellsTheState(d)' => d # c /\ TellsTheState(d) /\ toggles'[d] = toggles[d]
    BY <1>4, IdleIsToggle DEF TellsTheState
  <1>6. CASE toggles[c].answer = "error"
    <2>1. ~TellsTheState(c) /\ toggles[c].at # "checking" /\ IdleCall.at # "answered" /\ IdleCall.when <= decided'
      BY <1>1, <1>2, <1>6, IdleIsToggle DEF TellsTheState
    <2>2. UNCHANGED <<record, created, pressed, newest, astray>>
      BY <1>1, <1>6 DEF TakeAnswer, Shown, FavouriteTypes
    <2> QED
      BY <1>2, <2>1, <2>2, IdleIsToggle, SilentStepKeeps
  <1>7. CASE toggles[c].answer # "error" /\ toggles[c].when < newest
    BY <1>4, <1>7 DEF TakeAnswer, FavouritesIInv
  <1>8. CASE toggles[c].answer # "error" /\ ~(toggles[c].when < newest)
    <2>1. TellsTheState(c) /\ newest' = toggles[c].when /\ astray' = astray
      BY <1>1, <1>2, <1>8 DEF TellsTheState, TakeAnswer, FavouriteTypes
    <2>2. ASSUME LastAnswerIsTrue PROVE LastAnswerIsTrue'
      <3>1. CASE \E d \in FavouriteCalls : toggles[d].at = "checking"
        BY <1>2, <1>4, <3>1 DEF LastAnswerIsTrue
      <3>2. CASE Latest(c) /\ (toggles[c].answer = "on" <=> Stored)
        <4>1. pressed' <=> Stored'
          BY <1>2, <1>8, <3>2 DEF Shown, Stored
        <4>2. \A d \in FavouriteCalls : TellsTheState(d)' => toggles'[d].when < newest'
          BY <1>5, <2>1, <3>2 DEF Latest
        <4> QED
          BY <4>1, <4>2 DEF LastAnswerIsTrue, TellsTheState
      <3>3. ASSUME NEW d \in FavouriteCalls \ {c}, Latest(d), toggles[d].answer = "on" <=> Stored
            PROVE  LastAnswerIsTrue'
        <4>1. TellsTheState(d)' /\ toggles'[d] = toggles[d] /\ newest' < toggles'[d].when
          BY <1>4, <2>1, <3>3 DEF Latest, TellsTheState
        <4>2. \A e \in FavouriteCalls \ {d} : TellsTheState(e)' => toggles'[e].when < toggles'[d].when
          BY <1>5, <4>1, <3>3 DEF Latest
        <4>3. Latest(d)'
          BY <4>1, <4>2 DEF Latest, TellsTheState
        <4>4. toggles'[d].answer = "on" <=> Stored'
          BY <1>2, <3>3, <4>1 DEF Stored
        <4> QED
          BY <4>3, <4>4 DEF LastAnswerIsTrue
      <3>4. CASE /\ pressed <=> Stored
                 /\ \A d \in FavouriteCalls : TellsTheState(d) => toggles[d].when < newest
        BY <1>8, <2>1, <3>4
      <3> QED
        BY <2>2, <3>1, <3>2, <3>3, <3>4 DEF LastAnswerIsTrue
    <2> QED
      BY <1>4, <2>1, <2>2 DEF FavouritesIInv
  <1> QED
    BY <1>6, <1>7, <1>8

LEMMA LoseAnswerKeeps ==
  ASSUME FavouritesIInv, NEW c \in FavouriteCalls, LoseAnswer(c)
  PROVE  FavouritesIInv'
  <1>1. FavouriteTypes /\ decided \in Nat /\ newest' \in 0..decided' /\ pressed' \in BOOLEAN
        /\ record' \in Nat /\ created' \in Nat /\ decided' = decided /\ astray' \in BOOLEAN
        /\ toggles' = [toggles EXCEPT ![c] = IdleCall]
        /\ IdleCall.when <= decided' /\ IdleCall.when \in Nat
    BY IdleIsToggle DEF LoseAnswer, FavouritesIInv, FavouriteTypes
  <1>2. FavouriteTypes'
    BY <1>1, IdleIsToggle, TypesAfterCall
  <1> QED
    BY <1>2 DEF FavouritesIInv, LoseAnswer

LEMMA FavouritesSame ==
  ASSUME FavouritesIInv,
         UNCHANGED <<record, created, toggles, pressed, decided, newest, astray>>
  PROVE  FavouritesIInv'
  BY DEF FavouritesIInv, FavouriteTypes, LastAnswerIsTrue, Latest, TellsTheState, Stored

LEMMA FavouritesStep == FavouritesIInv /\ [FavouritesNext]_favouriteVars => FavouritesIInv'
  <1> SUFFICES ASSUME FavouritesIInv, [FavouritesNext]_favouriteVars PROVE FavouritesIInv'
    OBVIOUS
  <1>1. ASSUME NEW c \in FavouriteCalls,
               \/ Check(c) \/ Press(c) \/ LoadProduct(c) \/ FindRecord(c)
               \/ DeleteRecord(c) \/ CreateRecord(c) \/ TakeAnswer(c) \/ LoseAnswer(c)
        PROVE  FavouritesIInv'
    BY <1>1, CheckKeepsTruth, SilentCallsKeep, DecisionsKeep, TakeAnswerKeeps, LoseAnswerKeeps
  <1>2. CASE DeleteProduct
    BY <1>2, FavouritesSame DEF DeleteProduct
  <1>3. CASE UNCHANGED favouriteVars
    BY <1>3, FavouritesSame DEF favouriteVars
  <1> QED
    BY <1>1, <1>2, <1>3 DEF FavouritesNext

\* The heart and the follow button: with no request on its way the page shows what is
\* stored, whatever number of taps overlapped, unless an answer was lost or overtaken
\* or a deletion by a stale id removed nothing (toggleWishlist, toggleSellerFollow,
\* handleToggleWishlist).
THEOREM TheButtonIsTrue == FavouritesSpec => []ButtonShowsTheRecord
  <1>1. FavouritesIInv => ButtonShowsTheRecord
    BY DEF FavouritesIInv, LastAnswerIsTrue, Latest, TellsTheState, ButtonShowsTheRecord
  <1> QED
    BY <1>1, FavouritesInitIInv, FavouritesStep, PTL DEF FavouritesSpec

\* The requests that are sent and not decided, and the mount's among them.
UnderWay(t) == t.at \in {"checking", "loading", "finding", "found"}
Undecided == {c \in FavouriteCalls : UnderWay(toggles[c])}
Mounting == {c \in FavouriteCalls : toggles[c].at = "checking"}

\* Every request sent is decided or under way, and each decision stored one record at
\* most; the mount's stores none, which leaves room for the record there was.
RequestsCounted ==
  /\ IsFiniteSet(Undecided)
  /\ called \in 0..MaxFavouriteCalls /\ decided \in Nat /\ created \in Nat /\ record \in 0..created
  /\ decided + Cardinality(Undecided) = called
  /\ created <= decided + Cardinality(Mounting)
  /\ button \in {"wishlist", "follow"} /\ listed \in BOOLEAN

\* What one request's new step does to the counts.
LEMMA OneMember ==
  ASSUME NEW S, NEW T, IsFiniteSet(S), NEW c, NEW before \in BOOLEAN, NEW after \in BOOLEAN,
         before <=> c \in S, T = IF after THEN S \cup {c} ELSE S \ {c}
  PROVE  /\ IsFiniteSet(T) /\ Cardinality(S) \in Nat /\ Cardinality(T) \in Nat
         /\ before /\ ~after => Cardinality(T) = Cardinality(S) - 1
         /\ ~before /\ after => Cardinality(T) = Cardinality(S) + 1
         /\ (before <=> after) => T = S
<1>1. /\ IsFiniteSet(S \cup {c}) /\ IsFiniteSet(S \ {c})
      /\ Cardinality(S \cup {c}) = IF c \in S THEN Cardinality(S) ELSE Cardinality(S) + 1
      /\ Cardinality(S \ {c}) = IF c \in S THEN Cardinality(S) - 1 ELSE Cardinality(S)
  BY FS_AddElement, FS_RemoveElement
<1>2. IsFiniteSet(T)
  BY <1>1
<1>3. Cardinality(S) \in Nat /\ Cardinality(T) \in Nat
  BY <1>2, FS_CardinalityType
<1>4. (before <=> after) => T = S
  OBVIOUS
<1> QED
  BY <1>1, <1>2, <1>3, <1>4

LEMMA RequestChanges ==
  ASSUME FavouriteTypes, IsFiniteSet(Undecided), NEW c \in FavouriteCalls, NEW t,
         toggles' = [toggles EXCEPT ![c] = t]
  PROVE  /\ IsFiniteSet(Undecided') /\ Cardinality(Undecided) \in Nat /\ Cardinality(Undecided') \in Nat
         /\ Cardinality(Mounting) \in Nat /\ Cardinality(Mounting') \in Nat
         /\ UnderWay(toggles[c]) /\ ~UnderWay(t) => Cardinality(Undecided') = Cardinality(Undecided) - 1
         /\ ~UnderWay(toggles[c]) /\ UnderWay(t) => Cardinality(Undecided') = Cardinality(Undecided) + 1
         /\ (UnderWay(toggles[c]) <=> UnderWay(t)) => Undecided' = Undecided
         /\ toggles[c].at = "checking" /\ t.at # "checking" => Cardinality(Mounting') = Cardinality(Mounting) - 1
         /\ toggles[c].at # "checking" /\ t.at # "checking" => Mounting' = Mounting
<1>1. toggles'[c] = t /\ \A d \in FavouriteCalls \ {c} : toggles'[d] = toggles[d]
  BY DEF FavouriteTypes
<1>2. /\ Undecided' = IF UnderWay(t) THEN Undecided \cup {c} ELSE Undecided \ {c}
      /\ UnderWay(toggles[c]) <=> c \in Undecided
  BY <1>1 DEF Undecided
<1>3. /\ Mounting' = IF t.at = "checking" THEN Mounting \cup {c} ELSE Mounting \ {c}
      /\ toggles[c].at = "checking" <=> c \in Mounting
  BY <1>1 DEF Mounting
<1>4. Mounting \subseteq Undecided
  BY DEF Mounting, Undecided, UnderWay
<1>5. IsFiniteSet(Mounting)
  BY <1>4, FS_Subset
<1>6. PICK b1 \in BOOLEAN, b2 \in BOOLEAN : (b1 <=> UnderWay(toggles[c])) /\ (b2 <=> UnderWay(t))
  BY DEF UnderWay
<1>7. PICK m1 \in BOOLEAN, m2 \in BOOLEAN : (m1 <=> toggles[c].at = "checking") /\ (m2 <=> t.at = "checking")
  OBVIOUS
<1>8. PICK before, after, mounted, mounts : /\ before = Undecided /\ after = Undecided'
                                            /\ mounted = Mounting /\ mounts = Mounting'
  OBVIOUS
<1>9. /\ IsFiniteSet(after) /\ Cardinality(before) \in Nat /\ Cardinality(after) \in Nat
      /\ b1 /\ ~b2 => Cardinality(after) = Cardinality(before) - 1
      /\ ~b1 /\ b2 => Cardinality(after) = Cardinality(before) + 1
      /\ (b1 <=> b2) => after = before
  <2>1. IsFiniteSet(before) /\ (b1 <=> c \in before) /\ after = IF b2 THEN before \cup {c} ELSE before \ {c}
    BY <1>2, <1>6, <1>8
  <2> QED
    BY <2>1, OneMember
<1>10. /\ Cardinality(mounted) \in Nat /\ Cardinality(mounts) \in Nat
       /\ m1 /\ ~m2 => Cardinality(mounts) = Cardinality(mounted) - 1
       /\ (m1 <=> m2) => mounts = mounted
  <2>1. IsFiniteSet(mounted) /\ (m1 <=> c \in mounted) /\ mounts = IF m2 THEN mounted \cup {c} ELSE mounted \ {c}
    BY <1>3, <1>5, <1>7, <1>8
  <2> QED
    BY <2>1, OneMember
<1> QED
  BY <1>6, <1>7, <1>8, <1>9, <1>10

\* A request is decided, and stores one record at most: none if it is the mount's.
LEMMA DecisionCounts ==
  ASSUME FavouriteTypes, RequestsCounted, NEW c \in FavouriteCalls, NEW answer, Answers(c, answer),
         toggles[c].at \in {"checking", "loading", "finding", "found"},
         \/ created' = created /\ record' \in {0, record}
         \/ toggles[c].at # "checking" /\ created' = created + 1 /\ record' = created',
         UNCHANGED <<called, button>>, listed' \in BOOLEAN
  PROVE  RequestsCounted'
<1>1. PICK t : t = [toggles[c] EXCEPT !.at = "answered", !.answer = answer, !.when = decided']
  OBVIOUS
<1>2. toggles[c] \in Toggle
  BY DEF FavouriteTypes
<1>3. t.at = "answered"
  BY <1>1, <1>2 DEF Toggle
<1>4. toggles' = [toggles EXCEPT ![c] = t] /\ decided' = decided + 1
  BY <1>1 DEF Answers
<1>5. /\ IsFiniteSet(Undecided')
      /\ Cardinality(Undecided) \in Nat /\ Cardinality(Mounting) \in Nat /\ Cardinality(Mounting') \in Nat
      /\ Cardinality(Undecided') = Cardinality(Undecided) - 1
      /\ Cardinality(Mounting') = Cardinality(Mounting) - (IF toggles[c].at = "checking" THEN 1 ELSE 0)
  <2>1. UnderWay(toggles[c]) /\ ~UnderWay(t)
    BY <1>3 DEF UnderWay
  <2>2. IsFiniteSet(Undecided)
    BY DEF RequestsCounted
  <2>3. CASE toggles[c].at = "checking"
    BY <1>3, <1>4, <2>1, <2>2, <2>3, RequestChanges
  <2>4. CASE toggles[c].at # "checking"
    <3>1. /\ Cardinality(Mounting) \in Nat /\ Cardinality(Undecided) \in Nat /\ IsFiniteSet(Undecided')
          /\ Cardinality(Undecided') = Cardinality(Undecided) - 1 /\ Mounting' = Mounting
      BY <1>3, <1>4, <2>1, <2>2, <2>4, RequestChanges
    <3>2. Cardinality(Mounting') = Cardinality(Mounting)
      BY <3>1
    <3> QED
      BY <2>4, <3>1, <3>2
  <2> QED
    BY <2>3, <2>4
<1>6. /\ called \in 0..MaxFavouriteCalls /\ decided \in Nat /\ created \in Nat /\ record \in 0..created
      /\ decided + Cardinality(Undecided) = called
      /\ created <= decided + Cardinality(Mounting)
  BY DEF RequestsCounted
<1>7. decided' + Cardinality(Undecided') = called'
  BY <1>4, <1>5, <1>6
<1>8. created' <= decided' + Cardinality(Mounting') /\ created' \in Nat /\ record' \in 0..created'
  BY <1>4, <1>5, <1>6
<1>9. decided' \in Nat
  BY <1>4, <1>6
<1> QED
  BY <1>5, <1>6, <1>7, <1>8, <1>9 DEF RequestsCounted

\* A request goes on, or an answer is taken.
LEMMA GoingOnCounts ==
  ASSUME FavouriteTypes, RequestsCounted, NEW c \in FavouriteCalls, NEW t,
         toggles' = [toggles EXCEPT ![c] = t], t.at # "checking", toggles[c].at # "checking",
         t.at \in {"finding", "found"} <=> toggles[c].at \in {"loading", "finding", "found"},
         t.at \in {"finding", "found", "idle"},
         UNCHANGED <<button, listed, record, created, called, decided>>
  PROVE  RequestsCounted'
<1>1. /\ IsFiniteSet(Undecided')
      /\ Cardinality(Undecided) \in Nat /\ Cardinality(Mounting) \in Nat /\ Cardinality(Mounting') \in Nat
      /\ Cardinality(Undecided') = Cardinality(Undecided)
      /\ Cardinality(Mounting') = Cardinality(Mounting)
  <2>1. UnderWay(toggles[c]) <=> UnderWay(t)
    BY DEF UnderWay
  <2>2. IsFiniteSet(Undecided)
    BY DEF RequestsCounted
  <2> QED
    BY <2>1, <2>2, RequestChanges
<1> QED
  BY <1>1 DEF RequestsCounted

LEMMA PressCounts ==
  ASSUME FavouriteTypes, RequestsCounted, NEW c \in FavouriteCalls, Press(c) PROVE RequestsCounted'
<1>1. PICK t : t = [IdleCall EXCEPT !.op = "toggle", !.at = IF button = "wishlist" THEN "loading" ELSE "finding"]
  OBVIOUS
<1>2. t.at \in {"loading", "finding"}
  BY <1>1 DEF IdleCall
<1>3. /\ toggles' = [toggles EXCEPT ![c] = t] /\ toggles[c].at = "idle"
      /\ called < MaxFavouriteCalls /\ called' = called + 1
      /\ UNCHANGED <<button, listed, record, created, decided>>
  BY <1>1 DEF Press
<1>4. /\ IsFiniteSet(Undecided')
      /\ Cardinality(Undecided) \in Nat /\ Cardinality(Mounting) \in Nat /\ Cardinality(Mounting') \in Nat
      /\ Cardinality(Undecided') = Cardinality(Undecided) + 1
      /\ Cardinality(Mounting') = Cardinality(Mounting)
  <2>1. ~UnderWay(toggles[c]) /\ UnderWay(t) /\ toggles[c].at # "checking" /\ t.at # "checking"
    BY <1>2, <1>3 DEF UnderWay
  <2>2. IsFiniteSet(Undecided)
    BY DEF RequestsCounted
  <2> QED
    BY <1>3, <2>1, <2>2, RequestChanges
<1>5. /\ called \in 0..MaxFavouriteCalls /\ decided \in Nat
      /\ decided + Cardinality(Undecided) = called
  BY DEF RequestsCounted
<1>6. called' \in 0..MaxFavouriteCalls /\ decided' + Cardinality(Undecided') = called'
  BY <1>3, <1>4, <1>5, FavouritesAssumption
<1> QED
  BY <1>3, <1>4, <1>6 DEF RequestsCounted

LEMMA RequestsStayCounted ==
  FavouriteTypes /\ RequestsCounted /\ [FavouritesNext]_favouriteVars => RequestsCounted'
<1> SUFFICES ASSUME FavouriteTypes, RequestsCounted, [FavouritesNext]_favouriteVars PROVE RequestsCounted'
  OBVIOUS
<1>1. CASE UNCHANGED <<button, record, created, toggles, called, decided>> /\ listed' \in BOOLEAN
  BY <1>1 DEF RequestsCounted, Undecided, Mounting
<1>2. listed \in BOOLEAN
  BY DEF RequestsCounted
<1>3. CASE DeleteProduct
  BY <1>1, <1>3 DEF DeleteProduct
<1>4. CASE UNCHANGED favouriteVars
  BY <1>1, <1>2, <1>4 DEF favouriteVars
<1>5. ASSUME NEW c \in FavouriteCalls, Check(c) PROVE RequestsCounted'
  <2>1. PICK answer : Answers(c, answer)
    BY <1>5 DEF Check
  <2> QED
    BY <1>2, <1>5, <2>1, DecisionCounts DEF Check
<1>6. ASSUME NEW c \in FavouriteCalls, Press(c) PROVE RequestsCounted'
  BY <1>6, PressCounts
<1>7. ASSUME NEW c \in FavouriteCalls, LoadProduct(c) PROVE RequestsCounted'
  <2>1. CASE listed
    <3>1. PICK t : t = [toggles[c] EXCEPT !.at = "finding"]
      OBVIOUS
    <3>2. toggles[c] \in Toggle
      BY DEF FavouriteTypes
    <3>3. t.at = "finding"
      BY <3>1, <3>2 DEF Toggle
    <3> QED
      BY <1>7, <2>1, <3>1, <3>3, GoingOnCounts DEF LoadProduct
  <2>2. CASE ~listed
    BY <1>2, <1>7, <2>2, DecisionCounts DEF LoadProduct
  <2> QED
    BY <2>1, <2>2
<1>8. ASSUME NEW c \in FavouriteCalls, FindRecord(c) PROVE RequestsCounted'
  <2>1. PICK t : t = [toggles[c] EXCEPT !.at = "found", !.found = record]
    OBVIOUS
  <2>2. toggles[c] \in Toggle
    BY DEF FavouriteTypes
  <2>3. t.at = "found"
    BY <2>1, <2>2 DEF Toggle
  <2> QED
    BY <1>8, <2>1, <2>3, GoingOnCounts DEF FindRecord
<1>9. ASSUME NEW c \in FavouriteCalls, DeleteRecord(c) PROVE RequestsCounted'
  BY <1>2, <1>9, DecisionCounts DEF DeleteRecord
<1>10. ASSUME NEW c \in FavouriteCalls, CreateRecord(c) PROVE RequestsCounted'
  <2>1. CASE Stored
    BY <1>2, <1>10, <2>1, DecisionCounts DEF CreateRecord
  <2>2. CASE ~Stored
    BY <1>2, <1>10, <2>2, DecisionCounts DEF CreateRecord
  <2> QED
    BY <2>1, <2>2
<1>11. ASSUME NEW c \in FavouriteCalls, TakeAnswer(c) \/ LoseAnswer(c) PROVE RequestsCounted'
  <2>1. IdleCall.at = "idle"
    BY IdleIsToggle
  <2> QED
    BY <1>11, <2>1, GoingOnCounts DEF TakeAnswer, LoseAnswer
<1> QED
  BY <1>3, <1>4, <1>5, <1>6, <1>7, <1>8, <1>9, <1>10, <1>11 DEF FavouritesNext

LEMMA RequestsCountedFirst == FavouritesInit => RequestsCounted
<1> SUFFICES ASSUME FavouritesInit PROVE RequestsCounted
  OBVIOUS
<1>1. PICK question : question = [IdleCall EXCEPT !.op = "check", !.at = "checking"]
  OBVIOUS
<1>2. question.at = "checking" /\ IdleCall.at = "idle"
  BY <1>1 DEF IdleCall
<1>3. PICK first \in FavouriteCalls :
        toggles = [c \in FavouriteCalls |-> IF c = first THEN question ELSE IdleCall]
  BY <1>1 DEF FavouritesInit
<1>4. Undecided = {first} /\ Mounting = {first}
  BY <1>2, <1>3 DEF Undecided, Mounting, UnderWay
<1>5. IsFiniteSet(Undecided) /\ Cardinality(Undecided) = 1 /\ Cardinality(Mounting) = 1
  BY <1>4, FS_Singleton
<1>6. /\ called = 1 /\ decided = 0 /\ record \in {0, 1} /\ created = record /\ listed = TRUE
      /\ button \in {"wishlist", "follow"}
  BY DEF FavouritesInit
<1>7. called \in 0..MaxFavouriteCalls
  BY <1>6, FavouritesAssumption
<1> QED
  BY <1>5, <1>6, <1>7 DEF RequestsCounted

\* The types of the heart, the requests decided and the records stored among them.
LEMMA FavouritesTypesHold == FavouritesSpec => []FavouritesTypeOK
<1>1. FavouritesIInv /\ RequestsCounted /\ [FavouritesNext]_favouriteVars => (FavouritesIInv /\ RequestsCounted)'
  BY FavouritesStep, RequestsStayCounted DEF FavouritesIInv
<1>2. FavouritesIInv /\ RequestsCounted => FavouritesTypeOK
  <2> SUFFICES ASSUME FavouritesIInv, RequestsCounted PROVE FavouritesTypeOK
    OBVIOUS
  <2>1. FavouriteTypes /\ RequestsCounted
    BY DEF FavouritesIInv
  <2>2. Mounting \subseteq Undecided
    BY DEF Mounting, Undecided, UnderWay
  <2>3. /\ Cardinality(Mounting) \in Nat /\ Cardinality(Undecided) \in Nat
        /\ Cardinality(Mounting) <= Cardinality(Undecided)
    BY <2>1, <2>2, FS_Subset, FS_CardinalityType DEF RequestsCounted
  <2>4. created \in 0..MaxFavouriteCalls /\ decided \in 0..called
    BY <2>1, <2>3, FavouritesAssumption DEF RequestsCounted
  <2>5. \A c \in FavouriteCalls :
          /\ toggles[c].at \in {"idle", "checking", "loading", "finding", "found", "answered"}
          /\ toggles[c].answer \in {"none", "on", "off", "error"}
    BY <2>1 DEF FavouriteTypes, Toggle
  <2>6. button \in {"wishlist", "follow"} /\ listed \in BOOLEAN /\ record \in 0..created /\ called \in 0..MaxFavouriteCalls
    BY <2>1 DEF RequestsCounted
  <2>7. newest \in 0..decided /\ pressed \in BOOLEAN /\ astray \in BOOLEAN
    BY <2>1 DEF FavouriteTypes
  <2> QED
    BY <2>4, <2>5, <2>6, <2>7 DEF FavouritesTypeOK
<1> QED
  BY <1>1, <1>2, FavouritesInitIInv, RequestsCountedFirst, PTL DEF FavouritesSpec

-----------------------------------------------------------------------------
(* The breaker of Gateway, for every threshold and any number of requests  *)
(* in flight.                                                              *)

GatewaySpec == GatewayInit /\ [][GatewayNext]_gatewayVars

BreakerTypeOK ==
  /\ breaker \in [state : {"CLOSED", "OPEN", "HALF_OPEN"},
                  failureCount : 0..FailureThreshold, successCount : 0..HalfOpenMax]
  /\ streak \in 0..FailureThreshold

\* Closed breakers alone count: what an open or half-open one has counted before
\* is dropped with Closed, at a moment the streak is broken as well.
GIInv == BreakerTypeOK /\ CountsInARow

LEMMA GatewayInitIInv == GatewayInit => GIInv
  BY BreakerAssumption DEF GatewayInit, GIInv, BreakerTypeOK, CountsInARow, Closed

\* A request and a look at the state only ever turn an open breaker half open.
LEMMA CheckKeeps ==
  ASSUME GIInv, breaker' = CheckOpenToHalfOpen, streak' = streak
  PROVE  GIInv'
  <1>1. CASE breaker.state = "OPEN" /\ due
    <2>1. breaker' = [breaker EXCEPT !.state = "HALF_OPEN", !.successCount = 0]
      BY <1>1 DEF CheckOpenToHalfOpen
    <2>2. 0 \in 0..HalfOpenMax
      BY BreakerAssumption
    <2>3. BreakerTypeOK' /\ breaker'.state = "HALF_OPEN"
      BY <2>1, <2>2 DEF GIInv, BreakerTypeOK
    <2> QED
      BY <2>3 DEF GIInv, CountsInARow
  <1>2. CASE ~(breaker.state = "OPEN" /\ due)
    BY <1>2 DEF CheckOpenToHalfOpen, GIInv, BreakerTypeOK, CountsInARow
  <1> QED
    BY <1>1, <1>2

\* A success breaks the streak and empties the count of a breaker it closes or
\* finds closed.
LEMMA SucceedsKeeps ==
  ASSUME GIInv, Succeeds
  PROVE  GIInv'
  <1>1. CASE breaker.state = "HALF_OPEN" /\ breaker.successCount + 1 < HalfOpenMax
    <2>1. breaker' = [breaker EXCEPT !.successCount = @ + 1] /\ streak' = 0
      BY <1>1 DEF Succeeds, OnSuccess
    <2> QED
      BY <1>1, <2>1, BreakerAssumption DEF GIInv, BreakerTypeOK, CountsInARow
  <1>2. CASE ~(breaker.state = "HALF_OPEN" /\ breaker.successCount + 1 < HalfOpenMax)
    <2>1. /\ breaker' = IF breaker.state = "OPEN" THEN breaker ELSE Closed
          /\ streak' = 0
      BY <1>2 DEF Succeeds, OnSuccess
    <2> QED
      BY <2>1, BreakerAssumption DEF GIInv, BreakerTypeOK, CountsInARow, Closed
  <1> QED
    BY <1>1, <1>2

\* A failure counts once on both sides, and opens a breaker at its threshold.
LEMMA FailsKeeps ==
  ASSUME GIInv, Fails
  PROVE  GIInv'
  <1> DEFINE failures == Smaller(breaker.failureCount + 1, FailureThreshold)
             opens == breaker.state = "HALF_OPEN"
                      \/ (breaker.state = "CLOSED" /\ failures >= FailureThreshold)
  <1>1. /\ breaker' = [breaker EXCEPT !.failureCount = failures,
                         !.state = IF opens THEN "OPEN" ELSE @]
        /\ streak' = Smaller(streak + 1, FailureThreshold)
    BY DEF Fails, OnFailure
  <1>2. failures \in 0..FailureThreshold /\ streak' \in 0..FailureThreshold
    BY <1>1, BreakerAssumption DEF GIInv, BreakerTypeOK, Smaller
  <1>3. BreakerTypeOK'
    BY <1>1, <1>2 DEF GIInv, BreakerTypeOK
  <1>4. ASSUME breaker'.state = "CLOSED"
        PROVE  breaker'.failureCount = streak' /\ streak' < FailureThreshold
    <2>1. breaker.state = "CLOSED" /\ ~opens /\ breaker'.failureCount = failures
      BY <1>1, <1>4 DEF GIInv, BreakerTypeOK
    <2>2. breaker.failureCount = streak /\ failures = streak'
      BY <1>1, <2>1 DEF GIInv, CountsInARow
    <2>3. ~(failures >= FailureThreshold)
      BY <2>1
    <2> QED
      BY <1>2, <2>1, <2>2, <2>3, BreakerAssumption
  <1> QED
    BY <1>3, <1>4 DEF GIInv, CountsInARow

LEMMA GatewayNextIInv == GIInv /\ [GatewayNext]_gatewayVars => GIInv'
  <1> SUFFICES ASSUME GIInv, [GatewayNext]_gatewayVars PROVE GIInv'
    OBVIOUS
  <1>1. CASE AnyRequest
    BY <1>1, CheckKeeps DEF AnyRequest, Proxy
  <1>2. CASE Health
    BY <1>2, CheckKeeps DEF Health
  <1>3. CASE AnswerSound
    BY <1>3, SucceedsKeeps DEF AnswerSound
  <1>4. CASE AnswerDoubtful
    BY <1>4, SucceedsKeeps, FailsKeeps DEF AnswerDoubtful
  <1>5. CASE TimePasses \/ GoesDown \/ ComesUp \/ UNCHANGED gatewayVars
    BY <1>5 DEF TimePasses, GoesDown, ComesUp, gatewayVars, GIInv, BreakerTypeOK, CountsInARow
  <1> QED
    BY <1>1, <1>2, <1>3, <1>4, <1>5 DEF GatewayNext

\* For every threshold, any number of probes and of requests in flight, a closed
\* breaker has counted the failures in a row, of however many outages.
THEOREM BreakerCountsInARow == GatewaySpec => []CountsInARow
  <1>1. GIInv => CountsInARow
    BY DEF GIInv
  <1> QED
    BY GatewayInitIInv, GatewayNextIInv, <1>1, PTL DEF GatewaySpec

-----------------------------------------------------------------------------
(* Bell.                                                                   *)

BellSpec == BellInit /\ [][BellNext]_bellVars

Notice == [to : Users, read : BOOLEAN]
List == [1..MaxNotices -> {"absent", "unread", "read"}]
BellCall == [op : {"none", "fetch", "read", "readAll"}, list : Lists, id : Nat,
             by : Users \cup {NoUser}, at : {"asked", "served"}, got : List \cup {<<>>},
             behind : BOOLEAN]

BellTypes ==
  /\ inbox \in Seq(Notice) /\ Len(inbox) <= MaxNotices
  /\ user \in Users \cup {NoUser} /\ onPage \in BOOLEAN
  /\ lists \in [Lists -> List] /\ bellCalls \in [BellCalls -> BellCall]
  /\ had \in [Lists -> SUBSET Nat] /\ confirmed \subseteq Nat /\ stale \subseteq Lists

\* What is pushed, was shown or is confirmed are notices of the tab's user, and what
\* is confirmed is read.
OwnOnly ==
  /\ \A n \in pushed : n \in Notices /\ inbox[n].to = user
  /\ \A l \in Lists : \A n \in had[l] : n \in Notices /\ inbox[n].to = user
  /\ \A n \in confirmed : n \in Notices /\ inbox[n].to = user /\ inbox[n].read

\* No list has a notice before it is stored.
ListsKnown == \A l \in Lists : \A n \in 1..MaxNotices : lists[l][n] # "absent" => n \in Notices

\* What a call asked about, and what it was answered: notices of who asked, and
\* read if the answer says so or was to make them so.
CallKnown(c) ==
  /\ c.op # "none" => c.by \in Users
  /\ c.op = "read" => /\ c.id \in Notices
                      /\ c.at = "served" => inbox[c.id].to = c.by /\ inbox[c.id].read
  /\ c.op \in {"fetch", "readAll"} /\ c.at = "served" =>
       /\ c.got \in List
       /\ \A n \in 1..MaxNotices : c.got[n] # "absent" =>
            /\ n \in Notices /\ inbox[n].to = c.by
            /\ c.op = "readAll" \/ c.got[n] = "read" => inbox[n].read

\* The list l may show `list`: nothing is missing that it showed, and nothing is
\* unread that the user marked.
Agrees(l, list) ==
  \A n \in 1..MaxNotices : /\ n \in had[l] => list[n] # "absent"
                           /\ n \in confirmed => list[n] # "unread"

\* A fetch that nothing has overtaken is the user's, and its answer may be shown.
FetchCurrent(c) ==
  c.op = "fetch" /\ ~c.behind =>
    c.by = user /\ (c.at = "served" => Agrees(c.list, c.got))

\* A page that is not open shows nothing, remembers nothing and waits for nothing.
PageIsGone ==
  ~onPage => /\ lists["page"] = Empty /\ had["page"] = {}
             /\ \A k \in BellCalls : bellCalls[k].op = "fetch" => bellCalls[k].list # "page"

ListHonest(l) ==
  /\ Agrees(l, lists[l])
  /\ \A n \in 1..MaxNotices : lists[l][n] # "absent" =>
       inbox[n].to = user /\ (lists[l][n] = "read" => inbox[n].read)

BellIInv ==
  /\ BellTypes /\ OwnOnly /\ ListsKnown /\ PageIsGone
  /\ \A k \in BellCalls : CallKnown(bellCalls[k]) /\ FetchCurrent(bellCalls[k])
  /\ \A l \in Open \ stale : ListHonest(l)

\* The collection only grows and is only marked as read.
Grows ==
  /\ inbox' \in Seq(Notice) /\ Len(inbox') <= MaxNotices
  /\ \A n \in Notices : /\ n \in Notices' /\ inbox'[n].to = inbox[n].to
                        /\ inbox[n].read => inbox'[n].read

LEMMA InboxStays == ASSUME BellTypes, UNCHANGED inbox PROVE Grows
  BY DEF BellTypes, Grows, Notices

LEMMA NoCallIsCall ==
  /\ NoBellCall \in BellCall /\ NoBellCall.op = "none"
  /\ CallKnown(NoBellCall) /\ FetchCurrent(NoBellCall)
  BY DEF NoBellCall, BellCall, CallKnown, FetchCurrent, Lists

LEMMA EmptyIsList == Empty \in List /\ \A n \in 1..MaxNotices : Empty[n] = "absent"
  BY DEF Empty, List

LEMMA NoticesAreNumbers ==
  ASSUME BellTypes PROVE Notices = 1..Len(inbox) /\ Notices \subseteq 1..MaxNotices /\ Len(inbox) \in Nat
  <1>1. Notices = 1..Len(inbox) /\ Len(inbox) \in Nat
    BY LenProperties DEF BellTypes, Notices
  <1> QED
    BY <1>1, BellAssumption DEF BellTypes

\* What is known of a call stays known.
LEMMA CallStaysKnown ==
  ASSUME Grows, NEW c \in BellCall, CallKnown(c) PROVE CallKnown(c)'
  BY DEF Grows, CallKnown, BellCall, Notices

\* Marking in Behind: nothing else of a call changes.
LEMMA BehindCalls ==
  ASSUME NEW cs \in [BellCalls -> BellCall], NEW At
  PROVE  /\ Behind(cs, At) \in [BellCalls -> BellCall]
         /\ \A k \in BellCalls :
              /\ Behind(cs, At)[k].op = cs[k].op /\ Behind(cs, At)[k].list = cs[k].list
              /\ Behind(cs, At)[k].id = cs[k].id /\ Behind(cs, At)[k].by = cs[k].by
              /\ Behind(cs, At)[k].at = cs[k].at /\ Behind(cs, At)[k].got = cs[k].got
              /\ Behind(cs, At)[k].behind <=> cs[k].behind \/ (cs[k].op = "fetch" /\ cs[k].at \in At)
  <1>1. ASSUME NEW c \in BellCall, NEW b \in BOOLEAN
        PROVE  /\ [c EXCEPT !.behind = b] \in BellCall
               /\ [c EXCEPT !.behind = b].op = c.op /\ [c EXCEPT !.behind = b].list = c.list
               /\ [c EXCEPT !.behind = b].id = c.id /\ [c EXCEPT !.behind = b].by = c.by
               /\ [c EXCEPT !.behind = b].at = c.at /\ [c EXCEPT !.behind = b].got = c.got
               /\ [c EXCEPT !.behind = b].behind = b
    BY DEF BellCall
  <1> DEFINE late(k) == cs[k].behind \/ (cs[k].op = "fetch" /\ cs[k].at \in At)
             next(k) == [cs[k] EXCEPT !.behind = late(k)]
  <1>2. Behind(cs, At) = [k \in BellCalls |-> next(k)]
    BY DEF Behind
  <1>3. \A k \in BellCalls :
          /\ next(k) \in BellCall
          /\ next(k).op = cs[k].op /\ next(k).list = cs[k].list
          /\ next(k).id = cs[k].id /\ next(k).by = cs[k].by
          /\ next(k).at = cs[k].at /\ next(k).got = cs[k].got
          /\ next(k).behind <=> late(k)
    <2> SUFFICES ASSUME NEW k \in BellCalls
                 PROVE  /\ next(k) \in BellCall
                        /\ next(k).op = cs[k].op /\ next(k).list = cs[k].list
                        /\ next(k).id = cs[k].id /\ next(k).by = cs[k].by
                        /\ next(k).at = cs[k].at /\ next(k).got = cs[k].got
                        /\ next(k).behind <=> late(k)
      OBVIOUS
    <2>1. PICK c \in BellCall, b \in BOOLEAN : c = cs[k] /\ b = late(k)
      BY DEF BellCall
    <2>2. next(k) = [c EXCEPT !.behind = b]
      BY <2>1
    <2>3. PICK d : d = [c EXCEPT !.behind = b]
      OBVIOUS
    <2>4. /\ d \in BellCall /\ d.op = c.op /\ d.list = c.list /\ d.id = c.id /\ d.by = c.by
          /\ d.at = c.at /\ d.got = c.got /\ d.behind = b
      BY <1>1, <2>3
    <2> HIDE DEF next
    <2> QED
      BY <2>1, <2>2, <2>3, <2>4
  <1> HIDE DEF next
  <1> QED
    BY <1>2, <1>3

\* What is known of a call does not depend on whether it is behind.
LEMMA KnownBehind ==
  ASSUME NEW c, NEW d, d.op = c.op, d.id = c.id, d.by = c.by, d.at = c.at, d.got = c.got, CallKnown(c)
  PROVE  CallKnown(d)
  BY DEF CallKnown

\* One call changes.
LEMMA OneCallChanges ==
  ASSUME BellIInv, Grows, UNCHANGED <<user, had, confirmed>>,
         NEW k \in BellCalls, NEW c \in BellCall, bellCalls' = [bellCalls EXCEPT ![k] = c],
         CallKnown(c)', FetchCurrent(c)'
  PROVE  /\ bellCalls' \in [BellCalls -> BellCall]
         /\ bellCalls'[k] = c /\ \A j \in BellCalls \ {k} : bellCalls'[j] = bellCalls[j]
         /\ \A j \in BellCalls : (CallKnown(bellCalls[j]) /\ FetchCurrent(bellCalls[j]))'
  <1>1. /\ bellCalls' \in [BellCalls -> BellCall]
        /\ bellCalls'[k] = c /\ \A j \in BellCalls \ {k} : bellCalls'[j] = bellCalls[j]
    BY DEF BellIInv, BellTypes
  <1>2. ASSUME NEW j \in BellCalls PROVE (CallKnown(bellCalls[j]) /\ FetchCurrent(bellCalls[j]))'
    <2>1. CASE j = k
      <3>1. bellCalls'[j] = c
        BY <1>1, <2>1
      <3> QED
        BY <3>1 DEF CallKnown, FetchCurrent
    <2>2. CASE j # k
      <3>1. PICK d \in BellCall : d = bellCalls[j]
        BY DEF BellIInv, BellTypes
      <3>2. bellCalls'[j] = d /\ CallKnown(d)'
        BY <1>1, <2>2, <3>1, CallStaysKnown DEF BellIInv
      <3>3. FetchCurrent(d)'
        BY <3>1 DEF BellIInv, FetchCurrent, Agrees
      <3> QED
        BY <3>2, <3>3 DEF CallKnown, FetchCurrent
    <2> QED
      BY <2>1, <2>2
  <1> QED
    BY <1>1, <1>2

\* No call changes.
LEMMA NoCallChanges ==
  ASSUME BellIInv, Grows, UNCHANGED <<user, had, confirmed, bellCalls>>
  PROVE  \A j \in BellCalls : (CallKnown(bellCalls[j]) /\ FetchCurrent(bellCalls[j]))'
  <1> SUFFICES ASSUME NEW j \in BellCalls PROVE (CallKnown(bellCalls[j]) /\ FetchCurrent(bellCalls[j]))'
    OBVIOUS
  <1>1. PICK d \in BellCall : d = bellCalls[j]
    BY DEF BellIInv, BellTypes
  <1>2. bellCalls'[j] = d /\ CallKnown(d)'
    BY <1>1, CallStaysKnown DEF BellIInv
  <1>3. FetchCurrent(d)'
    BY <1>1 DEF BellIInv, FetchCurrent, Agrees
  <1> QED
    BY <1>2, <1>3 DEF CallKnown, FetchCurrent

\* The tab shows what it showed, to who it did; notices are stored, calls go on.
LEMMA ListsStay ==
  ASSUME BellIInv, Grows, UNCHANGED <<user, lists, had, confirmed, stale>>,
         \A n \in pushed' : n \in pushed \/ (n \in Notices' /\ inbox'[n].to = user),
         onPage' \in BOOLEAN, onPage => onPage', bellCalls' \in [BellCalls -> BellCall],
         \A k \in BellCalls : (CallKnown(bellCalls[k]) /\ FetchCurrent(bellCalls[k]))',
         ~onPage' => \A k \in BellCalls : bellCalls'[k].op = "fetch" => bellCalls'[k].list # "page"
  PROVE  BellIInv'
  <1>1. BellTypes'
    BY DEF BellIInv, BellTypes, Grows
  <1>2. OwnOnly'
    <2>1. \A n \in pushed' : n \in Notices' /\ inbox'[n].to = user
      BY DEF BellIInv, OwnOnly, Grows
    <2>2. \A l \in Lists : \A n \in had[l] : n \in Notices' /\ inbox'[n].to = user
      BY DEF BellIInv, OwnOnly, Grows
    <2>3. \A n \in confirmed : n \in Notices' /\ inbox'[n].to = user /\ inbox'[n].read
      BY DEF BellIInv, OwnOnly, Grows
    <2> QED
      BY <2>1, <2>2, <2>3 DEF OwnOnly
  <1>3. ListsKnown'
    BY DEF BellIInv, ListsKnown, Grows
  <1>4. PageIsGone'
    BY DEF BellIInv, PageIsGone, Empty
  <1>5. ASSUME NEW l \in (Open \ stale)' PROVE ListHonest(l)'
    <2>1. l \in Lists /\ l \notin stale
      BY <1>5 DEF Open
    <2>2. ListHonest(l)
      <3>1. CASE l \in Open
        BY <2>1, <3>1 DEF BellIInv
      <3>2. CASE l \notin Open
        <4>1. lists[l] = Empty /\ had[l] = {}
          BY <2>1, <3>2 DEF Open, BellIInv, PageIsGone
        <4> QED
          BY <4>1, EmptyIsList DEF ListHonest, Agrees
      <3> QED
        BY <3>1, <3>2
    <2>3. Agrees(l, lists[l])'
      BY <2>2 DEF ListHonest, Agrees
    <2>4. ASSUME NEW n \in 1..MaxNotices, lists'[l][n] # "absent"
          PROVE  inbox'[n].to = user' /\ (lists'[l][n] = "read" => inbox'[n].read)
      <3>1. n \in Notices /\ inbox[n].to = user /\ (lists[l][n] = "read" => inbox[n].read)
        BY <2>1, <2>2, <2>4 DEF ListHonest, BellIInv, ListsKnown
      <3> QED
        BY <3>1 DEF Grows
    <2> QED
      BY <2>3, <2>4 DEF ListHonest
  <1> QED
    BY <1>1, <1>2, <1>3, <1>4, <1>5 DEF BellIInv

LEMMA CreateKeeps == ASSUME BellIInv, NEW u \in Users, Create(u) PROVE BellIInv'
  <1>1. PICK m \in Notice : m = [to |-> u, read |-> FALSE]
    BY DEF Notice
  <1>2. inbox' = Append(inbox, m) /\ Len(inbox) < MaxNotices
    BY <1>1 DEF Create
  <1>3. /\ inbox' \in Seq(Notice) /\ Len(inbox') = Len(inbox) + 1
        /\ \A i \in 1..Len(inbox) : inbox'[i] = inbox[i]
        /\ inbox'[Len(inbox) + 1] = m
    BY <1>2, AppendProperties DEF BellIInv, BellTypes
  <1>4. Notices = 1..Len(inbox) /\ Notices' = 1..Len(inbox') /\ Len(inbox) \in Nat
    <2>1. DOMAIN inbox' = 1..Len(inbox')
      BY <1>3, LenProperties
    <2> QED
      BY <2>1, NoticesAreNumbers DEF BellIInv, Notices
  <1>5. Grows
    <2>1. Len(inbox') <= MaxNotices
      BY <1>2, <1>3, <1>4, BellAssumption
    <2> QED
      BY <1>3, <1>4, <2>1 DEF Grows
  <1>6. \A n \in pushed' : n \in pushed \/ (n \in Notices' /\ inbox'[n].to = user)
    <2>1. Len(inbox) + 1 \in Notices' /\ inbox'[Len(inbox) + 1].to = u
      BY <1>1, <1>3, <1>4
    <2> QED
      BY <2>1 DEF Create
  <1>7. UNCHANGED <<user, onPage, lists, bellCalls, had, confirmed, stale>>
    BY DEF Create, bellHistory
  <1>8. \A k \in BellCalls : (CallKnown(bellCalls[k]) /\ FetchCurrent(bellCalls[k]))'
    BY <1>5, <1>7, NoCallChanges
  <1>9. /\ bellCalls' \in [BellCalls -> BellCall] /\ onPage' \in BOOLEAN
        /\ ~onPage' => \A k \in BellCalls : bellCalls'[k].op = "fetch" => bellCalls'[k].list # "page"
    BY <1>7 DEF BellIInv, BellTypes, PageIsGone
  <1> QED
    BY <1>5, <1>6, <1>7, <1>8, <1>9, ListsStay

\* A call is served, sent, answered or lost: it asks for no other list than it did,
\* unless the page is open.
LEMMA CallGoesOn ==
  ASSUME BellIInv, Grows, UNCHANGED <<user, lists, had, confirmed, stale, pushed>>,
         onPage' \in BOOLEAN, onPage => onPage',
         NEW k \in BellCalls, NEW c \in BellCall, bellCalls' = [bellCalls EXCEPT ![k] = c],
         CallKnown(c)', FetchCurrent(c)', c.op = "fetch" /\ c.list = "page" /\ ~onPage' =>
           bellCalls[k].op = "fetch" /\ bellCalls[k].list = "page"
  PROVE  BellIInv'
  <1>1. /\ bellCalls' \in [BellCalls -> BellCall]
        /\ bellCalls'[k] = c /\ \A j \in BellCalls \ {k} : bellCalls'[j] = bellCalls[j]
        /\ \A j \in BellCalls : (CallKnown(bellCalls[j]) /\ FetchCurrent(bellCalls[j]))'
    BY OneCallChanges
  <1>2. ~onPage' => \A j \in BellCalls : bellCalls'[j].op = "fetch" => bellCalls'[j].list # "page"
    BY <1>1 DEF BellIInv, PageIsGone, BellTypes
  <1> QED
    BY <1>1, <1>2, ListsStay

LEMMA ServeFetchKeeps == ASSUME BellIInv, NEW k \in BellCalls, ServeFetch(k) PROVE BellIInv'
  <1>1. PICK c \in BellCall : c = bellCalls[k]
    BY DEF BellIInv, BellTypes
  <1>2. PICK g : g = Listed(c.by)
    OBVIOUS
  <1>3. PICK d : d = [c EXCEPT !.at = "served", !.got = g]
    OBVIOUS
  <1>4. c.op = "fetch" /\ c.at = "asked" /\ bellCalls' = [bellCalls EXCEPT ![k] = d]
    BY <1>1, <1>2, <1>3 DEF ServeFetch
  <1>5. Grows /\ UNCHANGED <<inbox, user, onPage, lists, pushed, had, confirmed, stale>>
    BY InboxStays DEF ServeFetch, bellHistory, BellIInv
  <1>6. /\ g \in List
        /\ \A n \in 1..MaxNotices : g[n] # "absent" =>
             n \in Notices /\ inbox[n].to = c.by /\ (g[n] = "read" => inbox[n].read)
        /\ \A n \in 1..MaxNotices : n \in Notices /\ inbox[n].to = c.by =>
             g[n] # "absent" /\ (inbox[n].read => g[n] # "unread")
    BY <1>2 DEF Listed, List
  <1>7. /\ d \in BellCall /\ d.op = "fetch" /\ d.list = c.list /\ d.by = c.by /\ d.at = "served"
        /\ d.got = g /\ d.behind = c.behind
    BY <1>3, <1>4, <1>6 DEF BellCall
  <1>8. CallKnown(d)'
    <2>1. c.by \in Users
      BY <1>1, <1>4 DEF BellIInv, CallKnown
    <2> QED
      BY <1>5, <1>6, <1>7, <2>1 DEF CallKnown, Notices
  <1>9. FetchCurrent(d)'
    <2>1. SUFFICES ASSUME ~c.behind PROVE c.by = user /\ Agrees(c.list, g)
      BY <1>5, <1>7 DEF FetchCurrent, Agrees
    <2>2. c.by = user /\ c.list \in Lists
      BY <1>1, <1>4, <2>1 DEF BellIInv, FetchCurrent, BellCall
    <2>3. \A n \in had[c.list] : n \in Notices /\ inbox[n].to = c.by
      BY <2>2 DEF BellIInv, OwnOnly
    <2>4. \A n \in confirmed : n \in Notices /\ inbox[n].to = c.by /\ inbox[n].read
      BY <2>2 DEF BellIInv, OwnOnly
    <2> QED
      BY <1>6, <2>2, <2>3, <2>4 DEF Agrees
  <1> QED
    BY <1>1, <1>4, <1>5, <1>7, <1>8, <1>9, CallGoesOn DEF BellIInv, BellTypes

LEMMA ServeMarkReadKeeps == ASSUME BellIInv, NEW k \in BellCalls, ServeMarkRead(k) PROVE BellIInv'
  <1>1. PICK c \in BellCall : c = bellCalls[k]
    BY DEF BellIInv, BellTypes
  <1>2. c.op = "read" /\ c.at = "asked" /\ inbox[c.id].to = c.by /\ c.id \in Notices /\ c.by \in Users
    BY <1>1 DEF ServeMarkRead, BellIInv, CallKnown
  <1>3. PICK d : d = [c EXCEPT !.at = "served"]
    OBVIOUS
  <1>4. bellCalls' = [bellCalls EXCEPT ![k] = d]
    BY <1>1, <1>3 DEF ServeMarkRead
  <1>5. d \in BellCall /\ d.op = "read" /\ d.by = c.by /\ d.id = c.id
    BY <1>2, <1>3 DEF BellCall
  <1>6. PICK m : m = [inbox[c.id] EXCEPT !.read = TRUE]
    OBVIOUS
  <1>7. Notices = 1..Len(inbox) /\ Len(inbox) \in Nat
    BY NoticesAreNumbers DEF BellIInv
  <1>8. m \in Notice /\ m.to = inbox[c.id].to /\ m.read = TRUE
    <2>1. inbox[c.id] \in Notice
      BY <1>2, <1>7, ElementOfSeq DEF BellIInv, BellTypes
    <2> QED
      BY <1>6, <2>1 DEF Notice
  <1>9. inbox' = [inbox EXCEPT ![c.id] = m]
    BY <1>1, <1>6 DEF ServeMarkRead
  <1>10. /\ inbox' \in Seq(Notice) /\ Len(inbox') = Len(inbox)
         /\ \A n \in Notices : inbox'[n] = IF n = c.id THEN m ELSE inbox[n]
    BY <1>2, <1>7, <1>8, <1>9, ExceptSeq DEF BellIInv, BellTypes
  <1>11. Grows /\ Notices' = Notices
    <2>1. DOMAIN inbox' = 1..Len(inbox)
      BY <1>10, LenProperties
    <2>2. Notices' = Notices
      BY <1>7, <2>1 DEF Notices
    <2> QED
      BY <1>8, <1>10, <2>2 DEF Grows, BellIInv, BellTypes
  <1>12. CallKnown(d)'
    BY <1>2, <1>5, <1>8, <1>10, <1>11 DEF CallKnown
  <1>13. FetchCurrent(d)'
    BY <1>5 DEF FetchCurrent
  <1>14. UNCHANGED <<user, onPage, lists, pushed, had, confirmed, stale>>
    BY DEF ServeMarkRead, bellHistory
  <1> QED
    BY <1>4, <1>5, <1>11, <1>12, <1>13, <1>14, CallGoesOn DEF BellIInv, BellTypes

LEMMA ServeMarkAllReadKeeps == ASSUME BellIInv, NEW k \in BellCalls, ServeMarkAllRead(k) PROVE BellIInv'
  <1>1. PICK c \in BellCall : c = bellCalls[k]
    BY DEF BellIInv, BellTypes
  <1>2. PICK g : g = Listed(c.by)
    OBVIOUS
  <1>3. PICK d : d = [c EXCEPT !.at = "served", !.got = g]
    OBVIOUS
  <1>4. c.op = "readAll" /\ c.at = "asked" /\ c.by \in Users /\ bellCalls' = [bellCalls EXCEPT ![k] = d]
    BY <1>1, <1>2, <1>3 DEF ServeMarkAllRead, BellIInv, CallKnown
  <1>5. /\ g \in List
        /\ \A n \in 1..MaxNotices : g[n] # "absent" => n \in Notices /\ inbox[n].to = c.by
    BY <1>2 DEF Listed, List
  <1>6. d \in BellCall /\ d.op = "readAll" /\ d.by = c.by /\ d.got = g
    BY <1>3, <1>4, <1>5 DEF BellCall
  <1>7. Notices = 1..Len(inbox) /\ Len(inbox) \in Nat
    BY NoticesAreNumbers DEF BellIInv
  <1> DEFINE mark(n) == IF inbox[n].to = c.by THEN [inbox[n] EXCEPT !.read = TRUE] ELSE inbox[n]
  <1>8. inbox' = [n \in 1..Len(inbox) |-> mark(n)]
    BY <1>1, <1>7 DEF ServeMarkAllRead
  <1>9. \A n \in 1..Len(inbox) :
          /\ mark(n) \in Notice /\ mark(n).to = inbox[n].to
          /\ mark(n).read <=> inbox[n].read \/ inbox[n].to = c.by
    <2> SUFFICES ASSUME NEW n \in 1..Len(inbox)
                 PROVE  /\ mark(n) \in Notice /\ mark(n).to = inbox[n].to
                        /\ mark(n).read <=> inbox[n].read \/ inbox[n].to = c.by
      OBVIOUS
    <2>1. inbox[n] \in Notice
      BY ElementOfSeq DEF BellIInv, BellTypes
    <2> QED
      BY <2>1 DEF Notice
  <1>10. /\ inbox' \in Seq(Notice) /\ DOMAIN inbox' = 1..Len(inbox)
         /\ \A n \in 1..Len(inbox) : inbox'[n] = mark(n)
    <2>1. [n \in 1..Len(inbox) |-> mark(n)] \in [1..Len(inbox) -> Notice]
      BY <1>9
    <2>2. inbox' \in Seq(Notice)
      BY <1>7, <1>8, <2>1
    <2> QED
      BY <1>8, <2>2
  <1>11. Len(inbox') = Len(inbox)
    BY <1>7, <1>10, LenProperties
  <1>12. Grows /\ Notices' = Notices
    <2>1. Notices' = Notices
      BY <1>7, <1>10 DEF Notices
    <2>2. \A n \in Notices : inbox'[n].to = inbox[n].to /\ (inbox[n].read => inbox'[n].read)
      BY <1>7, <1>9, <1>10
    <2> QED
      BY <1>10, <1>11, <2>1, <2>2 DEF Grows, BellIInv, BellTypes
  <1>13. CallKnown(d)'
    <2>1. \A n \in 1..MaxNotices : g[n] # "absent" =>
            n \in Notices' /\ inbox'[n].to = c.by /\ inbox'[n].read
      <3>1. SUFFICES ASSUME NEW n \in 1..MaxNotices, g[n] # "absent"
                     PROVE  n \in Notices' /\ inbox'[n].to = c.by /\ inbox'[n].read
        OBVIOUS
      <3>2. n \in 1..Len(inbox) /\ inbox[n].to = c.by
        BY <1>5, <1>7, <3>1
      <3>3. inbox'[n] = mark(n) /\ mark(n).to = inbox[n].to /\ mark(n).read
        BY <1>9, <1>10, <3>2
      <3> HIDE DEF mark
      <3> QED
        BY <1>7, <1>12, <3>2, <3>3
    <2> QED
      BY <1>4, <1>5, <1>6, <2>1 DEF CallKnown
  <1>14. FetchCurrent(d)'
    BY <1>6 DEF FetchCurrent
  <1>15. UNCHANGED <<user, onPage, lists, pushed, had, confirmed, stale>>
    BY DEF ServeMarkAllRead, bellHistory
  <1> QED
    BY <1>4, <1>6, <1>12, <1>13, <1>14, <1>15, CallGoesOn DEF BellIInv, BellTypes

\* A call that was just sent is known and current.
Sent(op, l, id, u) == [NoBellCall EXCEPT !.op = op, !.list = l, !.id = id, !.by = u]

LEMMA SentIsCall ==
  ASSUME NEW op \in {"fetch", "read", "readAll"}, NEW l \in Lists, NEW id \in Nat, NEW u \in Users,
         op = "read" => id \in Notices
  PROVE  /\ Sent(op, l, id, u) \in BellCall /\ Sent(op, l, id, u).op = op
         /\ Sent(op, l, id, u).list = l /\ Sent(op, l, id, u).by = u
         /\ Sent(op, l, id, u).at = "asked" /\ CallKnown(Sent(op, l, id, u))
  BY DEF Sent, NoBellCall, BellCall, CallKnown

LEMMA AskKeeps ==
  ASSUME BellIInv, NEW op \in {"fetch", "read", "readAll"}, NEW l \in Lists, NEW id \in Nat,
         op = "read" => id \in Notices, user # NoUser, Ask(op, l, id),
         onPage' \in BOOLEAN, onPage => onPage', op = "fetch" /\ l = "page" => onPage',
         UNCHANGED <<inbox, user, lists, pushed, had, confirmed, stale>>
  PROVE  BellIInv'
  <1>1. PICK c : c = Sent(op, l, id, user)
    OBVIOUS
  <1>2. user \in Users
    BY DEF BellIInv, BellTypes
  <1>3. c \in BellCall /\ c.op = op /\ c.list = l /\ c.by = user /\ c.at = "asked" /\ CallKnown(c)
    BY <1>1, <1>2, SentIsCall
  <1>4. PICK k \in BellCalls : bellCalls' = [bellCalls EXCEPT ![k] = c]
    BY <1>1 DEF Ask, Asked, Sent
  <1>5. Grows
    BY InboxStays DEF BellIInv
  <1>6. CallKnown(c)' /\ FetchCurrent(c)'
    BY <1>3, <1>5, CallStaysKnown DEF FetchCurrent
  <1> QED
    BY <1>3, <1>4, <1>5, <1>6, CallGoesOn

LEMMA PollKeeps == ASSUME BellIInv, Poll PROVE BellIInv'
  BY AskKeeps DEF Poll, bellHistory, Lists, BellIInv, BellTypes

LEMMA HandleMarkReadKeeps == ASSUME BellIInv, NEW n \in Notices, HandleMarkRead(n) PROVE BellIInv'
  <1>1. n \in Nat
    BY NoticesAreNumbers DEF BellIInv
  <1> QED
    BY <1>1, AskKeeps DEF HandleMarkRead, bellHistory, Lists, BellIInv, BellTypes

LEMMA HandleMarkAllKeeps == ASSUME BellIInv, HandleMarkAll PROVE BellIInv'
  BY AskKeeps DEF HandleMarkAll, bellHistory, Lists, BellIInv, BellTypes

LEMMA OpenPageKeeps == ASSUME BellIInv, OpenPage PROVE BellIInv'
  BY AskKeeps DEF OpenPage, bellHistory, Lists, BellIInv, BellTypes

LEMMA BellCallFailsKeeps == ASSUME BellIInv, NEW k \in BellCalls, BellCallFails(k) PROVE BellIInv'
  <1>1. Grows
    BY InboxStays DEF BellIInv, BellCallFails
  <1>2. CallKnown(NoBellCall)' /\ FetchCurrent(NoBellCall)'
    BY <1>1, NoCallIsCall, CallStaysKnown DEF FetchCurrent
  <1> QED
    BY <1>1, <1>2, NoCallIsCall, CallGoesOn DEF BellCallFails, bellHistory, BellIInv, BellTypes

LEMMA LosePushKeeps == ASSUME BellIInv, NEW n \in Notices, LosePush(n) PROVE BellIInv'
  <1>1. Grows /\ UNCHANGED <<inbox, user, onPage, lists, bellCalls, had, confirmed, stale>>
    BY InboxStays DEF BellIInv, LosePush, bellHistory
  <1>2. \A k \in BellCalls : (CallKnown(bellCalls[k]) /\ FetchCurrent(bellCalls[k]))'
    BY <1>1, NoCallChanges
  <1>3. /\ bellCalls' \in [BellCalls -> BellCall] /\ onPage' \in BOOLEAN /\ pushed' \subseteq pushed
        /\ ~onPage' => \A k \in BellCalls : bellCalls'[k].op = "fetch" => bellCalls'[k].list # "page"
    BY <1>1 DEF BellIInv, BellTypes, PageIsGone, LosePush
  <1> QED
    BY <1>1, <1>2, <1>3, ListsStay

-----------------------------------------------------------------------------
\* The tab's user changes, or the page is left.

\* Calls of a page that is gone, or of a user who is: each is as it was, behind at
\* least where it was, or free.
Fewer(cs, ds) ==
  \A k \in BellCalls :
    \/ ds[k] = NoBellCall
    \/ /\ ds[k].op = cs[k].op /\ ds[k].list = cs[k].list /\ ds[k].id = cs[k].id
       /\ ds[k].by = cs[k].by /\ ds[k].at = cs[k].at /\ ds[k].got = cs[k].got
       /\ cs[k].behind => ds[k].behind

LEMMA FewerAreKnown ==
  ASSUME BellIInv, Grows, bellCalls' \in [BellCalls -> BellCall], Fewer(bellCalls, bellCalls')
  PROVE  \A k \in BellCalls : CallKnown(bellCalls[k])'
  <1> SUFFICES ASSUME NEW k \in BellCalls PROVE CallKnown(bellCalls[k])'
    OBVIOUS
  <1>1. PICK c \in BellCall, d \in BellCall : c = bellCalls[k] /\ d = bellCalls'[k]
    BY DEF BellIInv, BellTypes
  <1>2. CallKnown(c)
    BY <1>1 DEF BellIInv
  <1>3. CallKnown(d)
    <2>1. CASE d = NoBellCall
      BY <2>1, NoCallIsCall
    <2>2. CASE d # NoBellCall
      BY <1>1, <1>2, <2>2, KnownBehind DEF Fewer
    <2> QED
      BY <2>1, <2>2
  <1>4. CallKnown(d)'
    BY <1>3, CallStaysKnown
  <1> QED
    BY <1>1, <1>4 DEF CallKnown

LEMMA UnmountedCalls ==
  ASSUME NEW cs \in [BellCalls -> BellCall], NEW l
  PROVE  /\ Unmounted(l, cs) \in [BellCalls -> BellCall] /\ Fewer(cs, Unmounted(l, cs))
         /\ \A k \in BellCalls : Unmounted(l, cs)[k].op = "fetch" => Unmounted(l, cs)[k].list # l
  BY NoCallIsCall DEF Unmounted, Fewer

LEMMA LeavePageKeeps == ASSUME BellIInv, LeavePage PROVE BellIInv'
  <1>1. /\ bellCalls' \in [BellCalls -> BellCall] /\ Fewer(bellCalls, bellCalls')
        /\ \A k \in BellCalls : bellCalls'[k].op = "fetch" => bellCalls'[k].list # "page"
    BY UnmountedCalls DEF LeavePage, BellIInv, BellTypes
  <1>2. UNCHANGED <<inbox, user, pushed, confirmed>> /\ onPage' = FALSE /\ stale' = stale \ {"page"}
    BY DEF LeavePage
  <1>3. /\ lists' \in [Lists -> List] /\ lists'["page"] = Empty /\ lists'["bell"] = lists["bell"]
        /\ had' \in [Lists -> SUBSET Nat] /\ had'["page"] = {} /\ had'["bell"] = had["bell"]
    BY EmptyIsList DEF LeavePage, BellIInv, BellTypes, Lists
  <1>4. Grows
    BY <1>2, InboxStays DEF BellIInv
  <1>5. BellTypes'
    BY <1>1, <1>2, <1>3 DEF BellIInv, BellTypes
  <1>6. OwnOnly'
    BY <1>2, <1>3 DEF BellIInv, OwnOnly, Lists, Notices
  <1>7. ListsKnown'
    BY <1>2, <1>3, EmptyIsList DEF BellIInv, ListsKnown, Lists, Notices
  <1>8. PageIsGone'
    BY <1>1, <1>3 DEF PageIsGone, Empty
  <1>9. ASSUME NEW k \in BellCalls PROVE (CallKnown(bellCalls[k]) /\ FetchCurrent(bellCalls[k]))'
    <2>1. CallKnown(bellCalls[k])'
      BY <1>1, <1>4, FewerAreKnown
    <2>2. PICK c \in BellCall, d \in BellCall : c = bellCalls[k] /\ d = bellCalls'[k]
      BY <1>1 DEF BellIInv, BellTypes
    <2>3. FetchCurrent(c) /\ (d = NoBellCall \/ (d.op = c.op /\ d.list = c.list /\ d.by = c.by
                              /\ d.at = c.at /\ d.got = c.got /\ (c.behind => d.behind)))
      BY <1>1, <2>2 DEF BellIInv, Fewer
    <2>4. d.op = "fetch" => d.list = "bell"
      BY <1>1, <2>2 DEF BellCall, Lists
    <2>5. FetchCurrent(d)'
      BY <1>2, <1>3, <2>3, <2>4, NoCallIsCall DEF FetchCurrent, Agrees
    <2> QED
      BY <2>1, <2>2, <2>5 DEF FetchCurrent
  <1>10. ASSUME NEW l \in (Open \ stale)' PROVE ListHonest(l)'
    <2>1. l = "bell" /\ l \in Open \ stale
      BY <1>2, <1>10 DEF Open, Lists
    <2>2. ListHonest("bell")
      BY <2>1 DEF BellIInv
    <2>3. ListHonest("bell")'
      BY <1>2, <1>3, <2>2 DEF ListHonest, Agrees
    <2> QED
      BY <2>1, <2>3
  <1> QED
    BY <1>5, <1>6, <1>7, <1>8, <1>9, <1>10 DEF BellIInv

\* Nothing is shown, remembered or waited for: whoever comes next starts afresh.
LEMMA SignOutKeeps == ASSUME BellIInv, SignOut PROVE BellIInv'
  <1>1. PICK cs : cs = Unmounted("page", bellCalls)
    OBVIOUS
  <1>2. /\ cs \in [BellCalls -> BellCall] /\ Fewer(bellCalls, cs)
        /\ \A k \in BellCalls : cs[k].op = "fetch" => cs[k].list # "page"
    BY <1>1, UnmountedCalls DEF BellIInv, BellTypes
  <1>3. bellCalls' = Behind(cs, {"asked", "served"})
    BY <1>1 DEF SignOut
  <1>4. /\ bellCalls' \in [BellCalls -> BellCall]
        /\ \A k \in BellCalls :
             /\ bellCalls'[k].op = cs[k].op /\ bellCalls'[k].list = cs[k].list
             /\ bellCalls'[k].id = cs[k].id /\ bellCalls'[k].by = cs[k].by
             /\ bellCalls'[k].at = cs[k].at /\ bellCalls'[k].got = cs[k].got
             /\ bellCalls'[k].behind <=> cs[k].behind \/ (cs[k].op = "fetch" /\ cs[k].at \in {"asked", "served"})
    BY <1>2, <1>3, BehindCalls
  <1>5. UNCHANGED inbox /\ Grows /\ user' = NoUser /\ onPage' = FALSE /\ pushed' = {}
        /\ confirmed' = {} /\ stale' = {}
    BY InboxStays DEF SignOut, BellIInv
  <1>6. /\ lists' \in [Lists -> List] /\ \A l \in Lists : lists'[l] = Empty
        /\ had' \in [Lists -> SUBSET Nat] /\ \A l \in Lists : had'[l] = {}
    BY EmptyIsList DEF SignOut
  <1>7. BellTypes'
    BY <1>4, <1>5, <1>6 DEF BellIInv, BellTypes
  <1>8. OwnOnly'
    BY <1>5, <1>6 DEF OwnOnly
  <1>9. ListsKnown'
    BY <1>6, EmptyIsList DEF ListsKnown
  <1>10. PageIsGone'
    BY <1>2, <1>4, <1>6 DEF PageIsGone, Empty, Lists
  <1>11. ASSUME NEW k \in BellCalls PROVE (CallKnown(bellCalls[k]) /\ FetchCurrent(bellCalls[k]))'
    <2>1. PICK c \in BellCall, b \in BellCall, d \in BellCall : c = bellCalls[k] /\ b = cs[k] /\ d = bellCalls'[k]
      BY <1>2, <1>4 DEF BellIInv, BellTypes
    <2>2. CallKnown(b)
      <3>1. CallKnown(c)
        BY <2>1 DEF BellIInv
      <3>2. CASE b = NoBellCall
        BY <3>2, NoCallIsCall
      <3>3. CASE b # NoBellCall
        BY <1>2, <2>1, <3>1, <3>3, KnownBehind DEF Fewer
      <3> QED
        BY <3>2, <3>3
    <2>3. CallKnown(d)'
      <3>1. CallKnown(d)
        BY <1>4, <2>1, <2>2, KnownBehind
      <3> QED
        BY <1>5, <3>1, CallStaysKnown
    <2>4. FetchCurrent(d)'
      <3>1. d.op = "fetch" => d.behind
        BY <1>4, <2>1 DEF BellCall
      <3> QED
        BY <3>1 DEF FetchCurrent
    <2> QED
      BY <2>1, <2>3, <2>4 DEF CallKnown, FetchCurrent
  <1>12. ASSUME NEW l \in (Open \ stale)' PROVE ListHonest(l)'
    <2>1. l \in Lists
      BY <1>12 DEF Open
    <2> QED
      BY <1>5, <1>6, <2>1, EmptyIsList DEF ListHonest, Agrees
  <1> QED
    BY <1>7, <1>8, <1>9, <1>10, <1>11, <1>12 DEF BellIInv

LEMMA SignInKeeps == ASSUME BellIInv, NEW u \in Users, SignIn(u) PROVE BellIInv'
  <1>20. PICK c : c = [Asked("fetch", "bell", 0) EXCEPT !.by = u]
    OBVIOUS
  <1>1. PICK k \in BellCalls : bellCalls' = [bellCalls EXCEPT ![k] = c]
    BY <1>20 DEF SignIn
  <1>2. c = Sent("fetch", "bell", 0, u)
    BY <1>20 DEF Asked, NoBellCall, Sent
  <1>3. /\ c \in BellCall /\ c.op = "fetch" /\ c.list = "bell" /\ c.by = u /\ c.at = "asked"
        /\ CallKnown(c)
    BY <1>2, SentIsCall DEF Lists
  <1>4. user = NoUser /\ user' = u /\ UNCHANGED <<inbox, onPage, lists, pushed, had, confirmed, stale>>
    BY DEF SignIn, bellHistory
  <1>5. Grows
    BY <1>4, InboxStays DEF BellIInv
  <1>6. /\ bellCalls' \in [BellCalls -> BellCall]
        /\ bellCalls'[k] = c /\ \A j \in BellCalls \ {k} : bellCalls'[j] = bellCalls[j]
    BY <1>1, <1>3 DEF BellIInv, BellTypes
  <1>7. BellTypes'
    BY <1>4, <1>6 DEF BellIInv, BellTypes
  <1>8. \A n \in Notices : inbox[n].to # NoUser
    <2>1. SUFFICES ASSUME NEW n \in Notices PROVE inbox[n] \in Notice
      BY <2>1, BellAssumption DEF Notice
    <2> QED
      BY NoticesAreNumbers, ElementOfSeq DEF BellIInv, BellTypes
  <1>9. pushed = {} /\ confirmed = {} /\ \A l \in Lists : had[l] = {}
    BY <1>4, <1>8 DEF BellIInv, OwnOnly
  <1>10. OwnOnly'
    BY <1>4, <1>9 DEF OwnOnly
  <1>11. ListsKnown' /\ PageIsGone'
    <2>1. ListsKnown'
      BY <1>4 DEF BellIInv, ListsKnown, Notices
    <2>2. PageIsGone'
      BY <1>3, <1>4, <1>6 DEF BellIInv, PageIsGone, Empty
    <2> QED
      BY <2>1, <2>2
  <1>12. ASSUME NEW j \in BellCalls PROVE (CallKnown(bellCalls[j]) /\ FetchCurrent(bellCalls[j]))'
    <2>1. PICK d \in BellCall : d = bellCalls'[j]
      BY <1>6
    <2>2. CallKnown(d)' /\ FetchCurrent(d)'
      <3>1. CASE j = k
        BY <1>3, <1>4, <1>5, <1>6, <2>1, <3>1, CallStaysKnown DEF FetchCurrent
      <3>2. CASE j # k
        <4>1. d = bellCalls[j]
          BY <1>6, <2>1, <3>2
        <4>2. CallKnown(d) /\ FetchCurrent(d)
          BY <4>1 DEF BellIInv
        <4>3. d.op = "fetch" => d.behind
          BY <1>4, <4>2, BellAssumption DEF CallKnown, FetchCurrent
        <4> QED
          BY <1>5, <4>2, <4>3, CallStaysKnown DEF FetchCurrent
      <3> QED
        BY <3>1, <3>2
    <2> QED
      BY <2>1, <2>2 DEF CallKnown, FetchCurrent
  <1>13. ASSUME NEW l \in (Open \ stale)' PROVE ListHonest(l)'
    <2>1. l \in Lists /\ l \in Open \ stale
      BY <1>4, <1>13 DEF Open
    <2>2. \A n \in 1..MaxNotices : lists[l][n] # "absent" => n \in Notices /\ inbox[n].to = NoUser
      BY <1>4, <2>1 DEF BellIInv, ListHonest, ListsKnown
    <2>3. \A n \in 1..MaxNotices : lists[l][n] = "absent"
      BY <1>8, <2>2
    <2> QED
      BY <1>4, <1>9, <2>1, <2>3 DEF ListHonest, Agrees
  <1> QED
    BY <1>7, <1>10, <1>11, <1>12, <1>13 DEF BellIInv

-----------------------------------------------------------------------------
\* The tab hears.

LEMMA OpenLists == Open \subseteq Lists /\ "bell" \in Open /\ (onPage => Open = Lists)
  BY DEF Open, Lists

\* Notices and their user are what they were; answers on their way may have become
\* older than what is shown.
LEMMA TabHears ==
  ASSUME BellIInv, UNCHANGED <<inbox, user, onPage>>,
         lists' \in [Lists -> List], pushed' \subseteq pushed,
         had' \in [Lists -> SUBSET Nat], confirmed' \subseteq Nat, stale' \subseteq Lists,
         bellCalls' \in [BellCalls -> BellCall], Fewer(bellCalls, bellCalls'),
         \A l \in Lists : \A n \in had'[l] : n \in Notices /\ inbox[n].to = user,
         \A n \in confirmed' : n \in Notices /\ inbox[n].to = user /\ inbox[n].read,
         \A l \in Lists : \A n \in 1..MaxNotices : lists'[l][n] # "absent" => n \in Notices,
         ~onPage => lists'["page"] = Empty /\ had'["page"] = {},
         \A k \in BellCalls : FetchCurrent(bellCalls[k])',
         \A l \in Open \ stale' : ListHonest(l)'
  PROVE  BellIInv'
  <1>1. Grows
    BY InboxStays DEF BellIInv
  <1>2. BellTypes'
    BY DEF BellIInv, BellTypes
  <1>3. OwnOnly'
    BY DEF BellIInv, OwnOnly, Notices
  <1>4. ListsKnown'
    BY DEF ListsKnown, Notices
  <1>5. PageIsGone'
    BY NoCallIsCall DEF PageIsGone, Fewer, BellIInv, Empty
  <1>6. \A k \in BellCalls : CallKnown(bellCalls[k])'
    BY <1>1, FewerAreKnown
  <1> QED
    BY <1>2, <1>3, <1>4, <1>5, <1>6 DEF BellIInv, Open

\* Calls marked as behind are known as they were.
LEMMA BehindAreFewer ==
  ASSUME NEW cs \in [BellCalls -> BellCall], NEW ds \in [BellCalls -> BellCall], NEW At,
         Fewer(cs, ds)
  PROVE  Fewer(cs, Behind(ds, At))
  <1>1. Behind(ds, At) \in [BellCalls -> BellCall]
    BY BehindCalls
  <1>2. ASSUME NEW k \in BellCalls, ds[k] = NoBellCall PROVE Behind(ds, At)[k] = NoBellCall
    <2>1. PICK d \in BellCall : d = Behind(ds, At)[k]
      BY <1>1
    <2>2. /\ d.op = NoBellCall.op /\ d.list = NoBellCall.list /\ d.id = NoBellCall.id /\ d.by = NoBellCall.by
          /\ d.at = NoBellCall.at /\ d.got = NoBellCall.got /\ d.behind = FALSE
      BY <1>2, <2>1, BehindCalls DEF NoBellCall, BellCall
    <2> QED
      BY <2>1, <2>2 DEF BellCall, NoBellCall
  <1>3. ASSUME NEW k \in BellCalls, ds[k] # NoBellCall
        PROVE  /\ Behind(ds, At)[k].op = cs[k].op /\ Behind(ds, At)[k].list = cs[k].list
               /\ Behind(ds, At)[k].id = cs[k].id /\ Behind(ds, At)[k].by = cs[k].by
               /\ Behind(ds, At)[k].at = cs[k].at /\ Behind(ds, At)[k].got = cs[k].got
               /\ cs[k].behind => Behind(ds, At)[k].behind
    BY <1>3, BehindCalls DEF Fewer
  <1> QED
    BY <1>2, <1>3 DEF Fewer

\* A fetch that is still current after the served ones were left behind was asked and
\* not yet served.
LEMMA StillAsked ==
  ASSUME BellIInv, NEW ds \in [BellCalls -> BellCall], Fewer(bellCalls, ds),
         bellCalls' = Behind(ds, {"served"}), user' = user
  PROVE  \A k \in BellCalls : FetchCurrent(bellCalls[k])'
  <1> SUFFICES ASSUME NEW k \in BellCalls PROVE FetchCurrent(bellCalls[k])'
    OBVIOUS
  <1>1. PICK c \in BellCall, b \in BellCall, d \in BellCall : c = bellCalls[k] /\ b = ds[k] /\ d = bellCalls'[k]
    BY BehindCalls DEF BellIInv, BellTypes
  <1>2. d.op = b.op /\ d.by = b.by /\ d.at = b.at /\ (d.behind <=> b.behind \/ (b.op = "fetch" /\ b.at = "served"))
    BY <1>1, BehindCalls
  <1>3. b.op = "fetch" => b.op = c.op /\ b.by = c.by /\ b.at = c.at /\ (c.behind => b.behind)
    BY <1>1, NoCallIsCall DEF Fewer
  <1>4. FetchCurrent(c)
    BY <1>1 DEF BellIInv
  <1>5. FetchCurrent(d)'
    BY <1>2, <1>3, <1>4 DEF FetchCurrent
  <1> QED
    BY <1>1, <1>5 DEF FetchCurrent

LEMMA NoneFewer == ASSUME NEW cs \in [BellCalls -> BellCall] PROVE Fewer(cs, cs)
  BY DEF Fewer

LEMMA OneFewer ==
  ASSUME NEW cs \in [BellCalls -> BellCall], NEW k \in BellCalls
  PROVE  [cs EXCEPT ![k] = NoBellCall] \in [BellCalls -> BellCall] /\ Fewer(cs, [cs EXCEPT ![k] = NoBellCall])
  BY NoCallIsCall DEF Fewer

LEMMA HearPushKeeps == ASSUME BellIInv, NEW n \in Notices, HearPush(n) PROVE BellIInv'
  <1>1. /\ n \in pushed /\ pushed' \subseteq pushed /\ bellCalls' = Behind(bellCalls, {"served"})
        /\ UNCHANGED <<inbox, user, onPage, confirmed>>
    BY DEF HearPush
  <1>2. inbox[n].to = user /\ n \in 1..MaxNotices /\ n \in Nat
    BY <1>1, NoticesAreNumbers DEF BellIInv, OwnOnly
  <1>3. lists' \in [Lists -> List]
    BY DEF HearPush, BellIInv, BellTypes, List
  <1>4. \A l \in Lists \ Open : lists'[l] = lists[l] /\ had'[l] = had[l]
    BY DEF HearPush
  <1>5. \A l \in Open : /\ had'[l] = had[l] \cup {n}
                        /\ \A m \in 1..MaxNotices :
                             lists'[l][m] = IF m = n /\ lists[l][n] = "absent" THEN "unread" ELSE lists[l][m]
    <2> SUFFICES ASSUME NEW l \in Open
                 PROVE  /\ had'[l] = had[l] \cup {n}
                        /\ \A m \in 1..MaxNotices :
                             lists'[l][m] = IF m = n /\ lists[l][n] = "absent" THEN "unread" ELSE lists[l][m]
      OBVIOUS
    <2>1. l \in Lists /\ lists[l] \in List
      BY OpenLists DEF BellIInv, BellTypes
    <2>2. lists'[l] = IF lists[l][n] = "absent" THEN [lists[l] EXCEPT ![n] = "unread"] ELSE lists[l]
      BY <2>1 DEF HearPush
    <2>3. had'[l] = had[l] \cup {n}
      BY <2>1 DEF HearPush
    <2> QED
      BY <1>2, <2>1, <2>2, <2>3 DEF List
  <1>6. had' \in [Lists -> SUBSET Nat]
    BY <1>2 DEF HearPush, BellIInv, BellTypes
  <1>7. \A l \in Lists : \A m \in had'[l] : m \in Notices /\ inbox[m].to = user
    BY <1>2, <1>4, <1>5 DEF BellIInv, OwnOnly
  <1>8. \A l \in Lists : \A m \in 1..MaxNotices : lists'[l][m] # "absent" => m \in Notices
    BY <1>4, <1>5 DEF BellIInv, ListsKnown
  <1>9. /\ ~onPage => lists'["page"] = Empty /\ had'["page"] = {}
        /\ \A m \in confirmed' : m \in Notices /\ inbox[m].to = user /\ inbox[m].read
        /\ confirmed' \subseteq Nat
    <2>1. ~onPage => "page" \in Lists \ Open
      BY DEF Open, Lists
    <2> QED
      BY <1>1, <1>4, <2>1 DEF BellIInv, BellTypes, PageIsGone, OwnOnly
  <1>10. /\ bellCalls' \in [BellCalls -> BellCall] /\ Fewer(bellCalls, bellCalls')
         /\ \A k \in BellCalls : FetchCurrent(bellCalls[k])'
    BY <1>1, BehindCalls, NoneFewer, BehindAreFewer, StillAsked DEF BellIInv, BellTypes
  <1>11. stale' \subseteq Lists
    BY OpenLists DEF HearPush, BellIInv, BellTypes
  <1>12. ASSUME NEW l \in Open \ stale' PROVE ListHonest(l)'
    <2>1. l \in Lists /\ l \in Open \ stale /\ (n \in confirmed => lists[l][n] # "absent")
      BY <1>12, OpenLists DEF HearPush
    <2>2. ListHonest(l)
      BY <2>1 DEF BellIInv
    <2>3. ASSUME NEW m \in 1..MaxNotices
          PROVE  /\ m \in had'[l] => lists'[l][m] # "absent"
                 /\ m \in confirmed => lists'[l][m] # "unread"
                 /\ lists'[l][m] # "absent" => inbox[m].to = user /\ (lists'[l][m] = "read" => inbox[m].read)
      <3>1. CASE m = n
        BY <1>2, <1>5, <2>1, <2>2, <2>3, <3>1 DEF ListHonest, Agrees
      <3>2. CASE m # n
        BY <1>5, <2>1, <2>2, <2>3, <3>2 DEF ListHonest, Agrees
      <3> QED
        BY <3>1, <3>2
    <2> QED
      BY <1>1, <2>3 DEF ListHonest, Agrees
  <1> QED
    BY <1>1, <1>3, <1>6, <1>7, <1>8, <1>9, <1>10, <1>11, <1>12, TabHears

LEMMA TakeReadKeeps == ASSUME BellIInv, NEW k \in BellCalls, TakeRead(k) PROVE BellIInv'
  <1>1. PICK c \in BellCall : c = bellCalls[k]
    BY DEF BellIInv, BellTypes
  <1>2. c.op = "read" /\ c.at = "served" /\ CallKnown(c)
    BY <1>1 DEF TakeRead, BellIInv
  <1>3. c.id \in Notices /\ inbox[c.id].to = c.by /\ inbox[c.id].read /\ c.by \in Users
    BY <1>2 DEF CallKnown
  <1>4. c.id \in 1..MaxNotices /\ c.id \in Nat
    BY <1>3, NoticesAreNumbers DEF BellIInv
  <1>5. UNCHANGED <<inbox, user, onPage, pushed, had, stale>>
    BY DEF TakeRead
  <1>6. \A l \in Lists : \A n \in 1..MaxNotices :
          lists'[l][n] = IF n = c.id /\ lists[l][n] = "unread" THEN "read" ELSE lists[l][n]
    BY <1>1 DEF TakeRead, Read
  <1>7. lists' \in [Lists -> List]
    BY <1>1 DEF TakeRead, Read, BellIInv, BellTypes, List
  <1>8. confirmed' \in {confirmed, confirmed \cup {c.id}} /\ (confirmed' # confirmed => c.by = user)
    BY <1>1 DEF TakeRead
  <1>9. PICK ds \in [BellCalls -> BellCall] : /\ ds = [bellCalls EXCEPT ![k] = NoBellCall]
                                              /\ Fewer(bellCalls, ds)
    BY OneFewer DEF BellIInv, BellTypes
  <1>10. /\ bellCalls' \in [BellCalls -> BellCall] /\ Fewer(bellCalls, bellCalls')
         /\ \A j \in BellCalls : FetchCurrent(bellCalls[j])'
    <2>1. bellCalls' = Behind(ds, {"served"})
      BY <1>9 DEF TakeRead
    <2> QED
      BY <1>5, <1>9, <2>1, BehindCalls, BehindAreFewer, StillAsked DEF BellIInv, BellTypes
  <1>11. \A n \in confirmed' : n \in Notices /\ inbox[n].to = user /\ inbox[n].read
    BY <1>3, <1>8 DEF BellIInv, OwnOnly
  <1>12. \A l \in Lists : \A n \in 1..MaxNotices : lists'[l][n] # "absent" => n \in Notices
    BY <1>6 DEF BellIInv, ListsKnown
  <1>13. ~onPage => lists'["page"] = Empty /\ had'["page"] = {}
    <2>1. SUFFICES ASSUME lists["page"] = Empty PROVE lists'["page"] = Empty
      BY <1>5 DEF BellIInv, PageIsGone
    <2>2. lists'["page"] = Read(Empty, {c.id})
      BY <1>1, <2>1 DEF TakeRead, Lists
    <2> QED
      BY <2>2 DEF Read, Empty
  <1>14. ASSUME NEW l \in Open \ stale' PROVE ListHonest(l)'
    <2>1. l \in Lists /\ ListHonest(l)
      BY <1>5, <1>14, OpenLists DEF BellIInv
    <2>2. ASSUME NEW n \in 1..MaxNotices
          PROVE  /\ n \in had'[l] => lists'[l][n] # "absent"
                 /\ n \in confirmed' => lists'[l][n] # "unread"
                 /\ lists'[l][n] # "absent" => inbox[n].to = user /\ (lists'[l][n] = "read" => inbox[n].read)
      BY <1>3, <1>5, <1>6, <1>8, <2>1, <2>2 DEF ListHonest, Agrees
    <2> QED
      BY <1>5, <2>2 DEF ListHonest, Agrees
  <1>15. /\ had' \in [Lists -> SUBSET Nat] /\ confirmed' \subseteq Nat /\ stale' \subseteq Lists /\ pushed' \subseteq pushed
         /\ \A l \in Lists : \A n \in had'[l] : n \in Notices /\ inbox[n].to = user
    BY <1>4, <1>5, <1>8 DEF BellIInv, BellTypes, OwnOnly
  <1> QED
    BY <1>5, <1>7, <1>10, <1>11, <1>12, <1>13, <1>14, <1>15, TabHears

LEMMA TakeReadAllKeeps == ASSUME BellIInv, NEW k \in BellCalls, TakeReadAll(k) PROVE BellIInv'
  <1>1. PICK c \in BellCall : c = bellCalls[k]
    BY DEF BellIInv, BellTypes
  <1>2. c.op = "readAll" /\ c.at = "served" /\ CallKnown(c)
    BY <1>1 DEF TakeReadAll, BellIInv
  <1>3. \A n \in 1..MaxNotices : c.got[n] # "absent" => n \in Notices /\ inbox[n].to = c.by /\ inbox[n].read
    BY <1>2 DEF CallKnown
  <1>4. Notices \subseteq 1..MaxNotices /\ Notices \subseteq Nat
    BY NoticesAreNumbers DEF BellIInv
  <1>5. UNCHANGED <<inbox, user, onPage, pushed, had>>
    BY DEF TakeReadAll
  <1>6. \A l \in Lists : \A n \in 1..MaxNotices :
          lists'[l][n] = IF lists[l][n] = "unread" THEN "read" ELSE lists[l][n]
    BY DEF TakeReadAll, Read
  <1>7. lists' \in [Lists -> List]
    BY DEF TakeReadAll, Read, BellIInv, BellTypes, List
  <1>8. confirmed' = IF c.by = user THEN confirmed \cup {n \in Notices : c.got[n] # "absent"} ELSE confirmed
    BY <1>1 DEF TakeReadAll
  <1>9. PICK ds \in [BellCalls -> BellCall] : /\ ds = [bellCalls EXCEPT ![k] = NoBellCall]
                                              /\ Fewer(bellCalls, ds)
    BY OneFewer DEF BellIInv, BellTypes
  <1>10. /\ bellCalls' \in [BellCalls -> BellCall] /\ Fewer(bellCalls, bellCalls')
         /\ \A j \in BellCalls : FetchCurrent(bellCalls[j])'
    <2>1. bellCalls' = Behind(ds, {"served"})
      BY <1>9 DEF TakeReadAll
    <2> QED
      BY <1>5, <1>9, <2>1, BehindCalls, BehindAreFewer, StillAsked DEF BellIInv, BellTypes
  <1>11. \A n \in confirmed' : n \in Notices /\ inbox[n].to = user /\ inbox[n].read
    BY <1>3, <1>4, <1>8 DEF BellIInv, OwnOnly
  <1>12. \A l \in Lists : \A n \in 1..MaxNotices : lists'[l][n] # "absent" => n \in Notices
    BY <1>6 DEF BellIInv, ListsKnown
  <1>13. ~onPage => lists'["page"] = Empty /\ had'["page"] = {}
    <2>1. SUFFICES ASSUME lists["page"] = Empty PROVE lists'["page"] = Empty
      BY <1>5 DEF BellIInv, PageIsGone
    <2>2. lists'["page"] = Read(Empty, 1..MaxNotices)
      BY <2>1 DEF TakeReadAll, Lists
    <2> QED
      BY <2>2 DEF Read, Empty
  <1>14. ASSUME NEW l \in Open \ stale' PROVE ListHonest(l)'
    <2>1. l \in Lists /\ l \in Open \ stale
      BY <1>14, OpenLists DEF TakeReadAll
    <2>2. \A n \in 1..MaxNotices : lists[l][n] = "unread" => c.got[n] # "absent"
      BY <1>1, <1>14, <2>1 DEF TakeReadAll
    <2>3. ListHonest(l)
      BY <2>1 DEF BellIInv
    <2>4. ASSUME NEW n \in 1..MaxNotices
          PROVE  /\ n \in had'[l] => lists'[l][n] # "absent"
                 /\ n \in confirmed' => lists'[l][n] # "unread"
                 /\ lists'[l][n] # "absent" => inbox[n].to = user /\ (lists'[l][n] = "read" => inbox[n].read)
      BY <1>3, <1>5, <1>6, <2>1, <2>2, <2>3, <2>4 DEF ListHonest, Agrees
    <2> QED
      BY <1>5, <2>4 DEF ListHonest, Agrees
  <1>15. /\ had' \in [Lists -> SUBSET Nat] /\ confirmed' \subseteq Nat /\ stale' \subseteq Lists /\ pushed' \subseteq pushed
         /\ \A l \in Lists : \A n \in had'[l] : n \in Notices /\ inbox[n].to = user
    <2>1. stale' \subseteq Lists
      BY DEF TakeReadAll, BellIInv, BellTypes
    <2>2. confirmed' \subseteq Nat
      BY <1>4, <1>8 DEF BellIInv, BellTypes
    <2> QED
      BY <1>5, <2>1, <2>2 DEF BellIInv, BellTypes, OwnOnly
  <1> QED
    BY <1>5, <1>7, <1>10, <1>11, <1>12, <1>13, <1>14, <1>15, TabHears

LEMMA TakeListKeeps == ASSUME BellIInv, NEW k \in BellCalls, TakeList(k) PROVE BellIInv'
  <1>1. PICK c \in BellCall : c = bellCalls[k]
    BY DEF BellIInv, BellTypes
  <1>2. c.op = "fetch" /\ c.at = "served" /\ CallKnown(c) /\ FetchCurrent(c) /\ c.list \in Lists
    BY <1>1 DEF TakeList, BellIInv, BellCall
  <1>3. /\ c.got \in List
        /\ \A n \in 1..MaxNotices : c.got[n] # "absent" =>
             n \in Notices /\ inbox[n].to = c.by /\ (c.got[n] = "read" => inbox[n].read)
    BY <1>2 DEF CallKnown
  <1>4. Notices \subseteq 1..MaxNotices /\ Notices \subseteq Nat
    BY NoticesAreNumbers DEF BellIInv
  <1>5. UNCHANGED <<inbox, user, onPage, pushed, confirmed>>
    BY DEF TakeList
  <1>6. PICK new : new = {n \in Notices : c.got[n] # "absent" /\ c.by = user}
    OBVIOUS
  <1>7. /\ lists' = [lists EXCEPT ![c.list] = c.got] /\ had' = [had EXCEPT ![c.list] = had[c.list] \cup new]
        /\ stale' = IF c.behind THEN stale \cup {c.list} ELSE stale \ {c.list}
    BY <1>1, <1>6 DEF TakeList
  <1>8. /\ lists' \in [Lists -> List] /\ lists'[c.list] = c.got
        /\ \A l \in Lists \ {c.list} : lists'[l] = lists[l] /\ had'[l] = had[l]
        /\ had' \in [Lists -> SUBSET Nat] /\ had'[c.list] = had[c.list] \cup new
    BY <1>2, <1>3, <1>4, <1>6, <1>7 DEF BellIInv, BellTypes
  <1>9. \A n \in new : n \in Notices /\ inbox[n].to = user /\ c.got[n] # "absent"
    BY <1>3, <1>4, <1>6
  <1> DEFINE same(j) == bellCalls[j].op = "fetch" /\ bellCalls[j].list = c.list /\ bellCalls[j].at = "served"
             late(j) == [bellCalls[j] EXCEPT !.behind = bellCalls[j].behind \/ Older(bellCalls[j].got, c.got)]
             next(j) == IF j = k THEN NoBellCall ELSE IF same(j) THEN late(j) ELSE bellCalls[j]
  <1>10. bellCalls' = [j \in BellCalls |-> next(j)]
    BY <1>1 DEF TakeList
  <1>11. ASSUME NEW j \in BellCalls
         PROVE  /\ late(j) \in BellCall /\ late(j).op = bellCalls[j].op /\ late(j).list = bellCalls[j].list
                /\ late(j).id = bellCalls[j].id /\ late(j).by = bellCalls[j].by
                /\ late(j).at = bellCalls[j].at /\ late(j).got = bellCalls[j].got
                /\ late(j).behind <=> bellCalls[j].behind \/ Older(bellCalls[j].got, c.got)
    <2>1. PICK d \in BellCall : d = bellCalls[j]
      BY DEF BellIInv, BellTypes
    <2>2. PICK b \in BOOLEAN : b <=> d.behind \/ Older(d.got, c.got)
      OBVIOUS
    <2>3. late(j) = [d EXCEPT !.behind = b]
      <3>1. b = (d.behind \/ Older(d.got, c.got))
        BY <2>1, <2>2 DEF BellCall, Older
      <3> QED
        BY <2>1, <3>1
    <2>4. /\ [d EXCEPT !.behind = b] \in BellCall /\ [d EXCEPT !.behind = b].op = d.op
          /\ [d EXCEPT !.behind = b].list = d.list /\ [d EXCEPT !.behind = b].id = d.id
          /\ [d EXCEPT !.behind = b].by = d.by /\ [d EXCEPT !.behind = b].at = d.at
          /\ [d EXCEPT !.behind = b].got = d.got /\ [d EXCEPT !.behind = b].behind = b
      BY DEF BellCall
    <2> HIDE DEF late
    <2> QED
      BY <2>1, <2>2, <2>3, <2>4
  <1> HIDE DEF late
  <1>12. \A j \in BellCalls : bellCalls'[j] = next(j) /\ next(j) \in BellCall
    BY <1>10, <1>11, NoCallIsCall DEF BellIInv, BellTypes
  <1>13. bellCalls' \in [BellCalls -> BellCall]
    BY <1>10, <1>12
  <1>14. Fewer(bellCalls, bellCalls')
    BY <1>11, <1>12 DEF Fewer
  <1>15. ASSUME NEW j \in BellCalls PROVE FetchCurrent(bellCalls[j])'
    <2>1. PICK d \in BellCall, e \in BellCall : d = bellCalls[j] /\ e = bellCalls'[j]
      BY <1>13 DEF BellIInv, BellTypes
    <2>2. FetchCurrent(d) /\ CallKnown(d)
      BY <2>1 DEF BellIInv
    <2>3. FetchCurrent(e)'
      <3>1. CASE j = k
        BY <1>12, <2>1, <3>1, NoCallIsCall DEF FetchCurrent
      <3>2. CASE j # k /\ same(j)
        <4>1. /\ e.op = "fetch" /\ d.op = "fetch" /\ e.list = c.list /\ d.list = c.list /\ e.by = d.by
              /\ e.at = "served" /\ d.at = "served" /\ e.got = d.got
              /\ e.behind <=> d.behind \/ Older(d.got, c.got)
          BY <1>11, <1>12, <2>1, <3>2
        <4>2. SUFFICES ASSUME ~e.behind PROVE e.by = user /\ Agrees(c.list, d.got)'
          BY <1>5, <4>1 DEF FetchCurrent, Agrees
        <4>3. d.by = user /\ Agrees(c.list, d.got) /\ ~Older(d.got, c.got)
          BY <2>2, <4>1, <4>2 DEF FetchCurrent
        <4>4. \A n \in 1..MaxNotices : c.got[n] # "absent" => d.got[n] # "absent"
          BY <4>3 DEF Older
        <4>5. \A n \in 1..MaxNotices : n \in had'[c.list] => d.got[n] # "absent"
          BY <1>8, <1>9, <4>3, <4>4 DEF Agrees
        <4> QED
          BY <1>5, <4>1, <4>3, <4>5 DEF Agrees
      <3>3. CASE j # k /\ ~same(j)
        <4>1. e = d
          BY <1>12, <2>1, <3>3
        <4>2. d.op = "fetch" /\ d.at = "served" => d.list \in Lists \ {c.list}
          BY <2>1, <3>3 DEF BellCall
        <4> QED
          BY <1>5, <1>8, <2>2, <4>1, <4>2 DEF FetchCurrent, Agrees
      <3> QED
        BY <3>1, <3>2, <3>3
    <2> QED
      BY <2>1, <2>3 DEF FetchCurrent
  <1>16. \A l \in Lists : \A n \in had'[l] : n \in Notices /\ inbox[n].to = user
    BY <1>2, <1>8, <1>9 DEF BellIInv, OwnOnly
  <1>17. \A l \in Lists : \A n \in 1..MaxNotices : lists'[l][n] # "absent" => n \in Notices
    BY <1>2, <1>3, <1>8 DEF BellIInv, ListsKnown
  <1>18. ~onPage => lists'["page"] = Empty /\ had'["page"] = {}
    BY <1>1, <1>2, <1>8 DEF BellIInv, PageIsGone, Lists
  <1>19. ASSUME NEW l \in Open \ stale' PROVE ListHonest(l)'
    <2>1. l \in Lists
      BY <1>19, OpenLists
    <2>2. CASE l = c.list
      <3>1. ~c.behind
        BY <1>7, <1>19, <2>2
      <3>2. c.by = user /\ Agrees(c.list, c.got)
        BY <1>2, <3>1 DEF FetchCurrent
      <3>3. ASSUME NEW n \in 1..MaxNotices
            PROVE  /\ n \in had'[l] => lists'[l][n] # "absent"
                   /\ n \in confirmed => lists'[l][n] # "unread"
                   /\ lists'[l][n] # "absent" => inbox[n].to = user /\ (lists'[l][n] = "read" => inbox[n].read)
        BY <1>3, <1>8, <1>9, <2>2, <3>2, <3>3 DEF Agrees
      <3> QED
        BY <1>5, <3>3 DEF ListHonest, Agrees
    <2>3. CASE l # c.list
      <3>1. l \in Open \ stale /\ lists'[l] = lists[l] /\ had'[l] = had[l]
        BY <1>7, <1>8, <1>19, <2>1, <2>3
      <3>2. ListHonest(l)
        BY <3>1 DEF BellIInv
      <3> QED
        BY <1>5, <3>1, <3>2 DEF ListHonest, Agrees
    <2> QED
      BY <2>2, <2>3
  <1>20. /\ confirmed' \subseteq Nat /\ stale' \subseteq Lists /\ pushed' \subseteq pushed
         /\ \A n \in confirmed' : n \in Notices /\ inbox[n].to = user /\ inbox[n].read
    BY <1>2, <1>5, <1>7 DEF BellIInv, BellTypes, OwnOnly
  <1> QED
    BY <1>5, <1>8, <1>13, <1>14, <1>15, <1>16, <1>17, <1>18, <1>19, <1>20, TabHears

-----------------------------------------------------------------------------
LEMMA BellInitIInv == BellInit => BellIInv
  <1> SUFFICES ASSUME BellInit PROVE BellIInv
    OBVIOUS
  <1>1. /\ inbox = <<>> /\ user = NoUser /\ onPage = FALSE
        /\ lists = [l \in Lists |-> Empty] /\ bellCalls = [k \in BellCalls |-> NoBellCall]
        /\ pushed = {} /\ had = [l \in Lists |-> {}] /\ confirmed = {} /\ stale = {}
    BY DEF BellInit
  <1>2. BellTypes
    <2>1. inbox \in Seq(Notice) /\ Len(inbox) = 0
      BY <1>1, EmptySeq
    <2>2. Len(inbox) <= MaxNotices
      BY <2>1, BellAssumption
    <2>3. lists \in [Lists -> List] /\ bellCalls \in [BellCalls -> BellCall] /\ had \in [Lists -> SUBSET Nat]
      BY <1>1, EmptyIsList, NoCallIsCall
    <2>4. user \in Users \cup {NoUser} /\ onPage \in BOOLEAN /\ confirmed \subseteq Nat /\ stale \subseteq Lists
      BY <1>1
    <2> QED
      BY <2>1, <2>2, <2>3, <2>4 DEF BellTypes
  <1>3. OwnOnly /\ ListsKnown /\ PageIsGone
    BY <1>1, EmptyIsList, NoCallIsCall DEF OwnOnly, ListsKnown, PageIsGone, Lists
  <1>4. \A k \in BellCalls : CallKnown(bellCalls[k]) /\ FetchCurrent(bellCalls[k])
    BY <1>1, NoCallIsCall
  <1>5. \A l \in Lists : ListHonest(l)
    BY <1>1, EmptyIsList DEF ListHonest, Agrees
  <1> QED
    BY <1>2, <1>3, <1>4, <1>5, OpenLists DEF BellIInv

LEMMA BellStepIInv == BellIInv /\ [BellNext]_bellVars => BellIInv'
  <1> SUFFICES ASSUME BellIInv, [BellNext]_bellVars PROVE BellIInv'
    OBVIOUS
  <1>1. ASSUME NEW u \in Users, Create(u) \/ SignIn(u) PROVE BellIInv'
    BY <1>1, CreateKeeps, SignInKeeps
  <1>2. ASSUME NEW n \in Notices, HandleMarkRead(n) \/ HearPush(n) \/ LosePush(n) PROVE BellIInv'
    BY <1>2, HandleMarkReadKeeps, HearPushKeeps, LosePushKeeps
  <1>3. ASSUME NEW k \in BellCalls, ServeFetch(k) \/ ServeMarkRead(k) \/ ServeMarkAllRead(k) PROVE BellIInv'
    BY <1>3, ServeFetchKeeps, ServeMarkReadKeeps, ServeMarkAllReadKeeps
  <1>4. ASSUME NEW k \in BellCalls, TakeList(k) \/ TakeRead(k) \/ TakeReadAll(k) \/ BellCallFails(k)
        PROVE  BellIInv'
    BY <1>4, TakeListKeeps, TakeReadKeeps, TakeReadAllKeeps, BellCallFailsKeeps
  <1>5. CASE Poll \/ HandleMarkAll \/ OpenPage \/ LeavePage \/ SignOut
    BY <1>5, PollKeeps, HandleMarkAllKeeps, OpenPageKeeps, LeavePageKeeps, SignOutKeeps
  <1>6. CASE UNCHANGED bellVars
    <2>1. UNCHANGED <<inbox, user, onPage, lists, bellCalls, pushed, had, confirmed, stale>>
      BY <1>6 DEF bellVars
    <2>2. Grows
      BY <2>1, InboxStays DEF BellIInv
    <2>3. \A k \in BellCalls : (CallKnown(bellCalls[k]) /\ FetchCurrent(bellCalls[k]))'
      BY <2>1, <2>2, NoCallChanges
    <2>4. /\ bellCalls' \in [BellCalls -> BellCall] /\ onPage' \in BOOLEAN
          /\ ~onPage' => \A k \in BellCalls : bellCalls'[k].op = "fetch" => bellCalls'[k].list # "page"
      BY <2>1 DEF BellIInv, BellTypes, PageIsGone
    <2> QED
      BY <2>1, <2>2, <2>3, <2>4, ListsStay
  <1> QED
    BY <1>1, <1>2, <1>3, <1>4, <1>5, <1>6 DEF BellNext

\* However pushes, polls, marks and changes of user interleave, and however many
\* notices and requests there are, a list that has not taken an answer or a push older
\* than itself is the user's, complete and true (Layout.tsx, Notifications.tsx).
THEOREM ListsTellTheTruth == BellSpec => []ListsAreHonest
  <1>1. BellIInv => ListsAreHonest
    BY NoticesAreNumbers DEF BellIInv, ListHonest, Agrees, ListsAreHonest
  <1> QED
    BY <1>1, BellInitIInv, BellStepIInv, PTL DEF BellSpec

BellBounds == asks \in 0..MaxBellAsks /\ signIns \in 0..MaxSignIns

\* The types of the bell and the page: what is asked and who signs in is counted.
LEMMA BellTypesHold == BellSpec => []BellTypeOK
<1>1. BellInit => BellBounds
  BY BellAssumption DEF BellInit, BellBounds
<1>2. BellBounds /\ [BellNext]_bellVars => BellBounds'
  <2> SUFFICES ASSUME BellBounds, [BellNext]_bellVars PROVE BellBounds'
    OBVIOUS
  <2>1. /\ asks' = asks \/ (asks < MaxBellAsks /\ asks' = asks + 1)
        /\ signIns' = signIns \/ (signIns < MaxSignIns /\ signIns' = signIns + 1)
    BY DEF BellNext, Create, ServeFetch, ServeMarkRead, ServeMarkAllRead, Ask, Poll, HandleMarkRead, HandleMarkAll,
           OpenPage, LeavePage, SignIn, SignOut, HearPush, LosePush, TakeList, TakeRead, TakeReadAll,
           BellCallFails, bellVars
  <2> QED
    BY <2>1, BellAssumption DEF BellBounds
<1>3. BellIInv /\ BellBounds => BellTypeOK
  <2> SUFFICES ASSUME BellIInv, BellBounds PROVE BellTypeOK
    OBVIOUS
  <2>1. \A n \in Notices : inbox[n] \in Notice
    BY ElementOfSeq DEF BellIInv, BellTypes, Notices
  <2>2. \A n \in Notices : inbox[n].to \in Users /\ inbox[n].read \in BOOLEAN
    BY <2>1 DEF Notice
  <2>3. pushed \subseteq Notices /\ confirmed \subseteq Notices /\ \A l \in Lists : had[l] \subseteq Notices
    BY DEF BellIInv, OwnOnly
  <2>4. had \in [Lists -> SUBSET Notices]
    BY <2>3 DEF BellIInv, BellTypes
  <2>5. \A k \in BellCalls : bellCalls[k].op \in {"none", "fetch", "read", "readAll"}
    BY DEF BellIInv, BellTypes, BellCall
  <2> QED
    BY <2>2, <2>3, <2>4, <2>5 DEF BellIInv, BellTypes, BellBounds, BellTypeOK, List
<1> QED
  BY <1>1, <1>2, <1>3, BellInitIInv, BellStepIInv, PTL DEF BellSpec

-----------------------------------------------------------------------------
(* Assistant.                                                              *)

AssistantSpec == AssistantInit /\ [][AssistantNext]_assistantVars

\* A run of sendMessage under way.
Run(r) ==
  /\ r.at \in {"upload", "create", "created", "model", "answered"} /\ r.photo \in Nat
  /\ \E kind, round : r = [at |-> r.at, kind |-> kind, photo |-> r.photo, round |-> round]

Busy(s) == sends[s] # NoSend

PageTypes ==
  /\ picked \in Nat /\ picked <= MaxPhotos /\ attachedImage \in 0..picked
  /\ draft.is \in BOOLEAN /\ draft.photo \in 0..picked
  /\ ~draft.is => draft.photo = 0
  /\ draft.photo # 0 => draft.photo # attachedImage
  /\ sends = [s \in Sends |-> sends[s]] /\ \A s \in Sends : Busy(s) => Run(sends[s])
  /\ photoPosts \in [Photos -> Nat]

\* One run at a time, and its message is the one without an answer.
OneRun ==
  /\ \A s, t \in Sends : Busy(s) /\ Busy(t) => s = t
  /\ isSending <=> \E s \in Sends : Busy(s)
  /\ says \in Int /\ answers = says - (IF \E s \in Sends : Busy(s) THEN 1 ELSE 0)

\* A run has the draft's photo, or the one attached unless that was taken away; a
\* question for the model has none.  The photo is posted once the run says so.
RunsOfPage ==
  \A s \in Sends : Busy(s) =>
    /\ sends[s].photo <= picked
    /\ sends[s].at \in {"model", "answered"} =>
         sends[s].photo = 0 /\ attachedImage = 0 /\ ~draft.is
    /\ sends[s].at \in {"upload", "create", "created"} =>
         /\ draft.is => sends[s].photo = draft.photo
         /\ ~draft.is => /\ attachedImage \in {sends[s].photo, 0}
                         /\ sends[s].photo # 0 /\ attachedImage = 0 => sends[s].photo \in removed
    /\ sends[s].photo # 0 =>
         photoPosts[sends[s].photo] = IF sends[s].at = "created" THEN 1 ELSE 0

\* A photo is posted once at most, and one that is still on the page only while the
\* run that posted it is about to clear the page.
PostedOnce ==
  \A p \in Photos :
    /\ photoPosts[p] \in {0, 1}
    /\ photoPosts[p] = 1 => p <= picked
    /\ photoPosts[p] = 1 /\ p \in {attachedImage, draft.photo} =>
         \E s \in Sends : Busy(s) /\ sends[s].photo = p /\ sends[s].at = "created"

\* No photo is lost.
PhotosKept ==
  \A p \in 1..picked : \/ p \in removed \cup ignored \cup {attachedImage, draft.photo}
                       \/ photoPosts[p] = 1

AssistantGood == PageTypes /\ OneRun /\ RunsOfPage /\ PostedOnce /\ PhotosKept

\* Doubts stay.
AssistantIInv == doubted \/ AssistantGood

LEMMA PhotosOnly == ASSUME PageTypes PROVE 1..picked \subseteq Photos
  BY AssistantAssumption DEF PageTypes, Photos

LEMMA NobodyIsBusy ==
  ASSUME OneRun, ~isSending PROVE (\A s \in Sends : sends[s] = NoSend) /\ answers = says
  BY DEF OneRun, Busy

LEMMA RunIsBusy == ASSUME NEW r, Run(r) PROVE r # NoSend
  BY DEF Run, NoSend

LEMMA HandleImageChangeKeeps == ASSUME AssistantGood, HandleImageChange PROVE AssistantGood'
  <1>1. /\ \A s \in Sends : sends[s] = NoSend
        /\ answers = says /\ picked < MaxPhotos /\ picked' = picked + 1 /\ attachedImage' = picked + 1
        /\ removed' = removed \cup ({attachedImage} \ {0})
        /\ UNCHANGED <<draft, isSending, sends, photoPosts, says, answers, ignored>>
    BY NobodyIsBusy DEF HandleImageChange, AssistantGood
  <1>2. PageTypes'
    <2>1. picked \in Nat /\ attachedImage \in 0..picked /\ draft.photo \in 0..picked
      BY DEF AssistantGood, PageTypes
    <2>2. picked' \in Nat /\ picked' <= MaxPhotos /\ attachedImage' \in 0..picked'
          /\ draft.photo \in 0..picked' /\ draft.photo # attachedImage'
      BY <1>1, <2>1, AssistantAssumption
    <2> QED
      BY <1>1, <2>2 DEF AssistantGood, PageTypes, Busy
  <1>3. OneRun'
    BY <1>1 DEF AssistantGood, OneRun, Busy
  <1>4. RunsOfPage'
    BY <1>1 DEF RunsOfPage, Busy
  <1>5. PostedOnce'
    <2>1. SUFFICES ASSUME NEW p \in Photos
                   PROVE  /\ photoPosts[p] \in {0, 1}
                          /\ photoPosts[p] = 1 => p <= picked + 1
                          /\ ~(photoPosts[p] = 1 /\ p \in {picked + 1, draft.photo})
      BY <1>1 DEF PostedOnce
    <2>2. /\ photoPosts[p] \in {0, 1} /\ (photoPosts[p] = 1 => p <= picked)
          /\ ~(photoPosts[p] = 1 /\ p = draft.photo)
      BY <1>1 DEF AssistantGood, PostedOnce, Busy
    <2>3. p \in Nat /\ picked \in Nat
      BY DEF AssistantGood, PageTypes, Photos
    <2> QED
      BY <2>2, <2>3
  <1>6. PhotosKept'
    <2>1. SUFFICES ASSUME NEW p \in 1..(picked + 1)
                   PROVE  p \in removed' \cup ignored \cup {picked + 1, draft.photo} \/ photoPosts[p] = 1
      BY <1>1 DEF PhotosKept
    <2>2. p = picked + 1 \/ p \in 1..picked
      BY DEF AssistantGood, PageTypes
    <2>3. p # 0
      OBVIOUS
    <2> QED
      BY <1>1, <2>2, <2>3 DEF AssistantGood, PhotosKept
  <1> QED
    BY <1>2, <1>3, <1>4, <1>5, <1>6 DEF AssistantGood

LEMMA RemoveImageKeeps == ASSUME AssistantGood, RemoveImage PROVE AssistantGood'
  <1>1. /\ attachedImage # 0 /\ attachedImage' = 0 /\ removed' = removed \cup {attachedImage}
        /\ UNCHANGED <<draft, isSending, sends, photoPosts, says, answers, picked, ignored>>
    BY DEF RemoveImage
  <1>2. PageTypes'
    BY <1>1 DEF AssistantGood, PageTypes, Busy
  <1>3. OneRun'
    BY <1>1 DEF AssistantGood, OneRun, Busy
  <1>4. RunsOfPage'
    BY <1>1 DEF AssistantGood, RunsOfPage, Busy, PageTypes, Run
  <1>5. PostedOnce'
    BY <1>1 DEF AssistantGood, PostedOnce, Busy, Photos
  <1>6. PhotosKept'
    BY <1>1 DEF AssistantGood, PhotosKept
  <1> QED
    BY <1>2, <1>3, <1>4, <1>5, <1>6 DEF AssistantGood

LEMMA SameAssistant ==
  ASSUME AssistantGood,
         UNCHANGED <<attachedImage, draft, isSending, sends, photoPosts, says, answers, picked, removed, ignored>>
  PROVE  AssistantGood'
  BY DEF AssistantGood, PageTypes, OneRun, RunsOfPage, PostedOnce, PhotosKept, Busy

\* A post under way may have been made when the page is left, and is the photo's first.
LEMMA LeaveAssistantKeeps == ASSUME AssistantGood, NEW timers, LeaveAssistant(timers) PROVE AssistantGood'
  <1>1. /\ attachedImage' = 0 /\ draft' = NoDraft /\ isSending' = FALSE
        /\ sends' = [s \in Sends |-> NoSend] /\ answers' = says /\ removed' = 1..picked
        /\ UNCHANGED <<says, picked, ignored>>
    BY DEF LeaveAssistant
  <1>2. PICK made \in SUBSET {s \in Sends : sends[s].at \in {"upload", "create"}} :
          photoPosts' = [p \in Photos |-> photoPosts[p] + Cardinality({s \in made : sends[s].photo = p})]
    BY DEF LeaveAssistant
  <1>3. ASSUME NEW p \in Photos
        PROVE  photoPosts'[p] \in {0, 1} /\ (photoPosts'[p] = 1 => p <= picked)
    <2> DEFINE P == {s \in made : sends[s].photo = p}
    <2>1. photoPosts'[p] = photoPosts[p] + Cardinality(P)
      BY <1>2
    <2>2. photoPosts[p] \in {0, 1} /\ (photoPosts[p] = 1 => p <= picked) /\ p # 0
      BY DEF AssistantGood, PostedOnce, Photos
    <2>3. CASE P = {}
      <3>1. Cardinality(P) = 0
        BY <2>3, FS_EmptySet
      <3> HIDE DEF P
      <3> QED
        BY <2>1, <2>2, <3>1
    <2>4. CASE P # {}
      <3>1. PICK s \in Sends : s \in P
        BY <2>4
      <3>2. Busy(s) /\ sends[s].at \in {"upload", "create"} /\ sends[s].photo = p
        BY <1>2, <3>1 DEF Busy, NoSend
      <3>3. P = {s}
        <4>1. \A t \in P : t = s
          BY <1>2, <3>2 DEF AssistantGood, OneRun, Busy, NoSend
        <4> QED
          BY <3>1, <4>1
      <3>4. photoPosts[p] = 0 /\ p <= picked
        BY <2>2, <3>2 DEF AssistantGood, RunsOfPage
      <3> QED
        <4>1. Cardinality(P) = 1
          BY <3>3, FS_Singleton
        <4> HIDE DEF P
        <4> QED
          BY <2>1, <3>4, <4>1
    <2> QED
      BY <2>3, <2>4
  <1>4. PageTypes'
    <2>1. photoPosts' \in [Photos -> Nat]
      <3>1. DOMAIN photoPosts' = Photos /\ photoPosts' = [p \in Photos |-> photoPosts'[p]]
        BY <1>2
      <3> QED
        BY <1>3, <3>1
    <2>2. /\ draft'.is = FALSE /\ draft'.photo = 0 /\ picked' \in Nat /\ picked' <= MaxPhotos
          /\ attachedImage' \in 0..picked' /\ draft'.photo \in 0..picked'
      BY <1>1 DEF NoDraft, AssistantGood, PageTypes
    <2>3. \A s \in Sends : sends'[s] = NoSend
      BY <1>1
    <2> QED
      BY <1>1, <2>1, <2>2, <2>3 DEF PageTypes, Busy
  <1>5. OneRun'
    BY <1>1 DEF OneRun, Busy, AssistantGood
  <1>6. RunsOfPage'
    BY <1>1 DEF RunsOfPage, Busy
  <1>7. PostedOnce'
    BY <1>1, <1>3 DEF PostedOnce, NoDraft, Photos
  <1>8. PhotosKept'
    BY <1>1 DEF PhotosKept
  <1> QED
    BY <1>4, <1>5, <1>6, <1>7, <1>8 DEF AssistantGood

-----------------------------------------------------------------------------
\* sendMessage, while nothing is under way and the page is what was clicked.
Idle == AssistantGood /\ \A s \in Sends : sends[s] = NoSend

\* The end of a message that asks the user: the draft may take the attached photo.
LEMMA QuestionKeeps ==
  ASSUME Idle, NEW s \in Sends, NEW newDraft, Question(newDraft, s), newDraft.is = TRUE,
         says' = says + 1, UNCHANGED <<photoPosts, picked, removed>>,
         \/ newDraft.photo = attachedImage /\ ~draft.is
         \/ newDraft.photo = draft.photo /\ draft.is
  PROVE  AssistantGood'
  <1>1. /\ draft' = newDraft /\ attachedImage' = 0 /\ isSending' = FALSE /\ answers' = answers + 1
        /\ sends' = sends /\ ignored \subseteq ignored'
        /\ draft.is => attachedImage \in ignored' \cup {0}
    BY DEF Question, AnswerShown
  <1>2. /\ picked \in Nat /\ picked <= MaxPhotos /\ attachedImage \in 0..picked /\ draft.photo \in 0..picked
        /\ ~draft.is => draft.photo = 0
    BY DEF Idle, AssistantGood, PageTypes
  <1>3. newDraft.photo \in 0..picked
    BY <1>2
  <1>4. PageTypes'
    <2>1. /\ sends' = [t \in Sends |-> sends'[t]] /\ \A t \in Sends : ~Busy(t)'
          /\ photoPosts' \in [Photos -> Nat]
      BY <1>1 DEF Idle, AssistantGood, PageTypes, Busy
    <2>2. /\ picked' \in Nat /\ picked' <= MaxPhotos /\ attachedImage' \in 0..picked'
          /\ draft'.is = TRUE /\ draft'.photo \in 0..picked' /\ attachedImage' = 0
      BY <1>1, <1>2, <1>3
    <2> QED
      BY <2>1, <2>2 DEF PageTypes
  <1>5. OneRun'
    BY <1>1 DEF Idle, AssistantGood, OneRun, Busy
  <1>6. RunsOfPage'
    BY <1>1 DEF Idle, RunsOfPage, Busy
  <1>7. PostedOnce'
    <2>1. SUFFICES ASSUME NEW p \in Photos
                   PROVE  /\ photoPosts[p] \in {0, 1} /\ (photoPosts[p] = 1 => p <= picked)
                          /\ ~(photoPosts[p] = 1 /\ p \in {0, newDraft.photo})
      BY <1>1 DEF PostedOnce
    <2>2. /\ photoPosts[p] \in {0, 1} /\ (photoPosts[p] = 1 => p <= picked)
          /\ ~(photoPosts[p] = 1 /\ p \in {attachedImage, draft.photo})
      BY DEF Idle, AssistantGood, PostedOnce, Busy
    <2> QED
      BY <2>2 DEF Photos
  <1>8. PhotosKept'
    <2>1. SUFFICES ASSUME NEW p \in 1..picked
                   PROVE  p \in removed \cup ignored' \cup {0, newDraft.photo} \/ photoPosts[p] = 1
      BY <1>1 DEF PhotosKept
    <2>2. p \in removed \cup ignored \cup {attachedImage, draft.photo} \/ photoPosts[p] = 1
      BY DEF Idle, AssistantGood, PhotosKept
    <2> QED
      BY <1>1, <1>2, <2>2
  <1> QED
    BY <1>4, <1>5, <1>6, <1>7, <1>8 DEF AssistantGood

LEMMA AwaitKeeps ==
  ASSUME Idle, NEW s \in Sends, NEW at \in {"upload", "create", "model"}, NEW kind, NEW photo,
         Await(s, at, kind, photo),
         says' = says + 1, UNCHANGED <<photoPosts, picked, removed>>,
         at = "model" => photo = 0 /\ attachedImage = 0 /\ ~draft.is,
         draft.is => photo = draft.photo,
         ~draft.is => photo = attachedImage
  PROVE  AssistantGood'
  <1>1. PICK r : r = [at |-> at, kind |-> kind, photo |-> photo, round |-> 0]
    OBVIOUS
  <1>2. /\ sends' = [sends EXCEPT ![s] = r] /\ isSending' = TRUE
        /\ UNCHANGED <<attachedImage, draft, answers, ignored>>
    BY <1>1 DEF Await
  <1>3. /\ picked \in Nat /\ picked <= MaxPhotos /\ attachedImage \in 0..picked /\ draft.photo \in 0..picked
        /\ draft.is \in BOOLEAN /\ sends = [t \in Sends |-> sends[t]]
    BY DEF Idle, AssistantGood, PageTypes
  <1>4. photo \in 0..picked /\ r.at = at /\ r.photo = photo /\ Run(r) /\ r # NoSend
    <2>1. photo \in 0..picked /\ r.at = at /\ r.photo = photo
      BY <1>1, <1>3
    <2>2. Run(r)
      <3>1. r = [at |-> r.at, kind |-> kind, photo |-> r.photo, round |-> 0]
        BY <1>1, <2>1
      <3>2. r.photo \in Nat /\ r.at \in {"upload", "create", "created", "model", "answered"}
        BY <1>3, <2>1
      <3> QED
        BY <3>1, <3>2 DEF Run
    <2> QED
      BY <2>1, <2>2, RunIsBusy
  <1>5. sends'[s] = r /\ \A t \in Sends \ {s} : sends'[t] = NoSend
    BY <1>2, <1>3 DEF Idle
  <1>6. PageTypes'
    <2>1. sends' = [t \in Sends |-> sends'[t]]
      BY <1>2, <1>3
    <2>2. \A t \in Sends : Busy(t)' => Run(sends[t])'
      BY <1>4, <1>5 DEF Busy, Run
    <2> QED
      BY <1>2, <2>1, <2>2 DEF Idle, AssistantGood, PageTypes
  <1>7. OneRun'
    <2>1. answers = says /\ says \in Int
      BY DEF Idle, AssistantGood, OneRun, Busy
    <2> QED
      BY <1>2, <1>4, <1>5, <2>1 DEF OneRun, Busy
  <1>8. photo # 0 => photo \in Photos /\ photoPosts[photo] = 0
    <2>1. photo # 0 => photo \in Photos
      BY <1>3, <1>4, AssistantAssumption DEF Photos
    <2>2. photo \in {attachedImage, draft.photo}
      BY <1>3
    <2> QED
      BY <2>1, <2>2 DEF Idle, AssistantGood, PostedOnce, Busy
  <1>9. RunsOfPage'
    <2>1. SUFFICES ASSUME NEW t \in Sends, Busy(t)'
          PROVE  /\ sends'[t].photo <= picked
                 /\ sends'[t].at \in {"model", "answered"} =>
                      sends'[t].photo = 0 /\ attachedImage = 0 /\ ~draft.is
                 /\ sends'[t].at \in {"upload", "create", "created"} =>
                      /\ draft.is => sends'[t].photo = draft.photo
                      /\ ~draft.is => sends'[t].photo = attachedImage
                 /\ sends'[t].photo # 0 => photoPosts[sends'[t].photo] = 0
                 /\ sends'[t].at # "created"
      BY <1>2, <2>1 DEF RunsOfPage
    <2>2. t = s /\ sends'[t] = r
      BY <1>5, <2>1 DEF Busy
    <2> QED
      BY <1>3, <1>4, <1>8, <2>2
  <1>10. PostedOnce'
    BY <1>2 DEF Idle, AssistantGood, PostedOnce, Busy
  <1>11. PhotosKept'
    BY <1>2 DEF Idle, AssistantGood, PhotosKept
  <1> QED
    BY <1>6, <1>7, <1>9, <1>10, <1>11 DEF AssistantGood

LEMMA SendKeeps ==
  ASSUME AssistantGood, NEW page, NEW told, SendToAssistant(page, told), ~doubted'
  PROVE  AssistantGood'
  <1>1. page = Rendered /\ \A s \in Sends : sends[s] = NoSend
    BY DEF SendToAssistant
  <1>2. page.draft = draft /\ page.photo = attachedImage /\ page.selected = selectedType
    BY <1>1 DEF Rendered
  <1>3. PICK s \in Sends : IF draft.is THEN HandleDraftReply(s, page, told) ELSE HandleNewMessage(s, page, told)
    BY <1>2 DEF SendToAssistant
  <1>4. Idle /\ says' = says + 1 /\ UNCHANGED <<photoPosts, picked, removed>>
    BY <1>1, <1>2 DEF SendToAssistant, Idle
  <1>5. draft.is \in BOOLEAN
    BY <1>4 DEF AssistantGood, PageTypes
  <1>6. ASSUME NEW kind, NEW place, NEW photo, CreateLostFoundFromChat(s, kind, place, photo),
               draft.is => photo = draft.photo, ~draft.is => photo = attachedImage
        PROVE  AssistantGood'
    <2>1. CASE ~place
      <3>1. PICK d : d = [is |-> TRUE, kind |-> kind, place |-> FALSE, photo |-> photo]
        OBVIOUS
      <3>2. Question(d, s) /\ d.is = TRUE /\ d.photo = photo
        BY <1>6, <2>1, <3>1 DEF CreateLostFoundFromChat
      <3> QED
        BY <1>4, <1>5, <1>6, <3>2, QuestionKeeps
    <2>2. CASE place
      <3>1. PICK at \in {"upload", "create", "model"} : Await(s, at, kind, photo) /\ at # "model"
        BY <1>6, <2>2 DEF CreateLostFoundFromChat
      <3> QED
        BY <1>4, <1>5, <1>6, <3>1, AwaitKeeps
    <2> QED
      BY <2>1, <2>2
  <1>7. CASE draft.is
    <2>1. HandleDraftReply(s, page, told)
      BY <1>3, <1>7
    <2>2. PICK kind : kind = FirstKnown(<<page.draft.kind, page.selected, told.kind>>)
      OBVIOUS
    <2>3. CASE kind = NoKind
      <3>1. Question(draft, s) /\ draft.is = TRUE
        BY <1>2, <1>5, <1>7, <2>1, <2>2, <2>3 DEF HandleDraftReply
      <3> QED
        BY <1>4, <1>5, <1>7, <3>1, QuestionKeeps
    <2>4. CASE kind # NoKind
      <3>1. CreateLostFoundFromChat(s, kind, draft.place \/ told.place, draft.photo)
        BY <1>2, <2>1, <2>2, <2>4 DEF HandleDraftReply
      <3> QED
        BY <1>6, <1>7, <3>1
    <2> QED
      BY <2>3, <2>4
  <1>8. CASE ~draft.is
    <2>1. HandleNewMessage(s, page, told)
      BY <1>3, <1>8
    <2>2. PICK kind : kind = FirstKnown(<<page.selected, told.kind>>)
      OBVIOUS
    <2>3. CASE kind # NoKind
      <3>1. CreateLostFoundFromChat(s, kind, told.place, attachedImage)
        BY <1>2, <2>1, <2>2, <2>3 DEF HandleNewMessage
      <3> QED
        BY <1>6, <1>8, <3>1
    <2>4. CASE kind = NoKind /\ attachedImage # 0
      <3>1. PICK d : d = [is |-> TRUE, kind |-> NoKind, place |-> told.place, photo |-> attachedImage]
        OBVIOUS
      <3>2. Question(d, s) /\ d.is = TRUE /\ d.photo = attachedImage
        BY <1>2, <2>1, <2>2, <2>4, <3>1 DEF HandleNewMessage
      <3> QED
        BY <1>4, <1>5, <1>8, <3>2, QuestionKeeps
    <2>5. CASE kind = NoKind /\ attachedImage = 0
      <3>1. Await(s, "model", NoKind, 0)
        BY <1>2, <2>1, <2>2, <2>5 DEF HandleNewMessage
      <3> QED
        BY <1>4, <1>5, <1>8, <2>5, <3>1, AwaitKeeps
    <2> QED
      BY <2>3, <2>4, <2>5
  <1> QED
    BY <1>5, <1>7, <1>8

-----------------------------------------------------------------------------
\* What a run awaits.

\* A run that has posted nothing goes on.
LEMMA RunGoesOn ==
  ASSUME AssistantGood, NEW s \in Sends, Busy(s), NEW r, Run(r), sends' = [sends EXCEPT ![s] = r],
         r.photo = sends[s].photo, sends[s].at # "created", r.at # "created",
         r.at \in {"model", "answered"} <=> sends[s].at \in {"model", "answered"},
         UNCHANGED <<attachedImage, draft, isSending, photoPosts, says, answers, picked, removed, ignored>>
  PROVE  AssistantGood'
  <1>1. /\ sends' = [t \in Sends |-> sends'[t]] /\ sends'[s] = r
        /\ \A t \in Sends \ {s} : sends'[t] = sends[t]
    BY DEF AssistantGood, PageTypes
  <1>2. \A t \in Sends : (Busy(t)' <=> Busy(t)) /\ (Busy(t) <=> t = s)
    BY <1>1, RunIsBusy DEF Busy, AssistantGood, OneRun
  <1>3. PageTypes'
    <2>1. \A t \in Sends : Busy(t)' => Run(sends[t])'
      BY <1>1, <1>2 DEF Run
    <2> QED
      BY <1>1, <2>1 DEF AssistantGood, PageTypes
  <1>4. OneRun'
    BY <1>2 DEF AssistantGood, OneRun
  <1>5. RunsOfPage'
    <2>1. Run(sends[s])
      BY DEF AssistantGood, PageTypes
    <2>2. sends[s].at \in {"upload", "create"} <=> r.at \in {"upload", "create"}
      BY <2>1 DEF Run
    <2> QED
      BY <1>1, <1>2, <2>2 DEF AssistantGood, RunsOfPage
  <1>6. PostedOnce'
    <2>1. \A t \in Sends : ~(Busy(t) /\ sends[t].at = "created")
      BY <1>2
    <2> QED
      BY <2>1 DEF AssistantGood, PostedOnce
  <1>7. PhotosKept'
    BY DEF AssistantGood, PhotosKept
  <1> QED
    BY <1>3, <1>4, <1>5, <1>6, <1>7 DEF AssistantGood

LEMMA UploadImageKeeps == ASSUME AssistantGood, NEW s \in Sends, UploadImage(s) PROVE AssistantGood'
  <1>1. PICK r : r = [sends[s] EXCEPT !.at = "create"]
    OBVIOUS
  <1>2. /\ sends[s].at = "upload" /\ sends' = [sends EXCEPT ![s] = r]
        /\ UNCHANGED <<attachedImage, draft, isSending, photoPosts, says, answers, picked, removed, ignored>>
    BY <1>1 DEF UploadImage, Goes, pageState, assistantHistory
  <1>3. Busy(s) /\ Run(sends[s])
    BY <1>2 DEF Busy, NoSend, AssistantGood, PageTypes
  <1>4. Run(r) /\ r.at = "create" /\ r.photo = sends[s].photo
    <2>1. PICK kind, round : sends[s] = [at |-> sends[s].at, kind |-> kind, photo |-> sends[s].photo, round |-> round]
      BY <1>3 DEF Run
    <2>2. r = [at |-> "create", kind |-> kind, photo |-> sends[s].photo, round |-> round]
      BY <1>1, <2>1
    <2>3. r.at = "create" /\ r.photo = sends[s].photo /\ sends[s].photo \in Nat
      BY <1>3, <2>2 DEF Run
    <2> QED
      BY <2>2, <2>3 DEF Run
  <1> QED
    BY <1>2, <1>3, <1>4, RunGoesOn

LEMMA CreateAiAutoPostKeeps == ASSUME AssistantGood, NEW s \in Sends, CreateAiAutoPost(s) PROVE AssistantGood'
  <1>1. PICK r : r = [sends[s] EXCEPT !.at = "created"]
    OBVIOUS
  <1>2. /\ sends[s].at = "create" /\ sends' = [sends EXCEPT ![s] = r]
        /\ photoPosts' = [p \in Photos |-> IF p = sends[s].photo THEN photoPosts[p] + 1 ELSE photoPosts[p]]
        /\ UNCHANGED <<attachedImage, draft, isSending, says, answers, picked, removed, ignored>>
    BY <1>1 DEF CreateAiAutoPost, Goes, pageState, assistantHistory
  <1>3. Busy(s) /\ Run(sends[s])
    BY <1>2 DEF Busy, NoSend, AssistantGood, PageTypes
  <1>4. Run(r) /\ r.at = "created" /\ r.photo = sends[s].photo /\ r # NoSend
    <2>1. PICK kind, round : sends[s] = [at |-> sends[s].at, kind |-> kind, photo |-> sends[s].photo, round |-> round]
      BY <1>3 DEF Run
    <2>2. r = [at |-> "created", kind |-> kind, photo |-> sends[s].photo, round |-> round]
      BY <1>1, <2>1
    <2>3. r.at = "created" /\ r.photo = sends[s].photo /\ sends[s].photo \in Nat
      BY <1>3, <2>2 DEF Run
    <2>4. Run(r)
      BY <2>2, <2>3 DEF Run
    <2> QED
      BY <2>3, <2>4, RunIsBusy
  <1>5. PICK q \in Nat : q = sends[s].photo
    BY <1>3 DEF Run
  <1>6. /\ sends' = [t \in Sends |-> sends'[t]] /\ sends'[s] = r
        /\ \A t \in Sends \ {s} : sends'[t] = sends[t]
    BY <1>2 DEF AssistantGood, PageTypes
  <1>7. \A t \in Sends : (Busy(t)' <=> Busy(t)) /\ (Busy(t) <=> t = s)
    BY <1>3, <1>4, <1>6 DEF Busy, AssistantGood, OneRun
  <1>8. /\ photoPosts' \in [Photos -> Nat] /\ q <= picked /\ (q # 0 => photoPosts[q] = 0)
        /\ \A p \in Photos : photoPosts'[p] = IF p = q THEN photoPosts[p] + 1 ELSE photoPosts[p]
    <2>1. photoPosts \in [Photos -> Nat]
      BY DEF AssistantGood, PageTypes
    <2>2. photoPosts' \in [Photos -> Nat]
      BY <1>2, <2>1
    <2>3. \A p \in Photos : photoPosts'[p] = IF p = q THEN photoPosts[p] + 1 ELSE photoPosts[p]
      BY <1>2, <1>5
    <2>4. q <= picked /\ (q # 0 => photoPosts[q] = 0)
      BY <1>2, <1>3, <1>5 DEF AssistantGood, RunsOfPage
    <2> QED
      BY <2>2, <2>3, <2>4
  <1>9. q # 0 => q \in Photos
    BY <1>5, <1>8, AssistantAssumption DEF Photos, AssistantGood, PageTypes
  <1>10. PageTypes'
    <2>1. \A t \in Sends : Busy(t)' => Run(sends[t])'
      BY <1>4, <1>6, <1>7 DEF Run
    <2> QED
      BY <1>2, <1>6, <1>8, <2>1 DEF AssistantGood, PageTypes
  <1>11. OneRun'
    BY <1>2, <1>3, <1>7 DEF AssistantGood, OneRun
  <1>12. RunsOfPage'
    <2>1. SUFFICES ASSUME NEW t \in Sends, Busy(t)'
          PROVE  /\ sends'[t].photo <= picked
                 /\ sends'[t].at = "created"
                 /\ draft.is => sends'[t].photo = draft.photo
                 /\ ~draft.is => /\ attachedImage \in {sends'[t].photo, 0}
                                 /\ sends'[t].photo # 0 /\ attachedImage = 0 => sends'[t].photo \in removed
                 /\ sends'[t].photo # 0 => photoPosts'[sends'[t].photo] = 1
      BY <1>2, <2>1 DEF RunsOfPage
    <2>2. t = s /\ sends'[t].photo = q /\ sends'[t].at = "created"
      BY <1>4, <1>5, <1>6, <1>7, <2>1
    <2>3. q # 0 => photoPosts'[q] = 1
      BY <1>8, <1>9
    <2>4. /\ draft.is => q = draft.photo
          /\ ~draft.is => attachedImage \in {q, 0} /\ (q # 0 /\ attachedImage = 0 => q \in removed)
      BY <1>2, <1>3, <1>5 DEF AssistantGood, RunsOfPage
    <2> QED
      BY <1>8, <2>2, <2>3, <2>4
  <1>13. PostedOnce'
    <2>1. SUFFICES ASSUME NEW p \in Photos
          PROVE  /\ photoPosts'[p] \in {0, 1} /\ (photoPosts'[p] = 1 => p <= picked)
                 /\ photoPosts'[p] = 1 /\ p \in {attachedImage, draft.photo} => p = q
      BY <1>2, <1>3, <1>4, <1>5, <1>6, <1>7 DEF PostedOnce
    <2>2. \A t \in Sends : ~(Busy(t) /\ sends[t].at = "created")
      BY <1>2, <1>7
    <2>3. /\ photoPosts[p] \in {0, 1} /\ (photoPosts[p] = 1 => p <= picked)
          /\ ~(photoPosts[p] = 1 /\ p \in {attachedImage, draft.photo})
      BY <2>2 DEF AssistantGood, PostedOnce
    <2>4. p = q => photoPosts[p] = 0
      BY <1>8 DEF Photos
    <2> QED
      BY <1>8, <2>3, <2>4
  <1>14. PhotosKept'
    <2>1. \A p \in 1..picked : p \in Photos /\ (photoPosts[p] = 1 => photoPosts'[p] = 1)
      <3>1. SUFFICES ASSUME NEW p \in 1..picked, photoPosts[p] = 1 PROVE photoPosts'[p] = 1
        BY PhotosOnly DEF AssistantGood
      <3>2. p \in Photos /\ p # q
        BY <1>8, <3>1, PhotosOnly DEF AssistantGood, Photos
      <3> QED
        BY <1>8, <3>1, <3>2
    <2> QED
      BY <1>2, <2>1 DEF AssistantGood, PhotosKept
  <1> QED
    BY <1>10, <1>11, <1>12, <1>13, <1>14 DEF AssistantGood

LEMMA ModelRoundKeeps == ASSUME AssistantGood, NEW s \in Sends, ModelRound(s) PROVE AssistantGood'
  <1>5. PICK n : n = sends[s].round + 1
    OBVIOUS
  <1>6. PICK at \in {"answered", "model"} : sends' = [sends EXCEPT ![s] = [sends[s] EXCEPT !.round = n, !.at = at]]
    BY <1>5 DEF ModelRound
  <1>1. PICK r : r = [sends[s] EXCEPT !.round = n, !.at = at]
    OBVIOUS
  <1>2. /\ sends[s].at = "model"
        /\ UNCHANGED <<attachedImage, draft, isSending, photoPosts, says, answers, picked, removed, ignored>>
    BY DEF ModelRound, pageState, assistantHistory
  <1>3. Busy(s) /\ Run(sends[s])
    BY <1>2 DEF Busy, NoSend, AssistantGood, PageTypes
  <1>4. Run(r) /\ r.at = at /\ r.photo = sends[s].photo
    <2>1. PICK kind, round : sends[s] = [at |-> sends[s].at, kind |-> kind, photo |-> sends[s].photo, round |-> round]
      BY <1>3 DEF Run
    <2>4. PICK photo : photo = sends[s].photo
      OBVIOUS
    <2>5. PICK d : d = [at |-> "model", kind |-> kind, photo |-> photo, round |-> round]
      OBVIOUS
    <2>6. r = [d EXCEPT !.round = n, !.at = at]
      BY <1>1, <1>2, <2>1, <2>4, <2>5
    <2>2. r = [at |-> at, kind |-> kind, photo |-> photo, round |-> n]
      BY <2>5, <2>6
    <2>3. r.at = at /\ r.photo = sends[s].photo /\ sends[s].photo \in Nat
      BY <1>3, <2>2, <2>4 DEF Run
    <2> QED
      BY <2>2, <2>3, <2>4 DEF Run
  <1> QED
    BY <1>1, <1>2, <1>3, <1>4, <1>6, RunGoesOn

\* A run ends, and the page may be cleared.
LEMMA RunEnds ==
  ASSUME AssistantGood, NEW s \in Sends, Busy(s), sends' = [sends EXCEPT ![s] = NoSend],
         isSending' = FALSE, answers' = answers + 1,
         UNCHANGED <<photoPosts, says, picked, removed>>,
         \/ UNCHANGED <<attachedImage, draft, ignored>> /\ sends[s].at # "created"
         \/ /\ attachedImage' = 0 /\ draft' = NoDraft /\ sends[s].at = "created"
            /\ ignored \subseteq ignored' /\ (draft.is => attachedImage \in ignored' \cup {0})
  PROVE  AssistantGood'
  <1>1. \A t \in Sends : sends'[t] = NoSend /\ ~Busy(t)'
    BY DEF AssistantGood, PageTypes, OneRun, Busy
  <1>2. /\ picked \in Nat /\ picked <= MaxPhotos /\ attachedImage \in 0..picked /\ draft.photo \in 0..picked
        /\ NoDraft.is = FALSE /\ NoDraft.photo = 0
    BY DEF AssistantGood, PageTypes, NoDraft
  <1>3. PageTypes'
    <2>1. sends' = [t \in Sends |-> sends'[t]]
      BY DEF AssistantGood, PageTypes
    <2>2. CASE UNCHANGED <<attachedImage, draft>>
      BY <1>1, <2>1, <2>2 DEF AssistantGood, PageTypes
    <2>3. CASE attachedImage' = 0 /\ draft' = NoDraft
      <3>1. attachedImage' \in 0..picked /\ draft'.is = FALSE /\ draft'.photo = 0 /\ draft'.photo \in 0..picked
        BY <1>2, <2>3
      <3> QED
        BY <1>1, <2>1, <3>1 DEF AssistantGood, PageTypes
    <2> QED
      BY <2>2, <2>3
  <1>4. OneRun'
    BY <1>1 DEF AssistantGood, OneRun
  <1>5. RunsOfPage'
    BY <1>1 DEF RunsOfPage
  <1>6. PostedOnce'
    <2>1. SUFFICES ASSUME NEW p \in Photos
          PROVE  /\ photoPosts[p] \in {0, 1} /\ (photoPosts[p] = 1 => p <= picked)
                 /\ ~(photoPosts[p] = 1 /\ p \in {attachedImage', draft'.photo})
      BY DEF PostedOnce
    <2>2. /\ photoPosts[p] \in {0, 1} /\ (photoPosts[p] = 1 => p <= picked) /\ p # 0
          /\ photoPosts[p] = 1 /\ p \in {attachedImage, draft.photo} => sends[s].at = "created"
      BY DEF AssistantGood, PostedOnce, OneRun, Photos
    <2> QED
      BY <1>2, <2>2
  <1>7. PhotosKept'
    <2>1. SUFFICES ASSUME NEW p \in 1..picked, sends[s].at = "created", p \in {attachedImage, draft.photo},
                          draft.is => attachedImage \in ignored' \cup {0}
                   PROVE  p \in ignored' \cup removed \/ photoPosts[p] = 1
      BY DEF AssistantGood, PhotosKept
    <2>2. /\ draft.is => sends[s].photo = draft.photo
          /\ ~draft.is => attachedImage \in {sends[s].photo, 0}
          /\ sends[s].photo # 0 => photoPosts[sends[s].photo] = 1
      BY <2>1 DEF AssistantGood, RunsOfPage
    <2>3. draft.is \in BOOLEAN /\ (~draft.is => draft.photo = 0) /\ p # 0
      BY DEF AssistantGood, PageTypes
    <2> QED
      BY <2>1, <2>2, <2>3
  <1> QED
    BY <1>3, <1>4, <1>5, <1>6, <1>7 DEF AssistantGood

LEMMA CreatedKeeps == ASSUME AssistantGood, NEW s \in Sends, Created(s) PROVE AssistantGood'
  <1>1. Busy(s) /\ sends[s].at = "created"
    BY DEF Created, Busy, NoSend
  <1>2. /\ sends' = [sends EXCEPT ![s] = NoSend] /\ isSending' = FALSE /\ answers' = answers + 1
        /\ attachedImage' = 0 /\ draft' = NoDraft
        /\ UNCHANGED <<photoPosts, says, picked, removed>>
        /\ ignored \subseteq ignored' /\ (draft.is => attachedImage \in ignored' \cup {0})
    BY DEF Created, AnswerShown
  <1> QED
    BY <1>1, <1>2, RunEnds

LEMMA AnsweredKeeps == ASSUME AssistantGood, NEW s \in Sends, Answered(s) PROVE AssistantGood'
  <1>1. Busy(s) /\ sends[s].at = "answered"
    BY DEF Answered, Busy, NoSend
  <1>2. attachedImage = 0 /\ ~draft.is
    BY <1>1 DEF AssistantGood, RunsOfPage
  <1>3. /\ sends' = [sends EXCEPT ![s] = NoSend] /\ isSending' = FALSE /\ answers' = answers + 1
        /\ UNCHANGED <<attachedImage, draft, photoPosts, says, picked, removed, ignored>>
    BY <1>2 DEF Answered, AnswerShown
  <1> QED
    BY <1>1, <1>3, RunEnds

LEMMA SendFailsKeeps == ASSUME AssistantGood, NEW s \in Sends, SendFails(s), ~doubted' PROVE AssistantGood'
  BY RunEnds DEF SendFails, Busy

-----------------------------------------------------------------------------
LEMMA AssistantInitIInv == AssistantInit => AssistantIInv
  <1> SUFFICES ASSUME AssistantInit PROVE AssistantGood
    BY DEF AssistantIInv
  <1>1. /\ attachedImage = 0 /\ draft = NoDraft /\ isSending = FALSE
        /\ sends = [s \in Sends |-> NoSend] /\ photoPosts = [p \in Photos |-> 0]
        /\ says = 0 /\ answers = 0 /\ picked = 0
    BY DEF AssistantInit
  <1>2. PageTypes
    BY <1>1, AssistantAssumption DEF PageTypes, NoDraft, Busy
  <1>3. OneRun /\ RunsOfPage
    <2>1. \A s \in Sends : ~Busy(s)
      BY <1>1 DEF Busy
    <2> QED
      <3>1. OneRun
        <4>1. says \in Int /\ answers = says - 0
          BY <1>1
        <4> QED
          BY <1>1, <2>1, <4>1 DEF OneRun
      <3> QED
        BY <2>1, <3>1 DEF RunsOfPage
  <1>4. PostedOnce /\ PhotosKept
    BY <1>1 DEF PostedOnce, PhotosKept
  <1> QED
    BY <1>2, <1>3, <1>4 DEF AssistantGood

LEMMA AssistantStepIInv == AssistantIInv /\ [AssistantNext]_assistantVars => AssistantIInv'
  <1> SUFFICES ASSUME AssistantIInv, [AssistantNext]_assistantVars, ~doubted' PROVE AssistantGood'
    BY DEF AssistantIInv
  <1>1. ~doubted
    BY DEF AssistantNext, HandleImageChange, RemoveImage, LeavePageOfAssistant, OpenPost, LeaveAssistant, SelectType,
           Enter, ClickSuggestion, SendSuggestion, SendToAssistant, UploadImage, CreateAiAutoPost,
           Created, ModelRound, Answered, SendFails, assistantVars, assistantHistory
  <1>2. AssistantGood
    BY <1>1 DEF AssistantIInv
  <1>3. CASE HandleImageChange \/ RemoveImage \/ LeavePageOfAssistant \/ OpenPost
    BY <1>2, <1>3, HandleImageChangeKeeps, RemoveImageKeeps, LeaveAssistantKeeps DEF LeavePageOfAssistant, OpenPost
  <1>4. ASSUME NEW k \in Kinds, SelectType(k) PROVE AssistantGood'
    BY <1>2, <1>4, SameAssistant DEF SelectType, assistantHistory
  <1>5. ASSUME NEW told, Enter(told) PROVE AssistantGood'
    BY <1>2, <1>5, SendKeeps DEF Enter
  <1>6. ASSUME NEW told, ClickSuggestion(told) PROVE AssistantGood'
    BY <1>2, <1>6, SameAssistant DEF ClickSuggestion, pageState, assistantHistory
  <1>7. ASSUME NEW c \in clicked, SendSuggestion(c) PROVE AssistantGood'
    BY <1>2, <1>7, SendKeeps DEF SendSuggestion
  <1>8. ASSUME NEW s \in Sends,
               \/ UploadImage(s) \/ CreateAiAutoPost(s) \/ Created(s)
               \/ ModelRound(s) \/ Answered(s) \/ SendFails(s)
        PROVE  AssistantGood'
    BY <1>2, <1>8, UploadImageKeeps, CreateAiAutoPostKeeps, CreatedKeeps, ModelRoundKeeps, AnsweredKeeps,
       SendFailsKeeps
  <1>9. CASE UNCHANGED assistantVars
    BY <1>2, <1>9, SameAssistant DEF assistantVars, pageState, assistantHistory
  <1> QED
    BY <1>3, <1>4, <1>5, <1>6, <1>7, <1>8, <1>9 DEF AssistantNext

\* The runs under way are none or one.
LEMMA RunsCounted ==
  ASSUME OneRun
  PROVE  Cardinality({s \in Sends : sends[s] # NoSend}) = IF \E s \in Sends : Busy(s) THEN 1 ELSE 0
  <1> DEFINE R == {s \in Sends : sends[s] # NoSend}
  <1>1. CASE \E s \in Sends : Busy(s)
    <2>1. PICK s \in Sends : Busy(s)
      BY <1>1
    <2>2. R = {s}
      BY <2>1 DEF OneRun, Busy
    <2> QED
      BY <1>1, <2>2, FS_Singleton
  <1>2. CASE ~\E s \in Sends : Busy(s)
    <2>1. R = {}
      BY <1>2 DEF Busy
    <2> QED
      BY <1>2, <2>1, FS_EmptySet
  <1> QED
    BY <1>1, <1>2

\* However a conversation goes and whichever of its calls fail, for any number of
\* photos, messages and rounds: a photo is posted once at most and never lost, and
\* every message is answered, save the named doubts (AiAssistant.tsx, sendMessage).
THEOREM PhotosArePosted == AssistantSpec => []PhotosEndUpInOnePost
  <1>1. AssistantIInv => PhotosEndUpInOnePost
    <2>1. SUFFICES ASSUME AssistantGood PROVE PhotosEndUpInOnePost
      BY DEF AssistantIInv, PhotosEndUpInOnePost
    <2>2. ASSUME NEW photo \in 1..picked
          PROVE  /\ photoPosts[photo] <= 1
                 /\ photo \notin removed \cup ignored => photoPosts[photo] = 1 \/ Kept(photo)
                 /\ photoPosts[photo] = 1 /\ attachedImage = photo => \E s \in Sends : sends[s].photo = photo
      BY <2>1, PhotosOnly DEF AssistantGood, PostedOnce, PhotosKept, Kept
    <2>3. answers = says - Cardinality({s \in Sends : sends[s] # NoSend})
      BY <2>1, RunsCounted DEF AssistantGood, OneRun
    <2>4. isSending <=> \E s \in Sends : sends[s] # NoSend
      BY <2>1 DEF AssistantGood, OneRun, Busy
    <2> QED
      BY <2>2, <2>3, <2>4 DEF PhotosEndUpInOnePost
  <1> QED
    BY <1>1, AssistantInitIInv, AssistantStepIInv, PTL DEF AssistantSpec

\* The page, a suggestion's click, and the runs of sendMessage, whatever was doubted.
\* Every message is answered or has its run; a photo's posts and the runs that may yet
\* make one are of messages of their own.
PageKnown ==
  /\ picked \in 0..MaxPhotos /\ attachedImage \in 0..picked /\ selectedType \in Kinds \cup {NoKind}
  /\ draft.is \in BOOLEAN /\ draft.photo \in 0..picked /\ isSending \in BOOLEAN /\ leaving \in Nat
  /\ left \in 0..MaxLeft /\ removed \subseteq Photos /\ ignored \subseteq Photos /\ doubted \in BOOLEAN

Clickable(page) == page.draft.is \in BOOLEAN /\ page.draft.photo \in 0..picked /\ page.photo \in 0..picked
ClicksKnown == clicked = {} \/ \E c : clicked = {c} /\ Clickable(c.page)

BusyRuns == {s \in Sends : Busy(s)}
Posting(p) == {s \in Sends : sends[s].at \in {"upload", "create"} /\ sends[s].photo = p}

MessagesCounted ==
  /\ sends = [s \in Sends |-> sends[s]] /\ \A s \in Sends : Busy(s) => Run(sends[s])
  /\ IsFiniteSet(BusyRuns)
  /\ says \in 0..MaxSays /\ answers \in Nat /\ answers + Cardinality(BusyRuns) = says

PostsCounted ==
  /\ photoPosts \in [Photos -> Nat]
  /\ \A p \in Photos : photoPosts[p] + Cardinality(Posting(p)) <= says

AssistantBounded == PageKnown /\ ClicksKnown /\ MessagesCounted /\ PostsCounted

\* A run asks the user, or awaits something.
Asks(s) == \E d : Question(d, s) /\ d.is \in BOOLEAN /\ d.photo \in 0..picked
Awaits(s) ==
  \E at \in {"upload", "create", "model"} : \E kind : \E photo \in 0..picked : Await(s, at, kind, photo)

\* What sendMessage does before it awaits anything.
LEMMA SendIs ==
  ASSUME PageKnown, NEW page, NEW told, Clickable(page), SendToAssistant(page, told)
  PROVE  /\ says < MaxSays /\ says' = says + 1 /\ doubted' \in BOOLEAN
         /\ UNCHANGED <<photoPosts, picked, left, removed>>
         /\ \E s \in Sends : sends[s] = NoSend /\ (Asks(s) \/ Awaits(s))
<1>1. PICK s \in Sends : /\ sends[s] = NoSend
                         /\ IF page.draft.is THEN HandleDraftReply(s, page, told) ELSE HandleNewMessage(s, page, told)
  BY DEF SendToAssistant
<1> DEFINE Goal == Asks(s) \/ Awaits(s)
<1>10. ASSUME NEW d, Question(d, s), d.is \in BOOLEAN, d.photo \in 0..picked PROVE Goal
  BY <1>10 DEF Asks
<1>11. ASSUME NEW at \in {"upload", "create", "model"}, NEW kind, NEW photo \in 0..picked,
              Await(s, at, kind, photo)
       PROVE  Goal
  <2>1. \E k : \E p \in 0..picked : Await(s, at, k, p)
    BY <1>11
  <2>2. Awaits(s)
    BY <2>1 DEF Awaits
  <2> QED
    BY <2>2
<1> HIDE DEF Goal
<1>2. PICK b \in BOOLEAN, drafted \in 0..picked, photo0 \in 0..picked :
        b = page.draft.is /\ drafted = page.draft.photo /\ photo0 = page.photo
  BY DEF Clickable
<1>12. b = TRUE \/ b = FALSE
  OBVIOUS
<1>3. ASSUME NEW kind, NEW place, NEW photo \in 0..picked, CreateLostFoundFromChat(s, kind, place, photo)
      PROVE  Goal
  <2>1. CASE ~place
    <3>1. PICK d : d = [is |-> TRUE, kind |-> kind, place |-> FALSE, photo |-> photo]
      OBVIOUS
    <3>2. Question(d, s) /\ d.is \in BOOLEAN /\ d.photo = photo
      BY <1>3, <2>1, <3>1 DEF CreateLostFoundFromChat
    <3> QED
      BY <1>10, <3>2
  <2>2. CASE place
    <3>1. PICK at \in {"upload", "create", "model"} : Await(s, at, kind, photo)
      BY <1>3, <2>2 DEF CreateLostFoundFromChat
    <3> QED
      BY <1>11, <3>1
  <2> QED
    BY <2>1, <2>2
<1>4. ASSUME b = TRUE PROVE Goal
  <2>1. HandleDraftReply(s, page, told)
    BY <1>1, <1>2, <1>4
  <2>2. PICK kind : kind = FirstKnown(<<page.draft.kind, page.selected, told.kind>>)
    OBVIOUS
  <2>3. CASE kind = NoKind
    <3>1. PICK d : d = page.draft
      OBVIOUS
    <3>2. Question(d, s) /\ d.is = b /\ d.photo = drafted
      BY <1>2, <2>1, <2>2, <2>3, <3>1 DEF HandleDraftReply
    <3> QED
      BY <1>10, <3>2
  <2>4. CASE kind # NoKind
    <3>1. CreateLostFoundFromChat(s, kind, page.draft.place \/ told.place, drafted)
      BY <1>2, <2>1, <2>2, <2>4 DEF HandleDraftReply
    <3> QED
      BY <1>3, <3>1
  <2> QED
    BY <2>3, <2>4
<1>5. ASSUME b = FALSE PROVE Goal
  <2>1. HandleNewMessage(s, page, told)
    BY <1>1, <1>2, <1>5
  <2>2. PICK kind : kind = FirstKnown(<<page.selected, told.kind>>)
    OBVIOUS
  <2>3. CASE kind # NoKind
    <3>1. CreateLostFoundFromChat(s, kind, told.place, photo0)
      BY <1>2, <2>1, <2>2, <2>3 DEF HandleNewMessage
    <3> QED
      BY <1>3, <3>1
  <2>4. CASE kind = NoKind /\ photo0 # 0
    <3>1. PICK d : d = [is |-> TRUE, kind |-> NoKind, place |-> told.place, photo |-> photo0]
      OBVIOUS
    <3>2. Question(d, s) /\ d.is \in BOOLEAN /\ d.photo = photo0
      BY <1>2, <2>1, <2>2, <2>4, <3>1 DEF HandleNewMessage
    <3> QED
      BY <1>10, <3>2
  <2>5. CASE kind = NoKind /\ photo0 = 0
    <3>1. Await(s, "model", NoKind, photo0)
      BY <1>2, <2>1, <2>2, <2>5 DEF HandleNewMessage
    <3> QED
      BY <1>11, <3>1
  <2> QED
    BY <2>3, <2>4, <2>5
<1>6. Goal
  BY <1>4, <1>5, <1>12
<1>7. /\ says < MaxSays /\ says' = says + 1 /\ UNCHANGED <<photoPosts, picked, left, removed>>
  BY DEF SendToAssistant
<1>8. doubted' \in BOOLEAN
  BY DEF SendToAssistant
<1> QED
  BY <1>1, <1>6, <1>7, <1>8 DEF Goal

-----------------------------------------------------------------------------
\* The page stays known.
LEMMA SendKeepsPage ==
  ASSUME PageKnown, NEW page, NEW told, Clickable(page), SendToAssistant(page, told)
  PROVE  PageKnown' /\ picked' = picked
<1>1. /\ doubted' \in BOOLEAN
      /\ UNCHANGED <<picked, left, removed>>
  BY SendIs
<1>2. PICK s \in Sends : Asks(s) \/ Awaits(s)
  BY SendIs
<1>3. /\ picked \in 0..MaxPhotos /\ attachedImage \in 0..picked /\ selectedType \in Kinds \cup {NoKind}
      /\ draft.is \in BOOLEAN /\ draft.photo \in 0..picked /\ isSending \in BOOLEAN /\ leaving \in Nat
      /\ left \in 0..MaxLeft /\ removed \subseteq Photos /\ ignored \subseteq Photos
  BY DEF PageKnown
<1> DEFINE PageAfter == /\ attachedImage' \in 0..picked /\ selectedType' \in Kinds \cup {NoKind}
                        /\ leaving' = leaving /\ draft'.is \in BOOLEAN /\ draft'.photo \in 0..picked
                        /\ isSending' \in BOOLEAN
                        /\ ignored' = ignored \/ ignored' = ignored \cup ({attachedImage} \ {0})
<1>4. PageAfter
  <2>1. CASE Asks(s)
    <3>1. PICK d : Question(d, s) /\ d.is \in BOOLEAN /\ d.photo \in 0..picked
      BY <2>1 DEF Asks
    <3>2. draft' = d /\ attachedImage' = 0 /\ selectedType' = NoKind /\ isSending' = FALSE /\ leaving' = leaving
          /\ (ignored' = ignored \/ ignored' = ignored \cup ({attachedImage} \ {0}))
      BY <3>1 DEF Question, AnswerShown
    <3>3. attachedImage' \in 0..picked
      BY <1>3, <3>2
    <3> QED
      BY <1>3, <3>1, <3>2, <3>3
  <2>2. CASE Awaits(s)
    BY <1>3, <2>2 DEF Awaits, Await
  <2> QED
    BY <1>2, <2>1, <2>2
<1>5. ignored' \subseteq Photos
  <2>1. attachedImage \in 0..MaxPhotos
    BY <1>3, AssistantAssumption
  <2>2. {attachedImage} \ {0} \subseteq Photos
    BY <2>1, AssistantAssumption DEF Photos
  <2> QED
    BY <1>3, <1>4, <2>2
<1> QED
  BY <1>1, <1>3, <1>4, <1>5 DEF PageKnown

LEMMA ClicksStay ==
  ASSUME ClicksKnown, picked \in Nat, picked' \in Nat, picked <= picked', clicked' = clicked \/ clicked' = {}
  PROVE  ClicksKnown'
<1>1. CASE clicked' = {}
  BY <1>1 DEF ClicksKnown
<1>2. ASSUME NEW c, clicked = {c}, Clickable(c.page), clicked' = clicked PROVE ClicksKnown'
  <2>1. Clickable(c.page)'
    BY <1>2 DEF Clickable
  <2> QED
    BY <1>2, <2>1 DEF ClicksKnown
<1>3. CASE clicked' = clicked /\ clicked = {}
  BY <1>3 DEF ClicksKnown
<1> QED
  BY <1>1, <1>2, <1>3 DEF ClicksKnown

LEMMA PageSame ==
  ASSUME PageKnown, ClicksKnown,
         UNCHANGED <<picked, draft, left, clicked>>, doubted' \in BOOLEAN, removed' \subseteq Photos,
         ignored' \subseteq Photos,
         attachedImage' \in {0, attachedImage}, selectedType' \in Kinds \cup {NoKind},
         isSending' \in BOOLEAN, leaving' \in Nat
  PROVE  PageKnown' /\ ClicksKnown'
<1>1. PageKnown'
  BY DEF PageKnown
<1>2. picked \in Nat
  BY DEF PageKnown
<1> QED
  BY <1>1, <1>2, ClicksStay

LEMMA PageStaysKnown ==
  ASSUME PageKnown, ClicksKnown, IsFiniteSet(BusyRuns), [AssistantNext]_assistantVars
  PROVE  PageKnown' /\ ClicksKnown'
<1>1. /\ picked \in 0..MaxPhotos /\ attachedImage \in 0..picked /\ selectedType \in Kinds \cup {NoKind}
      /\ draft.is \in BOOLEAN /\ draft.photo \in 0..picked /\ isSending \in BOOLEAN /\ leaving \in Nat
      /\ left \in 0..MaxLeft /\ removed \subseteq Photos /\ ignored \subseteq Photos /\ doubted \in BOOLEAN
  BY DEF PageKnown
<1>2. removed \cup ({attachedImage} \ {0}) \subseteq Photos
  <2>1. attachedImage \in 0..MaxPhotos
    BY <1>1, AssistantAssumption
  <2> QED
    BY <1>1, <2>1, AssistantAssumption DEF Photos
<1>3. CASE HandleImageChange
  <2>1. /\ picked < MaxPhotos /\ picked' = picked + 1 /\ attachedImage' = picked + 1
        /\ removed' = removed \cup ({attachedImage} \ {0})
        /\ UNCHANGED <<selectedType, draft, isSending, leaving, clicked, left, ignored, doubted>>
    BY <1>3 DEF HandleImageChange
  <2>2. /\ picked \in Nat /\ picked' \in 0..MaxPhotos /\ picked <= picked'
        /\ attachedImage' \in 0..picked' /\ draft.photo \in 0..picked'
    BY <1>1, <2>1, AssistantAssumption
  <2>3. PageKnown'
    BY <1>1, <1>2, <2>1, <2>2 DEF PageKnown
  <2> QED
    BY <2>1, <2>2, <2>3, ClicksStay
<1>4. CASE RemoveImage
  <2>1. removed' \subseteq Photos
    BY <1>2, <1>4 DEF RemoveImage
  <2> QED
    BY <1>1, <1>4, <2>1, PageSame DEF RemoveImage
<1>20. {attachedImage} \ {0} \subseteq Photos
  <2>1. attachedImage \in 0..MaxPhotos
    BY <1>1, AssistantAssumption
  <2> QED
    BY <2>1, AssistantAssumption DEF Photos
<1>5. ASSUME NEW timers \in Nat, LeaveAssistant(timers) PROVE PageKnown' /\ ClicksKnown'
  <2>1. /\ left < MaxLeft /\ left' = left + 1
        /\ attachedImage' = 0 /\ selectedType' = NoKind /\ draft' = NoDraft /\ isSending' = FALSE
        /\ clicked' = {} /\ removed' = 1..picked
        /\ UNCHANGED <<picked, ignored, doubted>>
    BY <1>5 DEF LeaveAssistant
  <2>2. draft'.is = FALSE /\ draft'.photo = 0
    BY <2>1 DEF NoDraft
  <2>3. left' \in 0..MaxLeft /\ 0 \in 0..picked /\ 1..picked \subseteq Photos
    BY <1>1, <2>1, AssistantAssumption DEF Photos
  <2>4. leaving' \in Nat
    <3>1. PICK made \in SUBSET {s \in Sends : sends[s].at \in {"upload", "create"}} :
            \E opens \in SUBSET (made \cup {s \in Sends : sends[s].at = "created"}) :
              leaving' = timers + Cardinality(opens)
      BY <1>5 DEF LeaveAssistant
    <3>2. PICK opens \in SUBSET (made \cup {s \in Sends : sends[s].at = "created"}) :
            leaving' = timers + Cardinality(opens)
      BY <3>1
    <3>3. opens \subseteq BusyRuns
      BY DEF BusyRuns, Busy, NoSend
    <3>4. Cardinality(opens) \in Nat
      BY <3>3, FS_Subset, FS_CardinalityType
    <3> QED
      BY <1>5, <3>2, <3>4
  <2>5. PageKnown'
    BY <1>1, <2>1, <2>2, <2>3, <2>4 DEF PageKnown
  <2> QED
    BY <2>1, <2>5 DEF ClicksKnown
<1>6. CASE LeavePageOfAssistant \/ OpenPost
  <2>1. leaving > 0 => leaving - 1 \in Nat
    BY <1>1
  <2> QED
    BY <1>1, <1>5, <1>6, <2>1 DEF LeavePageOfAssistant, OpenPost
<1>7. ASSUME NEW k \in Kinds, SelectType(k) PROVE PageKnown' /\ ClicksKnown'
  <2>1. selectedType' \in Kinds \cup {NoKind}
    BY <1>7 DEF SelectType
  <2> QED
    BY <1>1, <1>7, <2>1, PageSame DEF SelectType, assistantHistory
<1>8. picked \in Nat
  BY <1>1
<1>9. ASSUME NEW told, Enter(told) PROVE PageKnown' /\ ClicksKnown'
  <2>1. PICK page : page = Rendered
    OBVIOUS
  <2>2. Clickable(page)
    BY <1>1, <2>1 DEF Clickable, Rendered
  <2>3. SendToAssistant(page, told) /\ clicked' = clicked
    BY <1>9, <2>1 DEF Enter
  <2> QED
    BY <1>8, <2>2, <2>3, SendKeepsPage, ClicksStay
<1>10. ASSUME NEW told, ClickSuggestion(told) PROVE PageKnown' /\ ClicksKnown'
  <2>1. PICK page : page = Rendered
    OBVIOUS
  <2>2. PICK c : c = [page |-> page, told |-> told]
    OBVIOUS
  <2>3. clicked' = {c} /\ c.page = page
        /\ UNCHANGED <<attachedImage, selectedType, draft, isSending, leaving, picked, left, removed, ignored, doubted>>
    BY <1>10, <2>1, <2>2 DEF ClickSuggestion, pageState, assistantHistory
  <2>4. Clickable(page)'
    BY <1>1, <2>1, <2>3 DEF Clickable, Rendered
  <2>5. PageKnown'
    BY <2>3 DEF PageKnown
  <2> QED
    BY <2>3, <2>4, <2>5 DEF ClicksKnown
<1>11. ASSUME NEW c \in clicked, SendSuggestion(c) PROVE PageKnown' /\ ClicksKnown'
  <2>1. clicked = {c} /\ Clickable(c.page)
    BY DEF ClicksKnown
  <2>2. SendToAssistant(c.page, c.told) /\ clicked' = {}
    BY <1>11, <2>1 DEF SendSuggestion
  <2> QED
    BY <1>8, <2>1, <2>2, SendKeepsPage, ClicksStay
<1>12. ASSUME NEW s \in Sends, UploadImage(s) \/ CreateAiAutoPost(s) \/ ModelRound(s)
       PROVE  PageKnown' /\ ClicksKnown'
  BY <1>1, <1>12, PageSame DEF UploadImage, CreateAiAutoPost, ModelRound, pageState, assistantHistory
<1>13. ASSUME NEW s \in Sends, Created(s) PROVE PageKnown' /\ ClicksKnown'
  <2>1. /\ attachedImage' = 0 /\ selectedType' = NoKind /\ draft' = NoDraft /\ isSending' = FALSE
        /\ leaving' \in Nat /\ ignored' \subseteq Photos
        /\ UNCHANGED <<clicked, picked, left, removed, doubted>>
    BY <1>1, <1>13, <1>20 DEF Created, AnswerShown
  <2>2. draft'.is = FALSE /\ draft'.photo = 0 /\ 0 \in 0..picked
    BY <1>1, <2>1 DEF NoDraft
  <2>3. PageKnown'
    BY <1>1, <2>1, <2>2 DEF PageKnown
  <2> QED
    BY <1>8, <2>1, <2>3, ClicksStay
<1>14. ASSUME NEW s \in Sends, Answered(s) PROVE PageKnown' /\ ClicksKnown'
  <2>1. ignored' \subseteq Photos
    BY <1>1, <1>14, <1>20 DEF Answered, AnswerShown
  <2> QED
    BY <1>1, <1>14, <2>1, PageSame DEF Answered, AnswerShown
<1>15. ASSUME NEW s \in Sends, SendFails(s) PROVE PageKnown' /\ ClicksKnown'
  <2>1. doubted' \in BOOLEAN
    BY <1>1, <1>15 DEF SendFails
  <2> QED
    BY <1>1, <1>15, <2>1, PageSame DEF SendFails
<1>16. CASE UNCHANGED assistantVars
  BY <1>1, <1>16, PageSame DEF assistantVars, pageState, assistantHistory
<1> QED
  BY <1>3, <1>4, <1>6, <1>7, <1>9, <1>10, <1>11, <1>12, <1>13, <1>14, <1>15, <1>16 DEF AssistantNext

-----------------------------------------------------------------------------
\* The counts.

\* What one run's new state does to them.
LEMMA RunChanges ==
  ASSUME MessagesCounted, NEW s \in Sends, NEW r, sends' = [sends EXCEPT ![s] = r], r = NoSend \/ Run(r)
  PROVE  /\ sends' = [t \in Sends |-> sends'[t]] /\ \A t \in Sends : Busy(t)' => Run(sends[t])'
         /\ IsFiniteSet(BusyRuns') /\ Cardinality(BusyRuns) \in Nat /\ Cardinality(BusyRuns') \in Nat
         /\ Busy(s) /\ r = NoSend => Cardinality(BusyRuns') = Cardinality(BusyRuns) - 1
         /\ ~Busy(s) /\ r # NoSend => Cardinality(BusyRuns') = Cardinality(BusyRuns) + 1
         /\ (Busy(s) <=> r # NoSend) => BusyRuns' = BusyRuns
<1>1. /\ sends' = [t \in Sends |-> sends'[t]] /\ sends'[s] = r
      /\ \A t \in Sends \ {s} : sends'[t] = sends[t]
  BY DEF MessagesCounted
<1>2. ASSUME NEW t \in Sends, Busy(t)' PROVE Run(sends[t])'
  <2>1. CASE t = s
    BY <1>1, <1>2, <2>1 DEF Busy, Run
  <2>2. CASE t # s
    <3>1. Busy(t) /\ sends'[t] = sends[t]
      BY <1>1, <1>2, <2>2 DEF Busy
    <3>2. Run(sends[t])
      BY <3>1 DEF MessagesCounted
    <3> QED
      BY <3>1, <3>2 DEF Run
  <2> QED
    BY <2>1, <2>2
<1>3. PICK was \in BOOLEAN, is \in BOOLEAN : (was <=> Busy(s)) /\ (is <=> r # NoSend)
  BY DEF Busy
<1>4. PICK before, after : before = BusyRuns /\ after = BusyRuns'
  OBVIOUS
<1>5. IsFiniteSet(before) /\ (was <=> s \in before) /\ after = IF is THEN before \cup {s} ELSE before \ {s}
  <2>1. IsFiniteSet(before) /\ (was <=> s \in before)
    BY <1>3, <1>4 DEF BusyRuns, MessagesCounted
  <2>2. \A t \in Sends : t \in after <=> (t = s /\ is) \/ (t # s /\ t \in before)
    BY <1>1, <1>3, <1>4 DEF BusyRuns, Busy
  <2>3. before \subseteq Sends /\ after \subseteq Sends
    BY <1>4 DEF BusyRuns
  <2> QED
    BY <2>1, <2>2, <2>3
<1>6. /\ IsFiniteSet(after) /\ Cardinality(before) \in Nat /\ Cardinality(after) \in Nat
      /\ was /\ ~is => Cardinality(after) = Cardinality(before) - 1
      /\ ~was /\ is => Cardinality(after) = Cardinality(before) + 1
      /\ (was <=> is) => after = before
  BY <1>5, OneMember
<1> QED
  BY <1>1, <1>2, <1>3, <1>4, <1>6

\* Whether a run may yet post the photo.
MayPost(r, p) == r.at \in {"upload", "create"} /\ r.photo = p

LEMMA PostingChanges ==
  ASSUME MessagesCounted, NEW s \in Sends, NEW r, sends' = [sends EXCEPT ![s] = r], NEW p \in Photos
  PROVE  /\ Cardinality(Posting(p)) \in Nat /\ Cardinality(Posting(p)') \in Nat
         /\ MayPost(sends[s], p) /\ ~MayPost(r, p) => Cardinality(Posting(p)') = Cardinality(Posting(p)) - 1
         /\ ~MayPost(sends[s], p) /\ MayPost(r, p) => Cardinality(Posting(p)') = Cardinality(Posting(p)) + 1
         /\ (MayPost(sends[s], p) <=> MayPost(r, p)) => Posting(p)' = Posting(p)
<1>1. sends'[s] = r /\ \A t \in Sends \ {s} : sends'[t] = sends[t]
  BY DEF MessagesCounted
<1>2. PICK was \in BOOLEAN, is \in BOOLEAN : (was <=> MayPost(sends[s], p)) /\ (is <=> MayPost(r, p))
  BY DEF MayPost
<1>3. PICK before, after : before = Posting(p) /\ after = Posting(p)'
  OBVIOUS
<1>4. before \subseteq BusyRuns /\ IsFiniteSet(BusyRuns)
  BY <1>3 DEF Posting, BusyRuns, Busy, NoSend, MessagesCounted
<1>5. IsFiniteSet(before) /\ (was <=> s \in before) /\ after = IF is THEN before \cup {s} ELSE before \ {s}
  <2>1. IsFiniteSet(before)
    BY <1>4, FS_Subset
  <2>2. was <=> s \in before
    BY <1>2, <1>3 DEF Posting, MayPost
  <2>3. \A t \in Sends : t \in after <=> (t = s /\ is) \/ (t # s /\ t \in before)
    BY <1>1, <1>2, <1>3 DEF Posting, MayPost
  <2>4. before \subseteq Sends /\ after \subseteq Sends
    BY <1>3 DEF Posting
  <2> QED
    BY <2>1, <2>2, <2>3, <2>4
<1>6. /\ IsFiniteSet(after) /\ Cardinality(before) \in Nat /\ Cardinality(after) \in Nat
      /\ was /\ ~is => Cardinality(after) = Cardinality(before) - 1
      /\ ~was /\ is => Cardinality(after) = Cardinality(before) + 1
      /\ (was <=> is) => after = before
  BY <1>5, OneMember
<1> QED
  BY <1>2, <1>3, <1>6

LEMMA CountsSame ==
  ASSUME MessagesCounted, PostsCounted, UNCHANGED <<sends, photoPosts, says, answers>>
  PROVE  MessagesCounted' /\ PostsCounted'
<1>1. BusyRuns' = BusyRuns /\ \A s \in Sends : (Busy(s)' <=> Busy(s)) /\ (Run(sends[s])' <=> Run(sends[s]))
  BY DEF BusyRuns, Busy, Run
<1>2. \A p \in Photos : Posting(p)' = Posting(p)
  BY DEF Posting
<1> QED
  BY <1>1, <1>2 DEF MessagesCounted, PostsCounted

LEMMA CountsGoOn ==
  ASSUME MessagesCounted, PostsCounted, NEW s \in Sends, Busy(s), NEW r, Run(r), sends' = [sends EXCEPT ![s] = r],
         \A p \in Photos : MayPost(r, p) <=> MayPost(sends[s], p), UNCHANGED <<photoPosts, says, answers>>
  PROVE  MessagesCounted' /\ PostsCounted'
<1>1. MessagesCounted'
  BY RunChanges, RunIsBusy DEF MessagesCounted
<1>2. \A p \in Photos : Posting(p)' = Posting(p)
  BY PostingChanges
<1> QED
  BY <1>1, <1>2 DEF PostsCounted

LEMMA RunEndsCounted ==
  ASSUME MessagesCounted, PostsCounted, NEW s \in Sends, Busy(s), sends' = [sends EXCEPT ![s] = NoSend],
         answers' = answers + 1, UNCHANGED <<photoPosts, says>>
  PROVE  MessagesCounted' /\ PostsCounted'
<1>1. /\ sends' = [t \in Sends |-> sends'[t]] /\ \A t \in Sends : Busy(t)' => Run(sends[t])'
      /\ IsFiniteSet(BusyRuns') /\ Cardinality(BusyRuns) \in Nat
      /\ Cardinality(BusyRuns') = Cardinality(BusyRuns) - 1
  BY RunChanges
<1>2. says \in 0..MaxSays /\ answers \in Nat /\ answers + Cardinality(BusyRuns) = says
  BY DEF MessagesCounted
<1>3. answers' \in Nat /\ answers' + Cardinality(BusyRuns') = says'
  BY <1>1, <1>2
<1>4. MessagesCounted'
  BY <1>1, <1>2, <1>3 DEF MessagesCounted
<1>5. ASSUME NEW p \in Photos PROVE photoPosts'[p] + Cardinality(Posting(p)') <= says'
  <2>1. ~MayPost(NoSend, p)
    BY DEF MayPost, NoSend
  <2>2. /\ Cardinality(Posting(p)) \in Nat /\ Cardinality(Posting(p)') \in Nat
        /\ \/ Cardinality(Posting(p)') = Cardinality(Posting(p)) - 1
           \/ Posting(p)' = Posting(p)
    BY <2>1, PostingChanges
  <2>3. photoPosts[p] \in Nat /\ photoPosts[p] + Cardinality(Posting(p)) <= says
    BY DEF PostsCounted
  <2> QED
    BY <1>2, <2>2, <2>3
<1>6. photoPosts' \in [Photos -> Nat]
  BY DEF PostsCounted
<1> QED
  BY <1>4, <1>5, <1>6 DEF PostsCounted

LEMMA AwaitCounted ==
  ASSUME MessagesCounted, PostsCounted, NEW s \in Sends, sends[s] = NoSend, NEW r, Run(r),
         sends' = [sends EXCEPT ![s] = r], says < MaxSays, says' = says + 1, UNCHANGED <<photoPosts, answers>>
  PROVE  MessagesCounted' /\ PostsCounted'
<1>1. ~Busy(s) /\ r # NoSend
  BY RunIsBusy DEF Busy
<1>2. /\ sends' = [t \in Sends |-> sends'[t]] /\ \A t \in Sends : Busy(t)' => Run(sends[t])'
      /\ IsFiniteSet(BusyRuns') /\ Cardinality(BusyRuns) \in Nat
      /\ Cardinality(BusyRuns') = Cardinality(BusyRuns) + 1
  BY <1>1, RunChanges
<1>3. says \in 0..MaxSays /\ answers \in Nat /\ answers + Cardinality(BusyRuns) = says
  BY DEF MessagesCounted
<1>4. says' \in 0..MaxSays /\ answers' + Cardinality(BusyRuns') = says'
  BY <1>2, <1>3, AssistantAssumption
<1>5. MessagesCounted'
  BY <1>2, <1>3, <1>4 DEF MessagesCounted
<1>6. ASSUME NEW p \in Photos PROVE photoPosts'[p] + Cardinality(Posting(p)') <= says'
  <2>1. ~MayPost(sends[s], p)
    BY DEF MayPost, NoSend
  <2>2. /\ Cardinality(Posting(p)) \in Nat /\ Cardinality(Posting(p)') \in Nat
        /\ \/ Cardinality(Posting(p)') = Cardinality(Posting(p)) + 1
           \/ Posting(p)' = Posting(p)
    BY <2>1, PostingChanges
  <2>3. photoPosts[p] \in Nat /\ photoPosts[p] + Cardinality(Posting(p)) <= says
    BY DEF PostsCounted
  <2> QED
    BY <1>3, <2>2, <2>3
<1>7. photoPosts' \in [Photos -> Nat]
  BY DEF PostsCounted
<1> QED
  BY <1>5, <1>6, <1>7 DEF PostsCounted

LEMMA QuestionCounted ==
  ASSUME MessagesCounted, PostsCounted, says < MaxSays, says' = says + 1, answers' = answers + 1,
         UNCHANGED <<sends, photoPosts>>
  PROVE  MessagesCounted' /\ PostsCounted'
<1>1. BusyRuns' = BusyRuns /\ \A s \in Sends : (Busy(s)' <=> Busy(s)) /\ (Run(sends[s])' <=> Run(sends[s]))
  BY DEF BusyRuns, Busy, Run
<1>2. says \in 0..MaxSays /\ answers \in Nat /\ answers + Cardinality(BusyRuns) = says /\ Cardinality(BusyRuns) \in Nat
  BY FS_CardinalityType DEF MessagesCounted
<1>3. says' \in 0..MaxSays /\ answers' \in Nat /\ answers' + Cardinality(BusyRuns) = says'
  BY <1>2, AssistantAssumption
<1>4. MessagesCounted'
  BY <1>1, <1>3 DEF MessagesCounted
<1>5. ASSUME NEW p \in Photos PROVE photoPosts'[p] + Cardinality(Posting(p)') <= says'
  <2>1. Posting(p)' = Posting(p)
    BY DEF Posting
  <2>2. Posting(p) \subseteq BusyRuns /\ IsFiniteSet(BusyRuns)
    BY DEF Posting, BusyRuns, Busy, NoSend, MessagesCounted
  <2>3. Cardinality(Posting(p)) \in Nat
    BY <2>2, FS_Subset, FS_CardinalityType
  <2>4. photoPosts[p] \in Nat /\ photoPosts[p] + Cardinality(Posting(p)) <= says
    BY DEF PostsCounted
  <2> QED
    BY <1>2, <2>1, <2>3, <2>4
<1>6. photoPosts' \in [Photos -> Nat]
  BY DEF PostsCounted
<1> QED
  BY <1>4, <1>5, <1>6 DEF PostsCounted

LEMMA SendCounted ==
  ASSUME PageKnown, MessagesCounted, PostsCounted, NEW page, NEW told, Clickable(page), SendToAssistant(page, told)
  PROVE  MessagesCounted' /\ PostsCounted'
<1>1. says < MaxSays /\ says' = says + 1 /\ photoPosts' = photoPosts
  BY SendIs
<1>2. PICK s \in Sends : sends[s] = NoSend /\ (Asks(s) \/ Awaits(s))
  BY SendIs
<1>3. CASE Asks(s)
  <2>1. answers' = answers + 1 /\ sends' = sends
    BY <1>3 DEF Asks, Question, AnswerShown
  <2> QED
    BY <1>1, <2>1, QuestionCounted
<1>4. CASE Awaits(s)
  <2>1. PICK at \in {"upload", "create", "model"} : \E kind : \E photo \in 0..picked : Await(s, at, kind, photo)
    BY <1>4 DEF Awaits
  <2>2. PICK kind : \E photo \in 0..picked : Await(s, at, kind, photo)
    BY <2>1
  <2>3. PICK photo \in 0..picked : Await(s, at, kind, photo)
    BY <2>2
  <2>4. PICK r : r = [at |-> at, kind |-> kind, photo |-> photo, round |-> 0]
    OBVIOUS
  <2>5. Run(r)
    <3>1. r.at = at /\ r.photo = photo /\ photo \in Nat
      BY <2>4 DEF PageKnown
    <3>2. r = [at |-> r.at, kind |-> kind, photo |-> r.photo, round |-> 0]
      BY <2>4, <3>1
    <3>3. \E round : r = [at |-> r.at, kind |-> kind, photo |-> r.photo, round |-> round]
      BY <3>2
    <3> QED
      BY <3>1, <3>3 DEF Run
  <2>6. sends' = [sends EXCEPT ![s] = r] /\ answers' = answers
    BY <2>3, <2>4 DEF Await
  <2> QED
    BY <1>1, <1>2, <2>5, <2>6, AwaitCounted
<1> QED
  BY <1>2, <1>3, <1>4

\* A run with a new step, and perhaps a new round, its kind and photo as they were.
LEMMA RunFields ==
  ASSUME NEW at, NEW kind, NEW photo, NEW round, NEW r, r = [at |-> at, kind |-> kind, photo |-> photo, round |-> round]
  PROVE  r.at = at /\ r.photo = photo
  OBVIOUS

LEMMA RunSteps ==
  ASSUME NEW q, Run(q), NEW at \in {"upload", "create", "created", "model", "answered"}, NEW r,
         r = [q EXCEPT !.at = at]
  PROVE  Run(r) /\ r.at = at /\ r.photo = q.photo
<1>1. PICK kind, round, was, photo : q = [at |-> was, kind |-> kind, photo |-> photo, round |-> round]
  BY DEF Run
<1>2. q.photo = photo /\ photo \in Nat
  BY <1>1 DEF Run
<1>3. r = [at |-> at, kind |-> kind, photo |-> photo, round |-> round]
  BY <1>1
<1>4. r.at = at /\ r.photo = photo
  BY <1>3
<1>5. Run(r)
  BY <1>2, <1>3, <1>4 DEF Run
<1> QED
  BY <1>2, <1>4, <1>5

LEMMA RoundSteps ==
  \A q, r, n : \A at \in {"upload", "create", "created", "model", "answered"} :
    Run(q) /\ r = [q EXCEPT !.round = n, !.at = at] => Run(r) /\ r.at = at
<1>0. SUFFICES ASSUME NEW q, NEW r, NEW n, NEW at \in {"upload", "create", "created", "model", "answered"},
                      Run(q), r = [q EXCEPT !.round = n, !.at = at]
               PROVE  Run(r) /\ r.at = at
  OBVIOUS
<1>1. PICK kind, round, was, photo : q = [at |-> was, kind |-> kind, photo |-> photo, round |-> round]
  BY <1>0 DEF Run
<1>2. photo \in Nat
  BY <1>0, <1>1 DEF Run
<1>3. r = [at |-> at, kind |-> kind, photo |-> photo, round |-> n]
  BY <1>0, <1>1
<1>4. r.at = at /\ r.photo = photo
  BY <1>3, RunFields
<1>5. Run(r)
  BY <1>2, <1>3, <1>4 DEF Run
<1> QED
  BY <1>4, <1>5

LEMMA PostCounted ==
  ASSUME MessagesCounted, PostsCounted, NEW s \in Sends, CreateAiAutoPost(s)
  PROVE  MessagesCounted' /\ PostsCounted'
<1>1. PICK r : r = [sends[s] EXCEPT !.at = "created"]
  OBVIOUS
<1>2. /\ sends[s].at = "create" /\ sends' = [sends EXCEPT ![s] = r] /\ UNCHANGED <<says, answers>>
      /\ photoPosts' = [p \in Photos |-> IF p = sends[s].photo THEN photoPosts[p] + 1 ELSE photoPosts[p]]
  BY <1>1 DEF CreateAiAutoPost, Goes
<1>3. Busy(s) /\ Run(sends[s])
  BY <1>2 DEF Busy, NoSend, MessagesCounted
<1>4. Run(r) /\ r.at = "created"
  <2>1. PICK q, at : q = sends[s] /\ at = "created"
    OBVIOUS
  <2>2. Run(q) /\ r = [q EXCEPT !.at = at] /\ at \in {"upload", "create", "created", "model", "answered"}
    BY <1>1, <1>3, <2>1
  <2>3. Run(r) /\ r.at = at
    BY <2>2, RunSteps
  <2> QED
    BY <2>1, <2>3
<1>5. MessagesCounted'
  BY <1>2, <1>3, <1>4, RunChanges, RunIsBusy DEF MessagesCounted
<1>6. ASSUME NEW p \in Photos PROVE photoPosts'[p] \in Nat /\ photoPosts'[p] + Cardinality(Posting(p)') <= says'
  <2>1. photoPosts[p] \in Nat /\ photoPosts[p] + Cardinality(Posting(p)) <= says /\ says \in Nat
    BY DEF PostsCounted, MessagesCounted
  <2>2. ~MayPost(r, p) /\ (MayPost(sends[s], p) <=> p = sends[s].photo)
    BY <1>2, <1>4 DEF MayPost
  <2>3. CASE p = sends[s].photo
    <3>1. /\ Cardinality(Posting(p)) \in Nat /\ Cardinality(Posting(p)') \in Nat
          /\ Cardinality(Posting(p)') = Cardinality(Posting(p)) - 1
      BY <1>2, <2>2, <2>3, PostingChanges
    <3>2. photoPosts'[p] = photoPosts[p] + 1
      BY <1>2, <2>3
    <3> QED
      BY <1>2, <2>1, <3>1, <3>2
  <2>4. CASE p # sends[s].photo
    <3>1. Posting(p)' = Posting(p)
      BY <1>2, <2>2, <2>4, PostingChanges
    <3>2. photoPosts'[p] = photoPosts[p]
      BY <1>2, <2>4
    <3> QED
      BY <1>2, <2>1, <3>1, <3>2
  <2> QED
    BY <2>3, <2>4
<1>7. photoPosts' \in [Photos -> Nat]
  BY <1>2, <1>6
<1> QED
  BY <1>5, <1>6, <1>7 DEF PostsCounted

LEMMA LeaveCounted ==
  ASSUME MessagesCounted, PostsCounted, NEW timers, LeaveAssistant(timers)
  PROVE  MessagesCounted' /\ PostsCounted'
<1>1. /\ sends' = [s \in Sends |-> NoSend] /\ answers' = says /\ says' = says
  BY DEF LeaveAssistant
<1>2. PICK made \in SUBSET {s \in Sends : sends[s].at \in {"upload", "create"}} :
        photoPosts' = [p \in Photos |-> photoPosts[p] + Cardinality({s \in made : sends[s].photo = p})]
  BY DEF LeaveAssistant
<1>3. BusyRuns' = {} /\ sends' = [t \in Sends |-> sends'[t]] /\ \A t \in Sends : ~Busy(t)'
  BY <1>1 DEF BusyRuns, Busy
<1>4. IsFiniteSet(BusyRuns') /\ Cardinality(BusyRuns') = 0
  BY <1>3, FS_EmptySet
<1>5. MessagesCounted'
  BY <1>1, <1>3, <1>4 DEF MessagesCounted
<1>6. ASSUME NEW p \in Photos PROVE photoPosts'[p] \in Nat /\ photoPosts'[p] + Cardinality(Posting(p)') <= says'
  <2>1. PICK M : M = {s \in made : sends[s].photo = p}
    OBVIOUS
  <2>2. M \subseteq Posting(p)
    BY <1>2, <2>1 DEF Posting
  <2>3. Posting(p) \subseteq BusyRuns /\ IsFiniteSet(BusyRuns)
    BY DEF Posting, BusyRuns, Busy, NoSend, MessagesCounted
  <2>4. IsFiniteSet(Posting(p))
    BY <2>3, FS_Subset
  <2>5. IsFiniteSet(M) /\ Cardinality(M) <= Cardinality(Posting(p))
    BY <2>2, <2>4, FS_Subset
  <2>6. Cardinality(M) \in Nat /\ Cardinality(Posting(p)) \in Nat
    BY <2>4, <2>5, FS_CardinalityType
  <2>7. photoPosts'[p] = photoPosts[p] + Cardinality(M)
    BY <1>2, <2>1
  <2>8. Posting(p)' = {}
    BY <1>1 DEF Posting, NoSend
  <2>9. Cardinality(Posting(p)') = 0
    BY <2>8, FS_EmptySet
  <2>10. photoPosts[p] \in Nat /\ photoPosts[p] + Cardinality(Posting(p)) <= says /\ says \in Nat
    BY DEF PostsCounted, MessagesCounted
  <2> QED
    BY <1>1, <2>5, <2>6, <2>7, <2>9, <2>10
<1>7. photoPosts' \in [Photos -> Nat]
  BY <1>2, <1>6
<1> QED
  BY <1>5, <1>6, <1>7 DEF PostsCounted

LEMMA CountsStay ==
  ASSUME PageKnown, ClicksKnown, MessagesCounted, PostsCounted, [AssistantNext]_assistantVars
  PROVE  MessagesCounted' /\ PostsCounted'
<1>1. CASE LeavePageOfAssistant \/ OpenPost
  BY <1>1, LeaveCounted DEF LeavePageOfAssistant, OpenPost
<1>2. CASE HandleImageChange \/ RemoveImage \/ UNCHANGED assistantVars
  BY <1>2, CountsSame DEF HandleImageChange, RemoveImage, assistantVars
<1>3. ASSUME NEW k \in Kinds, SelectType(k) PROVE MessagesCounted' /\ PostsCounted'
  BY <1>3, CountsSame DEF SelectType
<1>4. ASSUME NEW told, Enter(told) PROVE MessagesCounted' /\ PostsCounted'
  <2>1. PICK page : page = Rendered
    OBVIOUS
  <2>2. Clickable(page)
    BY <2>1 DEF Clickable, Rendered, PageKnown
  <2>3. SendToAssistant(page, told)
    BY <1>4, <2>1 DEF Enter
  <2> QED
    BY <2>2, <2>3, SendCounted
<1>5. ASSUME NEW told, ClickSuggestion(told) PROVE MessagesCounted' /\ PostsCounted'
  BY <1>5, CountsSame DEF ClickSuggestion
<1>6. ASSUME NEW c \in clicked, SendSuggestion(c) PROVE MessagesCounted' /\ PostsCounted'
  <2>1. Clickable(c.page)
    BY DEF ClicksKnown
  <2> QED
    BY <1>6, <2>1, SendCounted DEF SendSuggestion
<1>7. ASSUME NEW s \in Sends, UploadImage(s) PROVE MessagesCounted' /\ PostsCounted'
  <2>1. PICK r : r = [sends[s] EXCEPT !.at = "create"]
    OBVIOUS
  <2>2. sends[s].at = "upload" /\ sends' = [sends EXCEPT ![s] = r] /\ UNCHANGED <<photoPosts, says, answers>>
    BY <1>7, <2>1 DEF UploadImage, Goes
  <2>3. Busy(s) /\ Run(sends[s])
    BY <2>2 DEF Busy, NoSend, MessagesCounted
  <2>4. Run(r) /\ r.at = "create" /\ r.photo = sends[s].photo
    <3>1. PICK q, at : q = sends[s] /\ at = "create"
      OBVIOUS
    <3>2. Run(q) /\ r = [q EXCEPT !.at = at] /\ at \in {"upload", "create", "created", "model", "answered"}
      BY <2>1, <2>3, <3>1
    <3>3. Run(r) /\ r.at = at /\ r.photo = q.photo
      BY <3>2, RunSteps
    <3> QED
      BY <3>1, <3>3
  <2>5. \A p \in Photos : MayPost(r, p) <=> MayPost(sends[s], p)
    BY <2>2, <2>4 DEF MayPost
  <2> QED
    BY <2>2, <2>3, <2>4, <2>5, CountsGoOn
<1>8. ASSUME NEW s \in Sends, CreateAiAutoPost(s) PROVE MessagesCounted' /\ PostsCounted'
  BY <1>8, PostCounted
<1>9. ASSUME NEW s \in Sends, ModelRound(s) PROVE MessagesCounted' /\ PostsCounted'
  <2>1. PICK n : n = sends[s].round + 1
    OBVIOUS
  <2>2. PICK at \in {"answered", "model"} : sends' = [sends EXCEPT ![s] = [sends[s] EXCEPT !.round = n, !.at = at]]
    BY <1>9, <2>1 DEF ModelRound
  <2>3. PICK r : r = [sends[s] EXCEPT !.round = n, !.at = at]
    OBVIOUS
  <2>4. sends[s].at = "model" /\ UNCHANGED <<photoPosts, says, answers>>
    BY <1>9 DEF ModelRound
  <2>5. Busy(s) /\ Run(sends[s])
    BY <2>4 DEF Busy, NoSend, MessagesCounted
  <2>7. Run(r) /\ r.at = at
    <3>1. PICK q : q = sends[s]
      OBVIOUS
    <3>2. /\ Run(q) /\ r = [q EXCEPT !.round = n, !.at = at]
          /\ at \in {"upload", "create", "created", "model", "answered"}
      BY <2>3, <2>5, <3>1
    <3>3. Run(q) /\ r = [q EXCEPT !.round = n, !.at = at] => Run(r) /\ r.at = at
      BY RoundSteps
    <3> QED
      BY <3>2, <3>3
  <2>8. \A p \in Photos : MayPost(r, p) <=> MayPost(sends[s], p)
    BY <2>4, <2>7 DEF MayPost
  <2>9. sends' = [sends EXCEPT ![s] = r]
    BY <2>2, <2>3
  <2> QED
    BY <2>4, <2>5, <2>7, <2>8, <2>9, CountsGoOn
<1>10. ASSUME NEW s \in Sends, Created(s) \/ Answered(s) PROVE MessagesCounted' /\ PostsCounted'
  <2>1. Busy(s)
    BY <1>10 DEF Created, Answered, Busy, NoSend
  <2>2. sends' = [sends EXCEPT ![s] = NoSend] /\ answers' = answers + 1 /\ UNCHANGED <<photoPosts, says>>
    BY <1>10 DEF Created, Answered, AnswerShown
  <2> QED
    BY <2>1, <2>2, RunEndsCounted
<1>11. ASSUME NEW s \in Sends, SendFails(s) PROVE MessagesCounted' /\ PostsCounted'
  BY <1>11, RunEndsCounted DEF SendFails, Busy
<1> QED
  BY <1>1, <1>2, <1>3, <1>4, <1>5, <1>6, <1>7, <1>8, <1>9, <1>10, <1>11 DEF AssistantNext

LEMMA AssistantBoundedFirst == AssistantInit => AssistantBounded
<1> SUFFICES ASSUME AssistantInit PROVE AssistantBounded
  OBVIOUS
<1>1. /\ attachedImage = 0 /\ selectedType = NoKind /\ draft = NoDraft /\ isSending = FALSE
      /\ leaving = 0 /\ clicked = {} /\ sends = [s \in Sends |-> NoSend] /\ photoPosts = [p \in Photos |-> 0]
      /\ says = 0 /\ answers = 0 /\ picked = 0 /\ left = 0
      /\ removed = {} /\ ignored = {} /\ doubted = FALSE
  BY DEF AssistantInit
<1>2. PageKnown
  <2>1. draft.is = FALSE /\ draft.photo = 0
    BY <1>1 DEF NoDraft
  <2>2. 0 \in 0..MaxPhotos /\ 0 \in 0..MaxLeft /\ 0 \in 0..0
    BY AssistantAssumption
  <2> QED
    BY <1>1, <2>1, <2>2 DEF PageKnown
<1>3. ClicksKnown
  BY <1>1 DEF ClicksKnown
<1>4. \A s \in Sends : ~Busy(s)
  BY <1>1 DEF Busy
<1>5. MessagesCounted
  <2>1. BusyRuns = {}
    BY <1>4 DEF BusyRuns
  <2>2. IsFiniteSet(BusyRuns) /\ Cardinality(BusyRuns) = 0
    BY <2>1, FS_EmptySet
  <2>3. 0 \in 0..MaxSays
    BY AssistantAssumption
  <2> QED
    BY <1>1, <1>4, <2>2, <2>3 DEF MessagesCounted
<1>6. PostsCounted
  <2>1. ASSUME NEW p \in Photos PROVE photoPosts[p] + Cardinality(Posting(p)) <= says
    <3>1. Posting(p) = {}
      BY <1>1 DEF Posting, NoSend
    <3>2. Cardinality(Posting(p)) = 0
      BY <3>1, FS_EmptySet
    <3> QED
      BY <1>1, <3>2
  <2> QED
    BY <1>1, <2>1 DEF PostsCounted
<1> QED
  BY <1>2, <1>3, <1>5, <1>6 DEF AssistantBounded

\* The types of the assistant's page, its answers and a photo's posts among them.
LEMMA AssistantTypesHold == AssistantSpec => []AssistantTypeOK
<1>1. AssistantBounded /\ [AssistantNext]_assistantVars => AssistantBounded'
  BY PageStaysKnown, CountsStay DEF AssistantBounded, MessagesCounted
<1>2. AssistantBounded => AssistantTypeOK
  <2> SUFFICES ASSUME AssistantBounded PROVE AssistantTypeOK
    OBVIOUS
  <2>1. Cardinality(clicked) <= 1
    <3>1. clicked = {} \/ \E c : clicked = {c}
      BY DEF AssistantBounded, ClicksKnown
    <3>2. Cardinality(clicked) = 0 \/ Cardinality(clicked) = 1
      BY <3>1, FS_EmptySet, FS_Singleton
    <3> QED
      BY <3>2
  <2>2. \A s \in Sends : sends[s].at \in {"free", "upload", "create", "created", "model", "answered"}
    BY DEF AssistantBounded, MessagesCounted, Run, Busy, NoSend
  <2>3. says \in 0..MaxSays /\ answers \in 0..MaxSays
    BY FS_CardinalityType, AssistantAssumption DEF AssistantBounded, MessagesCounted
  <2>4. photoPosts \in [Photos -> 0..MaxSays]
    <3>1. ASSUME NEW p \in Photos PROVE photoPosts[p] \in 0..MaxSays
      <4>1. Posting(p) \subseteq BusyRuns /\ IsFiniteSet(BusyRuns)
        BY DEF Posting, BusyRuns, Busy, NoSend, AssistantBounded, MessagesCounted
      <4>2. Cardinality(Posting(p)) \in Nat
        BY <4>1, FS_Subset, FS_CardinalityType
      <4>3. photoPosts[p] \in Nat /\ photoPosts[p] + Cardinality(Posting(p)) <= says
        BY DEF AssistantBounded, PostsCounted
      <4> QED
        BY <2>3, <4>2, <4>3, AssistantAssumption
    <3> QED
      BY <3>1 DEF AssistantBounded, PostsCounted
  <2> QED
    BY <2>1, <2>2, <2>3, <2>4 DEF AssistantBounded, PageKnown, AssistantTypeOK
<1> QED
  BY <1>1, <1>2, AssistantBoundedFirst, PTL DEF AssistantSpec
===============================================================================
