------------------------------- MODULE Browse -------------------------------
(***************************************************************************)
(* The shop's list of products, Products.tsx.  The search box, the filters *)
(* and the page number are state of the component and parameters of the    *)
(* address, and effects copy each into the other: the box after 400 ms,    *)
(* the state into the address, the address into the state when it moves.   *)
(* A change of search or filters resets the page, and every query that     *)
(* was current when the component rendered is asked for.                   *)
(*                                                                         *)
(* React runs the effects of a change before the next event, but the       *)
(* router moves the address in a transition: an event may come first, and  *)
(* of several moves the last counts.  A query is a search, the filters     *)
(* (category, condition and order in one value) and a page.  An answer     *)
(* replaces what is shown, and a failure empties it.                       *)
(***************************************************************************)
EXTENDS Integers, Sequences, FiniteSets

CONSTANTS SearchTexts, Filters, \* values of the box and of the filters
          LastPage,
          MaxBrowsed    \* bound: queries asked for

ASSUME BrowseAssumption == LastPage \in Nat /\ MaxBrowsed \in Nat

VARIABLES search,       \* what the box holds
          query,        \* debouncedSearch, the filters and the page
          timer,        \* the box has changed and 400 ms have not passed
          address,      \* searchParams
          moving,       \* where the router is taking the address, or where it is
          asking,       \* queries under way, numbered
          asked,
          shownQuery,   \* the query whose answer is shown, and its number
          pageFor       \* history: search and filters the page was chosen under

browseVars == <<search, query, timer, address, moving, asking, asked, shownQuery, pageFor>>

Pages == 0..LastPage
Queries == [text : SearchTexts, filter : Filters, page : Pages]


BrowseTypeOK ==
  /\ search \in SearchTexts /\ query \in Queries /\ timer \in BOOLEAN
  /\ address \in Queries /\ moving \in Queries
  /\ asked \in 0..(MaxBrowsed + 4)
  /\ \A c \in asking : c.n \in 1..asked /\ c.query \in Queries
  /\ shownQuery.n \in 0..asked

NoQuery == [text |-> "", filter |-> "", page |-> 0]
Chosen(q) == <<q.text, q.filter>>

\* fetchProducts, in the order the component rendered them.
Asking(from, qs) == {[n |-> from + i, query |-> qs[i]] : i \in DOMAIN qs}

Settled_KeepsPage(old, q) == q

\* The effects after the query became q: the query is asked for, and after a
\* change of search or filters the first page is.
Settled(old, q) == IF Chosen(q) # Chosen(old) THEN [q EXCEPT !.page = 0] ELSE q
Effects(q) ==
  LET final == Settled(query, q)
      qs == (IF q # query THEN <<q>> ELSE <<>>) \o (IF final # q THEN <<final>> ELSE <<>>)
  IN  /\ query' = final
      /\ asking' = asking \cup Asking(asked, qs)
      /\ asked' = asked + Len(qs)
      /\ moving' = IF qs = <<>> THEN moving ELSE final
      /\ pageFor' = IF q.page # query.page \/ final.page = 0 THEN Chosen(final) ELSE pageFor

\* The component mounts on an address; its effects reset the page.
BrowseInit ==
  \E a \in Queries :
    /\ address = a /\ search = a.text /\ timer = FALSE
    /\ query = [a EXCEPT !.page = 0] /\ moving = [a EXCEPT !.page = 0]
    /\ LET qs == <<a>> \o (IF a.page # 0 THEN <<[a EXCEPT !.page = 0]>> ELSE <<>>)
       IN  asking = Asking(0, qs) /\ asked = Len(qs)
    /\ shownQuery = [n |-> 0, query |-> NoQuery] /\ pageFor = Chosen(a)

Browsing == asked < MaxBrowsed

TypeInBox(t) ==
  /\ Browsing /\ t # search
  /\ search' = t /\ timer' = TRUE
  /\ UNCHANGED <<query, address, moving, asking, asked, shownQuery, pageFor>>

Debounce ==
  /\ timer /\ timer' = FALSE
  /\ Effects([query EXCEPT !.text = search])
  /\ UNCHANGED <<search, address, shownQuery>>

SelectFilter(f) ==
  /\ Browsing /\ f # query.filter
  /\ Effects([query EXCEPT !.filter = f])
  /\ UNCHANGED <<search, timer, address, shownQuery>>

SelectPage(p) ==
  /\ Browsing /\ p # query.page
  /\ Effects([query EXCEPT !.page = p])
  /\ UNCHANGED <<search, timer, address, shownQuery>>

\* The back button, or the search box of the layout.
Navigate(q) ==
  /\ Browsing /\ q # address
  /\ moving' = q
  /\ UNCHANGED <<search, query, timer, address, asking, asked, shownQuery, pageFor>>

\* The transition ends: the effect of searchParams copies the address.
AddressMoves ==
  /\ moving # address
  /\ address' = moving
  /\ search' = moving.text
  /\ timer' = (timer \/ search # moving.text)
  /\ Effects(moving)
  /\ UNCHANGED shownQuery

TakeProducts(c) ==
  /\ c \in asking
  /\ asking' = asking \ {c}
  /\ shownQuery' = c
  /\ UNCHANGED <<search, query, timer, address, moving, asked, pageFor>>

\* An error empties the list.
FetchFails(c) ==
  /\ c \in asking
  /\ asking' = asking \ {c}
  /\ shownQuery' = [n |-> c.n, query |-> NoQuery]
  /\ UNCHANGED <<search, query, timer, address, moving, asked, pageFor>>

BrowseNext ==
  \/ \E t \in SearchTexts : TypeInBox(t)
  \/ \E f \in Filters : SelectFilter(f)
  \/ \E p \in Pages : SelectPage(p)
  \/ \E q \in Queries : Navigate(q)
  \/ \E c \in asking : TakeProducts(c) \/ FetchFails(c)
  \/ Debounce \/ AddressMoves

-----------------------------------------------------------------------------
\* However typing, filters, pages and the back button interleave with the timer
\* and the router, the copies agree once nothing is under way: the address and
\* the box hold the query, the list is the answer to the query that was asked
\* last unless an older answer overtook it, and the page was chosen under the
\* search and filters it is a page of (Products.tsx, the five effects).
CopiesAgree ==
  /\ query.page # 0 => pageFor = Chosen(query)
  /\ ~timer /\ moving = address =>
       /\ address = query /\ search = query.text
       /\ asking = {} /\ shownQuery.n = asked => shownQuery.query \in {query, NoQuery}
=============================================================================
