------------------------------ MODULE MCMarket ------------------------------
(***************************************************************************)
(* Six parts that share no state, explored by one run: a browser and its   *)
(* account, the offers for a product, the page of an order, the reports    *)
(* two dashboards close, the catalogue's copies in Redis, and the reviews  *)
(* of two sales.  `focus` names the part a behaviour moves; the others     *)
(* keep their initial state.                                               *)
(***************************************************************************)
EXTENDS Session, Offers, OrderPage, Reports, Catalogue, Reviews, TLC

CONSTANTS t1, x1, x2, y1, y2, a1, r1

ASSUME MarketAssumption == 1 \in Texts

VARIABLE focus

marketVars == <<focus, vars, offerVars, pageVars, reportVars, catalogueVars, reviewVars>>

MarketParts == {"session", "offers", "page", "reports", "catalogue", "reviews"}

AllClients == Tabs \cup {Elsewhere}

\* The actors of the part in focus are alike, and the other parts' are at rest.
ActorsAlike == Permutations({x1, x2}) \cup Permutations({y1, y2})

TwoSales == <<[buyer |-> "an", seller |-> "chi", product |-> "bike"],
              [buyer |-> "binh", seller |-> "chi", product |-> "book"]>>

\* A part out of focus starts in one of its initial states.
MarketInit ==
  /\ focus \in MarketParts
  /\ Init /\ (focus # "session" => row = NewAccount /\ cookie = NoId)
  /\ OffersInit
  /\ PageInit /\ (focus # "page" => role = "BUYER" /\ orderRow = NewDoc("CASH"))
  /\ ReportsInit
  /\ CatalogueInitWith(1)
  /\ ReviewsInit

MarketNext ==
  /\ UNCHANGED focus
  /\ \/ focus = "session" /\ Next
     \/ focus # "session" /\ UNCHANGED vars
  /\ \/ focus = "offers" /\ OffersNext
     \/ focus # "offers" /\ UNCHANGED offerVars
  /\ \/ focus = "page" /\ PageNext
     \/ focus # "page" /\ UNCHANGED pageVars
  /\ \/ focus = "reports" /\ ReportsNext
     \/ focus # "reports" /\ UNCHANGED reportVars
  /\ \/ focus = "catalogue" /\ CatalogueNext
     \/ focus # "catalogue" /\ UNCHANGED catalogueVars
  /\ \/ focus = "reviews" /\ ReviewsNext
     \/ focus # "reviews" /\ UNCHANGED reviewVars

MarketSpec == MarketInit /\ [][MarketNext]_marketVars

\* The state of every part is of its types.
MarketTypeOK ==
  /\ SessionTypeOK /\ OffersTypeOK /\ PageTypeOK /\ ReportsTypeOK /\ CatalogueTypeOK
  /\ ReviewsTypeOK
=============================================================================
