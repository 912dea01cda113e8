----------------------------- MODULE Favourites -----------------------------
(***************************************************************************)
(* The heart of a product and the follow button of its seller: both toggle *)
(* a record that a unique index allows once (wishlist.controller.js,       *)
(* trust.controller.js), and the page shows the last answer it got         *)
(* (ProductDetail.tsx).  The buttons stay enabled, so requests overlap.    *)
(***************************************************************************)
EXTENDS Integers, FiniteSets

CONSTANTS FavouriteCalls,
          MaxFavouriteCalls  \* bound: requests sent, the one of the mount included

ASSUME FavouritesAssumption == MaxFavouriteCalls \in Nat \ {0}

VARIABLES
  button,    \* "wishlist" or "follow"
  listed,    \* the product exists
  record,    \* the number of the stored record, 0 for none
  created,   \* records stored so far
  toggles,     \* request -> its step, the record it found, its answer and when it was decided
  pressed,     \* the page shows the button as pressed
  called,    \* requests sent so far
  decided,   \* requests decided so far
  newest,    \* when the request was decided whose answer the page took last
  astray     \* an answer was lost or overtaken, or a deletion removed nothing

favouriteVars == <<button, listed, record, created, toggles, pressed, called, decided, newest, astray>>

IdleCall == [op |-> "none", at |-> "idle", found |-> 0, answer |-> "none", when |-> 0]
FavouritesTypeOK ==
  /\ button \in {"wishlist", "follow"} /\ listed \in BOOLEAN /\ pressed \in BOOLEAN /\ astray \in BOOLEAN
  /\ record \in 0..created /\ created \in 0..MaxFavouriteCalls
  /\ called \in 0..MaxFavouriteCalls /\ decided \in 0..called /\ newest \in 0..decided
  /\ \A c \in FavouriteCalls :
       /\ toggles[c].at \in {"idle", "checking", "loading", "finding", "found", "answered"}
       /\ toggles[c].answer \in {"none", "on", "off", "error"}

Stored == record # 0
Answers(c, answer) ==
  /\ decided' = decided + 1
  /\ toggles' = [toggles EXCEPT ![c] = [@ EXCEPT !.at = "answered", !.answer = answer, !.when = decided']]

-----------------------------------------------------------------------------
\* Mounting the page asks for the state; until the answer it shows the button
\* as not pressed.
FavouritesInit ==
  /\ button \in {"wishlist", "follow"} /\ listed = TRUE
  /\ record \in {0, 1} /\ created = record
  /\ \E first \in FavouriteCalls :
       toggles = [c \in FavouriteCalls |->
                  IF c = first THEN [IdleCall EXCEPT !.op = "check", !.at = "checking"] ELSE IdleCall]
  /\ pressed = FALSE /\ called = 1 /\ decided = 0 /\ newest = 0 /\ astray = FALSE

\* checkWishlist, checkSellerFollow
Check(c) ==
  /\ toggles[c].at = "checking"
  /\ Answers(c, IF Stored THEN "on" ELSE "off")
  /\ UNCHANGED <<button, listed, record, created, pressed, called, newest, astray>>

\* handleToggleWishlist, and the follow button
Press(c) ==
  /\ toggles[c].at = "idle" /\ called < MaxFavouriteCalls
  /\ called' = called + 1
  /\ toggles' = [toggles EXCEPT ![c] = [IdleCall EXCEPT
                 !.op = "toggle", !.at = IF button = "wishlist" THEN "loading" ELSE "finding"]]
  /\ UNCHANGED <<button, listed, record, created, pressed, decided, newest, astray>>

\* The wishlist refuses a product that is gone.
LoadProduct(c) ==
  /\ toggles[c].at = "loading"
  /\ IF listed
     THEN /\ toggles' = [toggles EXCEPT ![c].at = "finding"]
          /\ UNCHANGED decided
     ELSE Answers(c, "error")
  /\ UNCHANGED <<button, listed, record, created, pressed, called, newest, astray>>

FindRecord(c) ==
  /\ toggles[c].at = "finding"
  /\ toggles' = [toggles EXCEPT ![c] = [@ EXCEPT !.at = "found", !.found = record]]
  /\ UNCHANGED <<button, listed, record, created, pressed, called, decided, newest, astray>>

\* The record found is deleted by its id, whoever deleted it meanwhile.
DeleteRecord(c) ==
  /\ toggles[c].at = "found" /\ toggles[c].found # 0
  /\ record' = IF record = toggles[c].found THEN 0 ELSE record
  /\ astray' = (astray \/ record \notin {0, toggles[c].found})
  /\ Answers(c, "off")
  /\ UNCHANGED <<button, listed, created, pressed, called, newest>>

\* The unique index refuses a second record.
CreateRecord(c) ==
  /\ toggles[c].at = "found" /\ toggles[c].found = 0
  /\ IF Stored
     THEN Answers(c, "error") /\ UNCHANGED <<record, created>>
     ELSE /\ created' = created + 1 /\ record' = created'
          /\ Answers(c, "on")
  /\ UNCHANGED <<button, listed, pressed, called, newest, astray>>

DeleteProduct ==
  /\ listed /\ listed' = FALSE
  /\ UNCHANGED <<button, record, created, toggles, pressed, called, decided, newest, astray>>

\* The page takes what it is told, in the order in which it is told.
Shown_Flipped(answer) ==
  IF answer = "error" THEN pressed ELSE ~pressed
Shown(answer) ==
  IF answer = "error" THEN pressed ELSE answer = "on"
TakeAnswer(c) ==
  /\ toggles[c].at = "answered"
  /\ pressed' = Shown(toggles[c].answer)
  /\ astray' = (astray \/ (toggles[c].answer # "error" /\ toggles[c].when < newest))
  /\ newest' = IF toggles[c].answer = "error" THEN newest ELSE toggles[c].when
  /\ toggles' = [toggles EXCEPT ![c] = IdleCall]
  /\ UNCHANGED <<button, listed, record, created, called, decided>>

LoseAnswer(c) ==
  /\ toggles[c].at = "answered"
  /\ toggles' = [toggles EXCEPT ![c] = IdleCall]
  /\ astray' = TRUE
  /\ UNCHANGED <<button, listed, record, created, pressed, called, decided, newest>>

FavouritesNext ==
  \/ DeleteProduct
  \/ \E c \in FavouriteCalls :
       \/ Check(c) \/ Press(c) \/ LoadProduct(c) \/ FindRecord(c)
       \/ DeleteRecord(c) \/ CreateRecord(c) \/ TakeAnswer(c) \/ LoseAnswer(c)

-----------------------------------------------------------------------------
\* Once every answer is in, the button shows what is stored, however the taps
\* overlapped, unless an answer was lost or overtaken or a deletion by a stale id
\* removed nothing (ProductDetail.tsx, handleToggleWishlist; toggleWishlist and
\* toggleSellerFollow look first and write after).
ButtonShowsTheRecord ==
  (\A c \in FavouriteCalls : toggles[c].at = "idle") /\ ~astray => (pressed <=> Stored)
=============================================================================
