----------------------------- MODULE MCMessages -----------------------------
(***************************************************************************)
(* Nine parts that share no state, explored by one run: the notices of one *)
(* event, the chat of two tabs, one lost or found item with its claims and *)
(* the analysis of its images, one user's count of OCR requests, the lists *)
(* of notices of a tab, the assistant's page, the product search, two      *)
(* items that may match, and a product's heart.  `focus` names the part a  *)
(* behaviour moves; the others keep their initial state.                   *)
(***************************************************************************)
EXTENDS Notices, Chat, LostFound, OcrRateLimit, Bell, Assistant, Browse, Matching, Favourites, TLC

CONSTANTS x1, x2, y1, y2

\* An item with an image is among those posted.
ASSUME MessagesAssumption == MaxImages > 0

VARIABLE focus

MessageParts == {"notices", "chat", "lostfound", "ocr", "bell", "assistant", "browse", "matching",
                 "favourites"}

\* The replicas of notification-service are numbered: the first starts with the
\* partition.
ActorsAlike ==
  Permutations({x1, x2}) \cup Permutations({y1, y2})

\* An item with images is analysed, if its owner consents or has consented; one
\* without is claimed.
MessagesInit ==
  /\ focus \in MessageParts
  /\ \E e \in NoticeEvents :
       /\ focus # "notices" => e = [topic |-> "karma.updated", by |-> "system"]
       /\ NoticesInitWith(e)
  /\ owner = 1
  /\ ChatInit
  /\ \E images \in {0, 1}, tagged \in BOOLEAN, consent \in BOOLEAN :
       /\ focus # "lostfound" => images = 0 /\ ~tagged /\ ~consent
       /\ LostFoundInitWith(images, tagged, consent)
  /\ OcrInit
  /\ BellInit
  /\ AssistantInit
  /\ BrowseInit
  /\ focus # "browse" => address = CHOOSE q \in Queries : q.page = 0
  /\ MatchingInitWith(IF focus = "matching" THEN NewPost ELSE {CHOOSE p \in NewPost : TRUE})
  /\ FavouritesInit
  /\ focus # "favourites" => button = "wishlist" /\ record = 0 /\ toggles[x1] = IdleCall

MessagesNext ==
  /\ UNCHANGED focus
  /\ \/ focus = "notices" /\ NoticesNext
     \/ focus # "notices" /\ UNCHANGED noticeVars
  /\ \/ focus = "chat" /\ ChatNext
     \/ focus # "chat" /\ UNCHANGED chatVars
  /\ \/ focus = "lostfound" /\ LostFoundNext
     \/ focus # "lostfound" /\ UNCHANGED lostFoundVars
  /\ \/ focus = "ocr" /\ OcrNext
     \/ focus # "ocr" /\ UNCHANGED ocrVars
  /\ \/ focus = "bell" /\ BellNext
     \/ focus # "bell" /\ UNCHANGED bellVars
  /\ \/ focus = "assistant" /\ AssistantNext
     \/ focus # "assistant" /\ UNCHANGED assistantVars
  /\ \/ focus = "browse" /\ BrowseNext
     \/ focus # "browse" /\ UNCHANGED browseVars
  /\ \/ focus = "matching" /\ MatchingNext
     \/ focus # "matching" /\ UNCHANGED matchingVars
  /\ \/ focus = "favourites" /\ FavouritesNext
     \/ focus # "favourites" /\ UNCHANGED favouriteVars

messagesVars ==
  <<focus, noticeVars, chatVars, lostFoundVars, ocrVars, bellVars, assistantVars, browseVars,
    matchingVars, favouriteVars>>
MessagesSpec == MessagesInit /\ [][MessagesNext]_messagesVars

\* The state of every part is of its types.
MessagesTypeOK ==
  /\ NoticesTypeOK /\ ChatTypeOK /\ LostFoundTypeOK /\ OcrTypeOK /\ BellTypeOK
  /\ AssistantTypeOK /\ BrowseTypeOK /\ MatchingTypeOK /\ FavouritesTypeOK
=============================================================================
