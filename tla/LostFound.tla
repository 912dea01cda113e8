----------------------------- MODULE LostFound -----------------------------
(***************************************************************************)
(* One posted item of lost-found-service: claims and their review, edits,  *)
(* moderation, and the analysis of its images in the background.           *)
(*                                                                         *)
(* Handlers load the document, change their copy and save it.  Mongoose    *)
(* sends what the copy changed and no more.  Replacing an array, or        *)
(* setting one of its entries, requires that the array is still at the     *)
(* loaded version; replacing and appending raise the version, setting an   *)
(* entry does not; appending requires nothing.  A save that fails leaves   *)
(* the changes in the copy.                                                *)
(*                                                                         *)
(* A list of images is a number; 0 is the empty one.                       *)
(* Events are published or lost; whoever reads them is module Notices.     *)
(***************************************************************************)
EXTENDS Integers, FiniteSets

CONSTANTS Claimants,
          LfWorkers,      \* requests in progress
          Analyses,       \* analyses in progress
          MaxClaims,      \* bound: claims of the item
          MaxImages,      \* bound: the lists of images there are
          MaxLfRequests,  \* bound: requests, for an item without images
          MaxEdits,       \* bound: requests, for an item with images
          EditStatuses,   \* what an edit sets the status to
          Nobody          \* a worker without request, an analysis not running

VARIABLES item,
          lfWork,      \* worker -> the request it handles
          analysis,    \* the analyses in progress
          told,        \* claim -> what its claimant was told last
          reopened,    \* history: how often the item became OPEN again
          late,        \* history: a claim was stored on an item no longer OPEN
          raced,       \* history: a review was saved over another one's
          unheard,     \* history: an event was lost
          unsettled,   \* history: an analysis was cut short, or never allowed
          lfRequests   \* requests still to come

lostFoundVars == <<item, lfWork, analysis, told, reopened, late, raced, unheard, unsettled, lfRequests>>

ItemStatuses == {"OPEN", "CLAIMED", "RESOLVED", "CLOSED"}
ClaimIds == 1..MaxClaims
NoClaim == [by |-> Nobody, status |-> "none"]

Item == [exists : BOOLEAN, status : ItemStatuses,
         claims : [ClaimIds -> [by : Claimants, status : {"PENDING", "APPROVED", "REJECTED"}] \cup {NoClaim}],
         approvedClaimId : 0..MaxClaims, version : Nat,
         images : 0..MaxImages, tagged : BOOLEAN,
         analysisStatus : {"PENDING", "PROCESSING", "COMPLETED", "FAILED", "SKIPPED"},
         analysed : 0..MaxImages]   \* the images the stored result is of

\* What a request loaded, what it is to save, and the claims it then tells of.
\* An edit with a list of images is "images", and then "queue" while the caches
\* are emptied.
LfRequest == [op : Claimants \cup {"update", "images", "queue", "review"}, copy : Item, new : Item,
              claim : 0..MaxClaims, stale : BOOLEAN, tells : SUBSET ClaimIds]

Analysis == [at : {"queued", "loaded", "processing"}, force : BOOLEAN, copy : Item \cup {Nobody}]

ASSUME LostFoundAssumption ==
  /\ MaxClaims \in Nat /\ MaxImages \in Nat /\ MaxLfRequests \in Nat /\ MaxEdits \in Nat
  /\ EditStatuses \subseteq ItemStatuses
  /\ {"update", "images", "queue", "review"} \cap Claimants = {}
  /\ Nobody \notin LfRequest /\ Nobody \notin Analysis

LostFoundTypeOK ==
  /\ item \in Item
  /\ lfWork \in [LfWorkers -> LfRequest \cup {Nobody}]
  /\ analysis \in [Analyses -> Analysis \cup {Nobody}]
  /\ told \in [ClaimIds -> {"nothing", "APPROVED", "REJECTED"}]
  /\ reopened \in Nat /\ lfRequests \in Nat
  /\ {late, raced, unheard, unsettled} \subseteq BOOLEAN

Claimed(d) == {c \in ClaimIds : d.claims[c] # NoClaim}
Among(d, status) == {c \in ClaimIds : d.claims[c].status = status}

Queued(force) == [at |-> "queued", force |-> force, copy |-> Nobody]

\* createItem: an item without images, or with, and analysed if its owner
\* agreed to that.
NewItem(images, tagged) ==
  [exists |-> TRUE, status |-> "OPEN", claims |-> [c \in ClaimIds |-> NoClaim],
   approvedClaimId |-> 0, version |-> 0, images |-> images, tagged |-> tagged,
   analysisStatus |-> IF images > 0 THEN "PENDING" ELSE "SKIPPED", analysed |-> 0]

LostFoundInitWith(images, tagged, consent) ==
  /\ item = NewItem(images, tagged)
  /\ lfWork = [w \in LfWorkers |-> Nobody]
  /\ \E first \in Analyses :
       analysis = [a \in Analyses |->
                     IF a = first /\ images > 0 /\ consent THEN Queued(FALSE) ELSE Nobody]
  /\ told = [c \in ClaimIds |-> "nothing"]
  /\ reopened = 0
  /\ lfRequests = IF images = 0 THEN MaxLfRequests ELSE MaxEdits
  /\ late = FALSE /\ raced = FALSE /\ unheard = FALSE
  /\ unsettled = (images > 0 /\ ~consent)

-----------------------------------------------------------------------------
(* Saving a copy.                                                           *)

\* d with what `new` changed of `copy`.
Patched(d, copy, new) ==
  [f \in DOMAIN d |->
     IF f = "claims"
       THEN [c \in ClaimIds |-> IF new.claims[c] # copy.claims[c] THEN new.claims[c] ELSE d.claims[c]]
     ELSE IF new[f] # copy[f] THEN new[f] ELSE d[f]]

\* An entry of the claims is set, or a whole array replaced.
SetsEntry(copy, new) == new.claims # copy.claims
ReplacesArray(copy, new) == new.images # copy.images \/ new.tagged # copy.tagged

SaveFails(copy, new) ==
  \/ ~item.exists
  \/ (SetsEntry(copy, new) \/ ReplacesArray(copy, new)) /\ item.version # copy.version

Saved(copy, new) ==
  LET d == Patched(item, copy, new)
  IN  IF ReplacesArray(copy, new) THEN [d EXCEPT !.version = @ + 1] ELSE d

-----------------------------------------------------------------------------
(* Requests.                                                                *)

NewRequest == lfRequests > 0 /\ lfRequests' = lfRequests - 1

\* findById and the handler's checks; `new` is the copy as it will be saved.
LoadItem(w, op, new, claim) ==
  /\ NewRequest
  /\ lfWork[w] = Nobody /\ item.exists
  /\ lfWork' = [lfWork EXCEPT ![w] = [op |-> op, copy |-> item, new |-> new, claim |-> claim,
                                      stale |-> FALSE, tells |-> {}]]
  /\ UNCHANGED <<item, analysis, told, reopened, late, raced, unheard, unsettled>>

\* updateItem: a status (resolving closes), new tags, a list of images, or several.
Edited(status, tags) ==
  [item EXCEPT !.status = IF status = "RESOLVED" THEN "CLOSED" ELSE status, !.tagged = @ \/ tags]

UpdateItem(w, status, tags) == LoadItem(w, "update", Edited(status, tags), 0)

\* Images that are sent are to be analysed again, whether they changed or not.
UpdateImages(w, status, tags, images) ==
  LoadItem(w, "images",
           [Edited(status, tags) EXCEPT !.images = images, !.analysed = 0,
                                        !.analysisStatus = IF images > 0 THEN "PENDING" ELSE "SKIPPED"], 0)

\* claimItem: the item is OPEN and `by` has no pending claim.
ClaimItem(w, by) ==
  /\ item.status = "OPEN"
  /\ [by |-> by, status |-> "PENDING"] \notin {item.claims[c] : c \in ClaimIds}
  /\ Cardinality(Claimed(item)) + Cardinality({v \in LfWorkers : lfWork[v] # Nobody}) < MaxClaims
  /\ LoadItem(w, by, item, 0)

\* reviewClaim: approving a claim rejects those that are pending with it.
ReviewClaim_Again(w, c, status) ==
  LET decided == [item EXCEPT !.claims[c].status = status]
  IN  /\ c \in Claimed(item)
      /\ LoadItem(w, "review",
           IF status = "APPROVED"
             THEN [decided EXCEPT !.status = "CLAIMED", !.approvedClaimId = c]
             ELSE decided, c)

ReviewClaim(w, c, status) ==
  LET others == Among(item, "PENDING") \ {c}
  IN  /\ c \in Among(item, "PENDING")
      /\ LoadItem(w, "review",
           IF status = "APPROVED"
             THEN [item EXCEPT !.status = "CLAIMED", !.approvedClaimId = c,
                               !.claims = [o \in ClaimIds |->
                                  IF o \in others THEN [item.claims[o] EXCEPT !.status = "REJECTED"]
                                  ELSE IF o = c THEN [item.claims[c] EXCEPT !.status = "APPROVED"]
                                  ELSE item.claims[o]]]
             ELSE [item EXCEPT !.claims[c].status = "REJECTED"], c)

\* Other reviews of this copy's time have become stale.
Outdated(w) ==
  [v \in LfWorkers |-> IF v # w /\ lfWork[v] # Nobody /\ lfWork[v].op = "review"
                         THEN [lfWork[v] EXCEPT !.stale = TRUE] ELSE lfWork[v]]

\* item.save() of an edit; the caches are emptied before images are queued.
SaveUpdate(w) ==
  LET r == lfWork[w]
  IN  /\ r # Nobody /\ r.op \in {"update", "images"}
      /\ \/ /\ SaveFails(r.copy, r.new)
            /\ lfWork' = [lfWork EXCEPT ![w] = Nobody]
            /\ UNCHANGED <<item, reopened>>
         \/ /\ ~SaveFails(r.copy, r.new)
            /\ item' = Saved(r.copy, r.new)
            /\ reopened' = IF item.status # "OPEN" /\ item'.status = "OPEN"
                             THEN reopened + 1 ELSE reopened
            /\ lfWork' = [lfWork EXCEPT ![w] = IF r.op = "images" /\ r.new.images > 0
                                                  THEN [r EXCEPT !.op = "queue"] ELSE Nobody]
      /\ UNCHANGED <<analysis, told, late, raced, unheard, unsettled, lfRequests>>

QueueAnalysis(w) ==
  /\ lfWork[w] # Nobody /\ lfWork[w].op = "queue"
  /\ lfWork' = [lfWork EXCEPT ![w] = Nobody]
  /\ \E a \in Analyses : /\ analysis[a] = Nobody
                         /\ analysis' = [analysis EXCEPT ![a] = Queued(TRUE)]
  /\ UNCHANGED <<item, told, reopened, late, raced, unheard, unsettled, lfRequests>>

\* The claim is appended to whatever claims there are by now.
SaveClaim(w) ==
  LET c == Cardinality(Claimed(item)) + 1
  IN  /\ lfWork[w] # Nobody /\ lfWork[w].op \in Claimants
      /\ lfWork' = [lfWork EXCEPT ![w] = Nobody]
      /\ \/ /\ ~item.exists
            /\ UNCHANGED <<item, late>>
         \/ /\ item.exists
            /\ item' = [item EXCEPT !.claims[c] = [by |-> lfWork[w].op, status |-> "PENDING"],
                                    !.version = @ + 1]
            /\ late' = (late \/ item.status # "OPEN")
      /\ UNCHANGED <<analysis, told, reopened, raced, unheard, unsettled, lfRequests>>

SaveReview_AnyVersion(w) ==
  LET r == lfWork[w]
  IN  /\ r # Nobody /\ r.op = "review" /\ r.tells = {} /\ item.exists
      /\ item' = Saved(r.copy, r.new)
      /\ lfWork' = [Outdated(w) EXCEPT ![w].tells = {r.claim}]
      /\ raced' = (raced \/ r.stale)
      /\ UNCHANGED <<analysis, told, reopened, late, unheard, unsettled, lfRequests>>

\* The claims an approval rejects; those rejected for an earlier approval are
\* told the same once more.
Rejected(r) == (Among(r.copy, "PENDING") \cap Among(r.new, "REJECTED")) \ {r.claim}

SaveReview(w) ==
  LET r == lfWork[w]
  IN  /\ r # Nobody /\ r.op = "review" /\ r.tells = {}
      /\ \/ /\ SaveFails(r.copy, r.new)
            /\ lfWork' = [lfWork EXCEPT ![w] = Nobody]
            /\ UNCHANGED <<item, raced>>
         \/ /\ ~SaveFails(r.copy, r.new)
            /\ item' = Saved(r.copy, r.new)
            /\ lfWork' = [Outdated(w) EXCEPT ![w].tells = {r.claim} \cup Rejected(r)]
            /\ raced' = (raced \/ r.stale)
      /\ UNCHANGED <<analysis, told, reopened, late, unheard, unsettled, lfRequests>>

\* publishLostFoundEvent of one claim, sent or lost and logged: the reviewed
\* one's is awaited, the others' are then sent side by side.
PublishResolved(w, c) ==
  LET r == lfWork[w]
  IN  /\ r # Nobody /\ c \in r.tells /\ (r.claim \in r.tells => c = r.claim)
      /\ lfWork' = [lfWork EXCEPT ![w] = IF r.tells = {c} THEN Nobody
                                         ELSE [r EXCEPT !.tells = @ \ {c}]]
      /\ \/ told' = [told EXCEPT ![c] = r.new.claims[c].status] /\ UNCHANGED unheard
         \/ unheard' = TRUE /\ UNCHANGED told
      /\ UNCHANGED <<item, analysis, reopened, late, raced, unsettled, lfRequests>>

\* deleteItem, deleteItemAsAdmin, and DELETE of bulkModerate.
DeleteItem ==
  /\ NewRequest
  /\ item.exists
  /\ item' = [item EXCEPT !.exists = FALSE]
  /\ UNCHANGED <<lfWork, analysis, told, reopened, late, raced, unheard, unsettled>>

\* CLOSE and REOPEN of bulkModerate.
BulkModerate(status) ==
  /\ NewRequest
  /\ item.exists
  /\ \/ status = "CLOSED" /\ item.status # "CLOSED"
     \/ status = "OPEN" /\ item.status \in {"CLOSED", "RESOLVED"}
  /\ item' = [item EXCEPT !.status = status]
  /\ reopened' = IF status = "OPEN" THEN reopened + 1 ELSE reopened
  /\ UNCHANGED <<lfWork, analysis, told, late, raced, unheard, unsettled>>

-----------------------------------------------------------------------------
(* The analysis, whose result is good or bad luck of the provider.          *)

AnalysisEnds(a) == analysis' = [analysis EXCEPT ![a] = Nobody]

\* findById; gone or done already, or the copy that is to be marked.
StartAnalysis(a) ==
  /\ analysis[a] # Nobody /\ analysis[a].at = "queued"
  /\ IF item.exists /\ (analysis[a].force \/ item.analysisStatus # "COMPLETED")
       THEN analysis' = [analysis EXCEPT ![a] = [@ EXCEPT !.at = "loaded", !.copy = item]]
       ELSE AnalysisEnds(a)
  /\ UNCHANGED <<item, lfWork, told, reopened, late, raced, unheard, unsettled, lfRequests>>

\* The save of an item without images, with which the analysis ends.
MarkSkipped(a) ==
  LET copy == analysis[a].copy
  IN  /\ analysis[a] # Nobody /\ analysis[a].at = "loaded" /\ copy.images = 0
      /\ AnalysisEnds(a)
      /\ item' = IF item.exists THEN Saved(copy, [copy EXCEPT !.analysisStatus = "SKIPPED"]) ELSE item
      /\ UNCHANGED <<lfWork, told, reopened, late, raced, unheard, unsettled, lfRequests>>

\* The first save of the others; provider and retries follow.
MarkProcessing(a) ==
  LET copy == analysis[a].copy
      new  == [copy EXCEPT !.analysisStatus = "PROCESSING"]
  IN  /\ analysis[a] # Nobody /\ analysis[a].at = "loaded" /\ copy.images > 0
      /\ IF item.exists
           THEN /\ item' = Saved(copy, new)
                /\ analysis' = [analysis EXCEPT ![a] = [@ EXCEPT !.at = "processing", !.copy = new]]
           ELSE AnalysisEnds(a) /\ UNCHANGED item
      /\ UNCHANGED <<lfWork, told, reopened, late, raced, unheard, unsettled, lfRequests>>

\* The result is saved, with a tag for an item that had none; when that fails
\* for the version, so does the save that was to note the failure.
Complete(a) ==
  LET copy == analysis[a].copy
      new  == [copy EXCEPT !.analysisStatus = "COMPLETED", !.tagged = TRUE, !.analysed = copy.images]
  IN  /\ analysis[a] # Nobody /\ analysis[a].at = "processing"
      /\ AnalysisEnds(a)
      /\ IF SaveFails(copy, new)
           THEN UNCHANGED item /\ unsettled' = TRUE
           ELSE item' = Saved(copy, new) /\ UNCHANGED unsettled
      /\ UNCHANGED <<lfWork, told, reopened, late, raced, unheard, lfRequests>>

FailAnalysis_Unmarked(a) ==
  /\ analysis[a] # Nobody /\ analysis[a].at = "processing"
  /\ AnalysisEnds(a)
  /\ UNCHANGED <<item, lfWork, told, reopened, late, raced, unheard, unsettled, lfRequests>>

\* Three attempts failed.
FailAnalysis(a) ==
  LET copy == analysis[a].copy
  IN  /\ analysis[a] # Nobody /\ analysis[a].at = "processing"
      /\ AnalysisEnds(a)
      /\ item' = IF item.exists THEN Saved(copy, [copy EXCEPT !.analysisStatus = "FAILED"]) ELSE item
      /\ UNCHANGED <<lfWork, told, reopened, late, raced, unheard, unsettled, lfRequests>>

\* Images are stored, and not queued yet.
Unqueued == \E w \in LfWorkers : lfWork[w] # Nobody /\ lfWork[w].op = "queue"

\* The process dies with all it was doing.
CrashLostFound ==
  /\ NewRequest
  /\ lfWork' = [w \in LfWorkers |-> Nobody]
  /\ analysis' = [a \in Analyses |-> Nobody]
  /\ unheard' = (unheard \/ \E w \in LfWorkers : lfWork[w] # Nobody /\ lfWork[w].tells # {})
  /\ unsettled' = (unsettled \/ Unqueued \/ \E a \in Analyses : analysis[a] # Nobody)
  /\ UNCHANGED <<item, told, reopened, late, raced>>

\* cleanupStuckProcessing, at the start and every ten minutes; no analysis
\* takes as long as that.
CleanupStuckProcessing ==
  /\ item.exists /\ item.analysisStatus = "PROCESSING"
  /\ \A a \in Analyses : analysis[a] # Nobody => analysis[a].at # "processing"
  /\ item' = [item EXCEPT !.analysisStatus = "PENDING"]
  /\ UNCHANGED <<lfWork, analysis, told, reopened, late, raced, unheard, unsettled, lfRequests>>

-----------------------------------------------------------------------------
LostFoundNext ==
  \/ \E w \in LfWorkers :
       \/ \E status \in EditStatuses, tags \in BOOLEAN :
            \/ UpdateItem(w, status, tags)
            \/ \E images \in 0..MaxImages :
                 \* bound: an item without images gets its first ones late, one list of them
                 /\ item.images > 0 \/ (lfRequests < MaxEdits /\ images < 2)
                 /\ UpdateImages(w, status, tags, images)
       \/ \E by \in Claimants : ClaimItem(w, by)
       \/ \E c \in ClaimIds, status \in {"APPROVED", "REJECTED"} : ReviewClaim(w, c, status)
       \/ \E c \in ClaimIds : PublishResolved(w, c)
       \/ SaveUpdate(w) \/ QueueAnalysis(w) \/ SaveClaim(w) \/ SaveReview(w)
  \/ DeleteItem
  \/ \E status \in {"OPEN", "CLOSED"} : BulkModerate(status)
  \/ \E a \in Analyses : StartAnalysis(a) \/ MarkSkipped(a) \/ MarkProcessing(a) \/ Complete(a) \/ FailAnalysis(a)
  \/ CrashLostFound
  \/ CleanupStuckProcessing

-----------------------------------------------------------------------------
\* The claim an item names as approved is an approved one, and no two claims
\* are approved unless the item was opened again in between: a claim that comes
\* in while the owner approves another makes the approval fail.  The
\* exceptions are two reviews under way at once, and a claim stored on an item
\* that was claimed after it was loaded.
ApprovalStands ==
  \/ raced
  \/ /\ item.approvedClaimId # 0 => item.claims[item.approvedClaimId].status = "APPROVED"
     /\ late \/ Cardinality(Among(item, "APPROVED")) <= 1 + reopened

\* Once the reviews are over, every claimant whose claim is decided was last
\* told what was decided, the ones rejected for another's sake too.
ClaimantsHear ==
  \/ raced \/ unheard
  \/ \E w \in LfWorkers : lfWork[w] # Nobody /\ lfWork[w].tells # {}
  \/ \A c \in Claimed(item) :
       item.claims[c].status # "PENDING" => told[c] = item.claims[c].status

\* An item whose analysis has not ended has one that is queued or running, or is
\* just being queued, whatever images it was given or lost meanwhile; what
\* is left waiting for ever are the items whose analysis a crash or a changed
\* version cut short, or whose owner did not agree.
AnalysisSettles ==
  \/ unsettled \/ ~item.exists
  \/ item.analysisStatus \in {"COMPLETED", "FAILED", "SKIPPED"}
  \/ Unqueued \/ \E a \in Analyses : analysis[a] # Nobody
=============================================================================
