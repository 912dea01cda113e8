------------------------------ MODULE Reports ------------------------------
(***************************************************************************)
(* Reports about one account and one post, and the two pages on which they *)
(* are settled.  AdminDashboard.tsx and ModerationDashboard.tsx first ask  *)
(* for the sanction, of user-service, product-service or the lost-found    *)
(* service, and then, in a second request, close the report, which reads   *)
(* and later saves it.                                                     *)
(*                                                                         *)
(* A request of user-service counts as one step here: Karma has its        *)
(* interleavings.  Reporters are left out: a report is one that            *)
(* createReport's check for an earlier one let through.  A SUPPORT report  *)
(* is a request for help about one's own account.  A warning is a penalty  *)
(* of other points.                                                        *)
(***************************************************************************)
EXTENDS Integers, Sequences, FiniteSets

CONSTANTS Admins, Moderators,  \* pages, of the two kinds
          MaxReports,          \* bound: reports filed
          MaxToggles,          \* bound: locks and unlocks from the lists of users
          NoTask               \* nothing under way on a page

VARIABLES reports,   \* the stored reports, in the order they were filed
          active,    \* whether the account is not locked
          post,      \* whether the post is there
          lists,     \* page -> report -> the status it shows; a report not shown is no key
          tasks,     \* page -> the report being settled there
          toggles,
          penalties, \* history: report -> how often closing it asked for a penalty
          sanctions, \* history: report -> sanctions carried out because of it
          closedBy,  \* history: report -> the action that closed it
          contested  \* history: reports closed while another page was closing them

reportVars == <<reports, active, post, lists, tasks, toggles,
                penalties, sanctions, closedBy, contested>>

Pages == Admins \cup Moderators
ReportStatuses == {"PENDING", "REVIEWED", "RESOLVED", "DISMISSED"}
Targets == {"USER", "SUPPORT", "POST"}
Sanctions == {"karma", "remove", "lock"}

\* What a button asks for first, and what the report becomes.
Step(sanction, status, skip) == [sanction |-> sanction, status |-> status, skip |-> skip]

Actions ==
  [DISMISS       |-> Step("none", "DISMISSED", FALSE),
   REVIEW        |-> Step("none", "REVIEWED", FALSE),
   RESOLVE       |-> Step("none", "RESOLVED", FALSE),
   PENALIZE_USER |-> Step("karma", "RESOLVED", TRUE),
   BAN_USER      |-> Step("lock", "RESOLVED", TRUE),
   REMOVE        |-> Step("remove", "RESOLVED", FALSE)]

ReportsTypeOK ==
  /\ reports \in Seq([target : Targets, status : ReportStatuses])
  /\ Len(reports) <= MaxReports /\ active \in BOOLEAN /\ post \in BOOLEAN
  /\ \A p \in Pages : DOMAIN lists[p] \subseteq DOMAIN reports
  /\ \A p \in Pages : tasks[p] = NoTask \/ tasks[p].at \in {"sanction", "read", "save"}
  /\ toggles \in 0..MaxToggles

ReportsInit ==
  /\ reports = <<>> /\ active = TRUE /\ post = TRUE
  /\ lists = [p \in Pages |-> <<>>]
  /\ tasks = [p \in Pages |-> NoTask]
  /\ toggles = 0
  /\ penalties = <<>> /\ sanctions = <<>> /\ closedBy = <<>>
  /\ contested = {}

reportHistory == <<penalties, sanctions, closedBy, contested>>

-----------------------------------------------------------------------------
CreateReport(target) ==
  /\ Len(reports) < MaxReports
  /\ reports' = Append(reports, [target |-> target, status |-> "PENDING"])
  /\ penalties' = Append(penalties, 0)
  /\ sanctions' = Append(sanctions, {}) /\ closedBy' = Append(closedBy, "none")
  /\ UNCHANGED <<active, post, lists, tasks, toggles, contested>>

\* The list of an admin shows reports of every status; only those not closed have
\* buttons.  A moderator's is of the pending ones.
Lists(p, wanted) ==
  lists' = [lists EXCEPT ![p] =
              [i \in {j \in DOMAIN reports : reports[j].status \in wanted} |-> reports[i].status]]

FetchData(p) ==
  /\ p \in Admins /\ Lists(p, {"PENDING", "REVIEWED"})
  /\ UNCHANGED <<reports, active, post, tasks, toggles, reportHistory>>

LoadData(p) ==
  /\ p \in Moderators /\ Lists(p, {"PENDING"})
  /\ UNCHANGED <<reports, active, post, tasks, toggles, reportHistory>>

\* The buttons of a report, by the kind of page and of target.
AdminOffers(i, status) ==
  {"DISMISS"} \cup (IF status = "PENDING" THEN {"REVIEW"} ELSE {})
    \cup (CASE reports[i].target = "USER" -> {"PENALIZE_USER"}
            [] reports[i].target = "SUPPORT" -> {"RESOLVE"}
            [] OTHER -> {"REMOVE"})

ModeratorOffers(i) ==
  {"DISMISS", "RESOLVE"} \cup (IF reports[i].target = "POST" THEN {"REMOVE"} ELSE {"BAN_USER"})

\* The button: the sanction first, where there is one.
Settle(p, i, action) ==
  /\ tasks[p] = NoTask /\ i \in DOMAIN lists[p]
  /\ action \in IF p \in Admins THEN AdminOffers(i, lists[p][i]) ELSE ModeratorOffers(i)
  /\ tasks' = [tasks EXCEPT ![p] =
                 [report |-> i, action |-> action,
                  at |-> IF Actions[action].sanction = "none" THEN "read" ELSE "sanction"]]
  /\ UNCHANGED <<reports, active, post, lists, toggles, reportHistory>>

At(p, at) == tasks[p] # NoTask /\ tasks[p].at = at

Sanctioned(i, sanction) == sanctions' = [sanctions EXCEPT ![i] = @ \cup {sanction}]

Proceed(p) == tasks' = [tasks EXCEPT ![p].at = "read"]

\* adjustKarma.
Deduct(p) ==
  /\ At(p, "sanction") /\ Actions[tasks[p].action].sanction = "karma"
  /\ Sanctioned(tasks[p].report, "karma")
  /\ Proceed(p)
  /\ UNCHANGED <<reports, active, post, lists, toggles, penalties, closedBy, contested>>

\* toggleBanUser, which unlocks an account that is locked.
Lock(p) ==
  /\ At(p, "sanction") /\ Actions[tasks[p].action].sanction = "lock"
  /\ active' = ~active
  /\ Sanctioned(tasks[p].report, "lock")
  /\ Proceed(p)
  /\ UNCHANGED <<reports, post, lists, toggles, penalties, closedBy, contested>>

\* deleteProductAsAdmin, deleteItemAsAdmin: not found the second time.
Remove(p) ==
  /\ At(p, "sanction") /\ Actions[tasks[p].action].sanction = "remove"
  /\ post /\ post' = FALSE
  /\ Sanctioned(tasks[p].report, "remove")
  /\ Proceed(p)
  /\ UNCHANGED <<reports, active, lists, toggles, penalties, closedBy, contested>>

Settled(status) == status \in {"RESOLVED", "DISMISSED"}

\* resolveReport: read and checked, ...
ReadReport(p) ==
  /\ At(p, "read") /\ ~Settled(reports[tasks[p].report].status)
  /\ tasks' = [tasks EXCEPT ![p].at = "save"]
  /\ UNCHANGED <<reports, active, post, lists, toggles, reportHistory>>

Penalised_DespiteSanction(i, action) == reports[i].target = "USER" /\ action.status = "RESOLVED"

\* A report found valid costs the account points, unless the page already took
\* its own measure against it or the report is a request for help.
Penalised(i, action) ==
  /\ action.status = "RESOLVED" /\ ~action.skip
  /\ reports[i].target = "USER"

\* Penalties are counted up to two: a second one is already one too many.
OnceMore(n) == IF n < 2 THEN n + 1 ELSE n

Without(list, i) == [j \in DOMAIN list \ {i} |-> list[j]]

\* ... saved, and the penalty asked for, whose event may be lost: the server logs
\* it and answers all the same.  The page then drops the report, or keeps it when
\* no answer arrives.
SaveReport(p) ==
  /\ At(p, "save")
  /\ LET i == tasks[p].report
         action == Actions[tasks[p].action]
     IN  /\ reports' = [reports EXCEPT ![i].status = action.status]
         /\ \/ penalties' = penalties
            \/ Penalised(i, action) /\ penalties' = [penalties EXCEPT ![i] = OnceMore(@)]
         /\ closedBy' = [closedBy EXCEPT ![i] = tasks[p].action]
         /\ contested' = IF \E q \in Pages \ {p} : At(q, "save") /\ tasks[q].report = i
                           THEN contested \cup {i} ELSE contested
         /\ lists' \in {lists, [lists EXCEPT ![p] = Without(@, i)]}
         /\ tasks' = [tasks EXCEPT ![p] = NoTask]
  /\ UNCHANGED <<active, post, toggles, sanctions>>

\* A refusal, a failure or a page that is left: the rest is not asked for.
SettleFails(p) ==
  /\ tasks[p] # NoTask
  /\ tasks' = [tasks EXCEPT ![p] = NoTask]
  /\ UNCHANGED <<reports, active, post, lists, toggles, reportHistory>>

\* The lists of users.
ToggleBan ==
  /\ toggles < MaxToggles /\ toggles' = toggles + 1
  /\ active' = ~active
  /\ UNCHANGED <<reports, post, lists, tasks, reportHistory>>

ReportsNext ==
  \/ \E target \in Targets : CreateReport(target)
  \/ \E p \in Pages :
       \/ FetchData(p) \/ LoadData(p)
       \/ \E i \in DOMAIN reports, action \in DOMAIN Actions : Settle(p, i, action)
       \/ Deduct(p) \/ Lock(p) \/ Remove(p) \/ ReadReport(p) \/ SaveReport(p) \/ SettleFails(p)
  \/ ToggleBan

-----------------------------------------------------------------------------
\* A closed report has what it was closed with: its sanction was carried out,
\* whatever failed on the way and whoever else was at it; a removed post is gone.
\* And the penalty of the event is asked for at most once, and only for a report
\* about somebody's account that was found valid without more: never for a
\* dismissal, a post or a request for help, nor when the action that closed the
\* report had a sanction of its own; unless two pages were saving it at a time.
SanctionsHold ==
  \A i \in DOMAIN reports :
    /\ closedBy[i] # "none" =>
         Actions[closedBy[i]].sanction \in sanctions[i] \cup {"none"}
    /\ "remove" \in sanctions[i] => ~post
    /\ i \notin contested =>
         penalties[i] <= IF closedBy[i] = "RESOLVE" /\ reports[i].target = "USER" THEN 1 ELSE 0

\* The note a moderator's lock leaves on the report says that the account was
\* locked: so it is, while nobody unlocked it from a list of users.
LockedMeansLocked ==
  toggles = 0 =>
    \A i \in DOMAIN reports : closedBy[i] = "BAN_USER" => ~active
=============================================================================
