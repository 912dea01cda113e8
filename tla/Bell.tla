-------------------------------- MODULE Bell --------------------------------
(***************************************************************************)
(* The notifications of one browser tab: the bell of the layout, which     *)
(* asks when its user signs in and every minute, and the notifications     *)
(* page, which asks when it is opened.  Both hear the pushes of the        *)
(* gateway and the tab's own event after a notice was marked as read.      *)
(*                                                                         *)
(* An answer replaces the list it was asked for, whenever it arrives.  A   *)
(* page that was left takes no answer; the bell stays when its user signs  *)
(* out, and takes the answers to what that user asked.  Pushes may be      *)
(* lost: they carry no subscription id.  Left out: toasts, paging, the     *)
(* refresh of the user's karma, and deletion, which no page offers.        *)
(***************************************************************************)
EXTENDS Integers, Sequences, FiniteSets

CONSTANTS Users,        \* who signs in to the tab, in turn
          BellCalls,    \* requests of the tab under way at a time
          MaxNotices,   \* bound: notices created
          MaxBellAsks,  \* bound: requests the tab sends
          MaxSignIns,   \* bound
          NoUser

ASSUME BellAssumption ==
  MaxNotices \in Nat /\ MaxBellAsks \in Nat /\ MaxSignIns \in Nat /\ NoUser \notin Users

VARIABLES inbox,  \* the collection: notice -> whose it is and whether it is read
          user,     \* who is signed in, or NoUser
          onPage,   \* whether the notifications page is open
          lists,    \* list -> notice -> "absent", "unread" or "read"
          bellCalls,    \* call -> a request under way
          pushed,   \* notices on their way from the gateway
          asks, signIns,
          had,      \* history: list -> what it has shown of the user's since it was opened
          confirmed, \* history: notices this user marked and got the answer for
          stale     \* history: lists that took an answer, or a push, older than what they show

bellVars == <<inbox, user, onPage, lists, bellCalls, pushed, asks, signIns, had, confirmed, stale>>
bellHistory == <<had, confirmed, stale>>

Lists == {"bell", "page"}
Notices == DOMAIN inbox
NoBellCall == [op |-> "none", list |-> "bell", id |-> 0, by |-> NoUser, at |-> "asked",
               got |-> <<>>, behind |-> FALSE]
Empty == [n \in 1..MaxNotices |-> "absent"]

BellTypeOK ==
  /\ \A n \in Notices : inbox[n].to \in Users /\ inbox[n].read \in BOOLEAN
  /\ user \in Users \cup {NoUser} /\ onPage \in BOOLEAN
  /\ lists \in [Lists -> [1..MaxNotices -> {"absent", "unread", "read"}]]
  /\ \A k \in BellCalls : bellCalls[k].op \in {"none", "fetch", "read", "readAll"}
  /\ pushed \subseteq Notices
  /\ asks \in 0..MaxBellAsks /\ signIns \in 0..MaxSignIns
  /\ had \in [Lists -> SUBSET Notices] /\ confirmed \subseteq Notices /\ stale \subseteq Lists

BellInit ==
  /\ inbox = <<>> /\ user = NoUser /\ onPage = FALSE
  /\ lists = [l \in Lists |-> Empty]
  /\ bellCalls = [k \in BellCalls |-> NoBellCall]
  /\ pushed = {} /\ asks = 0 /\ signIns = 0
  /\ had = [l \in Lists |-> {}] /\ confirmed = {} /\ stale = {}

-----------------------------------------------------------------------------
\* The server.

\* sendNotification: stored, then published to the user's connections.
Create(u) ==
  /\ Len(inbox) < MaxNotices
  /\ inbox' = Append(inbox, [to |-> u, read |-> FALSE])
  /\ pushed' = IF u = user THEN pushed \cup {Len(inbox) + 1} ELSE pushed
  /\ UNCHANGED <<user, onPage, lists, bellCalls, asks, signIns, bellHistory>>

\* What getNotifications answers.
Listed(u) ==
  [n \in 1..MaxNotices |->
     IF n \notin Notices THEN "absent"
     ELSE IF inbox[n].to # u THEN "absent"
     ELSE IF inbox[n].read THEN "read" ELSE "unread"]

ServeFetch(k) ==
  /\ bellCalls[k].op = "fetch" /\ bellCalls[k].at = "asked"
  /\ bellCalls' = [bellCalls EXCEPT ![k].at = "served", ![k].got = Listed(bellCalls[k].by)]
  /\ UNCHANGED <<inbox, user, onPage, lists, pushed, asks, signIns, bellHistory>>

\* markAsRead finds the notice among the caller's.
ServeMarkRead(k) ==
  /\ bellCalls[k].op = "read" /\ bellCalls[k].at = "asked"
  /\ inbox[bellCalls[k].id].to = bellCalls[k].by
  /\ inbox' = [inbox EXCEPT ![bellCalls[k].id].read = TRUE]
  /\ bellCalls' = [bellCalls EXCEPT ![k].at = "served"]
  /\ UNCHANGED <<user, onPage, lists, pushed, asks, signIns, bellHistory>>

ServeMarkAllRead(k) ==
  /\ bellCalls[k].op = "readAll" /\ bellCalls[k].at = "asked"
  /\ inbox' = [n \in Notices |-> IF inbox[n].to = bellCalls[k].by
                                   THEN [inbox[n] EXCEPT !.read = TRUE] ELSE inbox[n]]
  /\ bellCalls' = [bellCalls EXCEPT ![k].at = "served", ![k].got = Listed(bellCalls[k].by)]
  /\ UNCHANGED <<user, onPage, lists, pushed, asks, signIns, bellHistory>>

-----------------------------------------------------------------------------
\* The tab asks.

Asked(op, l, id) == [NoBellCall EXCEPT !.op = op, !.list = l, !.id = id, !.by = user]

Ask(op, l, id) ==
  /\ asks < MaxBellAsks
  /\ asks' = asks + 1
  /\ \E k \in BellCalls : bellCalls[k] = NoBellCall /\ bellCalls' = [bellCalls EXCEPT ![k] = Asked(op, l, id)]

\* fetchNotifs, called by the interval.
Poll ==
  /\ user # NoUser
  /\ Ask("fetch", "bell", 0)
  /\ UNCHANGED <<inbox, user, onPage, lists, pushed, signIns, bellHistory>>

HandleMarkRead(n) ==
  /\ user # NoUser /\ \E l \in Lists : lists[l][n] = "unread"
  /\ Ask("read", "bell", n)
  /\ UNCHANGED <<inbox, user, onPage, lists, pushed, signIns, bellHistory>>

HandleMarkAll ==
  /\ user # NoUser
  /\ Ask("readAll", "bell", 0)
  /\ UNCHANGED <<inbox, user, onPage, lists, pushed, signIns, bellHistory>>

OpenPage ==
  /\ user # NoUser /\ ~onPage
  /\ onPage' = TRUE
  /\ Ask("fetch", "page", 0)
  /\ UNCHANGED <<inbox, user, lists, pushed, signIns, bellHistory>>

\* The page is gone, and the answers it waits for with it.
Unmounted(l, cs) ==
  [k \in BellCalls |-> IF cs[k].op = "fetch" /\ cs[k].list = l THEN NoBellCall ELSE cs[k]]
LeavePage ==
  /\ onPage
  /\ onPage' = FALSE
  /\ lists' = [lists EXCEPT !["page"] = Empty]
  /\ bellCalls' = Unmounted("page", bellCalls)
  /\ had' = [had EXCEPT !["page"] = {}] /\ stale' = stale \ {"page"}
  /\ UNCHANGED <<inbox, user, pushed, asks, signIns, confirmed>>

\* The layout's effect asks as soon as someone is signed in.
SignIn(u) ==
  /\ user = NoUser /\ signIns < MaxSignIns
  /\ user' = u /\ signIns' = signIns + 1
  /\ asks < MaxBellAsks /\ asks' = asks + 1
  /\ \E k \in BellCalls : /\ bellCalls[k] = NoBellCall
                          /\ bellCalls' = [bellCalls EXCEPT ![k] = [Asked("fetch", "bell", 0) EXCEPT !.by = u]]
  /\ UNCHANGED <<inbox, onPage, lists, pushed, bellHistory>>

\* What is under way was asked before this change of the lists.
Behind(cs, At) ==
  [k \in BellCalls |-> [cs[k] EXCEPT !.behind = @ \/ (cs[k].op = "fetch" /\ cs[k].at \in At)]]

SignOut ==
  /\ user # NoUser
  /\ user' = NoUser /\ onPage' = FALSE /\ pushed' = {}
  /\ lists' = [l \in Lists |-> Empty]
  /\ bellCalls' = Behind(Unmounted("page", bellCalls), {"asked", "served"})
  /\ had' = [l \in Lists |-> {}] /\ confirmed' = {} /\ stale' = {}
  /\ UNCHANGED <<inbox, asks, signIns>>

-----------------------------------------------------------------------------
\* The tab hears.

Open == {l \in Lists : l = "page" => onPage}

\* The notification listeners: at the head of the list, unless it is there.
HearPush(n) ==
  /\ n \in pushed
  /\ pushed' = pushed \ {n}
  /\ lists' = [l \in Lists |-> IF l \in Open /\ lists[l][n] = "absent"
                               THEN [lists[l] EXCEPT ![n] = "unread"] ELSE lists[l]]
  /\ had' = [l \in Lists |-> IF l \in Open THEN had[l] \cup {n} ELSE had[l]]
  /\ bellCalls' = Behind(bellCalls, {"served"})
  /\ stale' = IF n \in confirmed THEN stale \cup {l \in Open : lists[l][n] = "absent"} ELSE stale
  /\ UNCHANGED <<inbox, user, onPage, asks, signIns, confirmed>>

LosePush(n) ==
  /\ n \in pushed
  /\ pushed' = pushed \ {n}
  /\ UNCHANGED <<inbox, user, onPage, lists, bellCalls, asks, signIns, bellHistory>>

\* The collection only grows and is only marked as read.
Older(list, than) ==
  \E n \in 1..MaxNotices : list[n] # than[n] /\ (list[n] = "absent" \/ than[n] = "read")

\* An answer replaces the list, also the bell's of a user who has left.
TakeList(k) ==
  LET c == bellCalls[k] IN
  /\ c.op = "fetch" /\ c.at = "served"
  /\ lists' = [lists EXCEPT ![c.list] = c.got]
  /\ bellCalls' = [j \in BellCalls |->
                 IF j = k THEN NoBellCall
                 ELSE IF bellCalls[j].op = "fetch" /\ bellCalls[j].list = c.list /\ bellCalls[j].at = "served"
                      THEN [bellCalls[j] EXCEPT !.behind = @ \/ Older(bellCalls[j].got, c.got)]
                 ELSE bellCalls[j]]
  /\ had' = [had EXCEPT ![c.list] = @ \cup {n \in Notices : c.got[n] # "absent" /\ c.by = user}]
  /\ stale' = IF c.behind THEN stale \cup {c.list} ELSE stale \ {c.list}
  /\ UNCHANGED <<inbox, user, onPage, pushed, asks, signIns, confirmed>>

Read(list, S) == [n \in 1..MaxNotices |-> IF n \in S /\ list[n] = "unread" THEN "read" ELSE list[n]]

\* The event reaches both lists.
TakeRead_OneList(k) ==
  LET c == bellCalls[k] IN
  /\ c.op = "read" /\ c.at = "served"
  /\ lists' = [lists EXCEPT !["bell"] = Read(@, {c.id})]
  /\ bellCalls' = Behind([bellCalls EXCEPT ![k] = NoBellCall], {"served"})
  /\ confirmed' = IF c.by = user THEN confirmed \cup {c.id} ELSE confirmed
  /\ UNCHANGED <<inbox, user, onPage, pushed, asks, signIns, had, stale>>
TakeRead(k) ==
  LET c == bellCalls[k] IN
  /\ c.op = "read" /\ c.at = "served"
  /\ lists' = [l \in Lists |-> Read(lists[l], {c.id})]
  /\ bellCalls' = Behind([bellCalls EXCEPT ![k] = NoBellCall], {"served"})
  /\ confirmed' = IF c.by = user THEN confirmed \cup {c.id} ELSE confirmed
  /\ UNCHANGED <<inbox, user, onPage, pushed, asks, signIns, had, stale>>

\* Everything in the lists, also what came after the server had answered.
TakeReadAll(k) ==
  LET c == bellCalls[k]
      early(l) == \E n \in 1..MaxNotices : lists[l][n] = "unread" /\ c.got[n] = "absent"
  IN
  /\ c.op = "readAll" /\ c.at = "served"
  /\ lists' = [l \in Lists |-> Read(lists[l], 1..MaxNotices)]
  /\ bellCalls' = Behind([bellCalls EXCEPT ![k] = NoBellCall], {"served"})
  /\ confirmed' = IF c.by = user THEN confirmed \cup {n \in Notices : c.got[n] # "absent"} ELSE confirmed
  /\ stale' = stale \cup {l \in Lists : early(l)}
  /\ UNCHANGED <<inbox, user, onPage, pushed, asks, signIns, had>>

\* An error is logged and nothing changes; the server may have done it.
BellCallFails(k) ==
  /\ bellCalls[k] # NoBellCall
  /\ bellCalls' = [bellCalls EXCEPT ![k] = NoBellCall]
  /\ UNCHANGED <<inbox, user, onPage, lists, pushed, asks, signIns, bellHistory>>

BellNext ==
  \/ \E u \in Users : Create(u) \/ SignIn(u)
  \/ \E n \in Notices : HandleMarkRead(n) \/ HearPush(n) \/ LosePush(n)
  \/ \E k \in BellCalls : \/ ServeFetch(k) \/ ServeMarkRead(k) \/ ServeMarkAllRead(k)
                          \/ TakeList(k) \/ TakeRead(k) \/ TakeReadAll(k) \/ BellCallFails(k)
  \/ Poll \/ HandleMarkAll \/ OpenPage \/ LeavePage \/ SignOut

-----------------------------------------------------------------------------
\* However pushes, polls, marks and changes of user interleave, a list that has
\* not taken an answer or a push older than itself shows notices of its user only, has
\* lost none it showed, shows as read what its user marked, and shows nothing as
\* read that is stored unread (Layout.tsx, Notifications.tsx).
ListsAreHonest ==
  \A l \in Open \ stale : \A n \in Notices :
    /\ lists[l][n] # "absent" => inbox[n].to = user
    /\ n \in had[l] => lists[l][n] # "absent"
    /\ n \in confirmed => lists[l][n] # "unread"
    /\ lists[l][n] = "read" => inbox[n].read
=============================================================================
