------------------------------ MODULE Session ------------------------------
(***************************************************************************)
(* A browser logged in to the account: its tabs share the cookie with the  *)
(* refresh token and localStorage with the access token, and each tab runs *)
(* api.ts.  API calls answered 401 make the tab refresh and wait; calls    *)
(* that start when the token is about to run out refresh first; one        *)
(* refresh is under way in a tab at a time, and none for five seconds      *)
(* after one failed.  The refresh is the request of module Accounts, which *)
(* other devices, mails and admins send requests to as well.               *)
(*                                                                         *)
(* The access token is fresh, or old: about to run out (the tab refreshes, *)
(* the server still accepts) or past it.  The browser's story ends when it *)
(* is sent to the login page.                                              *)
(***************************************************************************)
EXTENDS Accounts

CONSTANTS Tabs,
          Elsewhere,    \* the other clients of the account
          Calls,        \* API calls under way at a time
          OtherOps,     \* what the other clients ask for of a browser's account
          MaxOthers,    \* bound: how often, with answers lost and tabs reloaded
          MaxRequests   \* bound: requests to an account without a browser

ASSUME SessionAssumption ==
  /\ Clients = Tabs \cup {Elsewhere} /\ Elsewhere \notin Tabs
  /\ OtherOps \subseteq Operations
  /\ MaxOthers \in Nat /\ MaxRequests \in Nat

VARIABLES cookie,     \* the refresh token in the cookie jar
          local,      \* the access token in localStorage
          tab,        \* tab -> the state of api.ts
          call,       \* call -> where it is, or Free
          others,     \* requests of other clients so far
          faults,
          disturbed,  \* history: something else ended or may end the session
          rejected    \* history: a refresh was answered 401

browserVars == <<cookie, local, tab, call>>
historyVars == <<others, faults, disturbed, rejected>>
vars == <<accountVars, browserVars, historyVars>>

\* `refresh`: whether refreshPromise is pending, and the cookie sent with it;
\* `failed`: why the last refresh failed, for five seconds.
Tab == [refresh : {"none", "sent", "handled"}, sent : OrNone, isRefreshing : BOOLEAN,
        failed : {"no", "refused", "other"}]

\* "waiting" in the request interceptor, "sent" with a token, "queued" in
\* failedQueue, "leading" the refresh.  "me" is the call of restoreAuth.
Call == [tab : Tabs, kind : {"api", "me"}, at : {"waiting", "sent", "queued", "leading"},
         token : {"none", "fresh", "old"}, retried : BOOLEAN]

ASSUME CallAssumption == Free \notin Call

SessionTypeOK ==
  /\ AccountsTypeOK
  /\ cookie \in OrNone
  /\ local \in {"none", "fresh", "old"}
  /\ tab \in [Tabs -> Tab]
  /\ call \in [Calls -> Call \cup {Free}]
  /\ others \in Nat
  /\ faults \in Nat
  /\ disturbed \in BOOLEAN
  /\ rejected \in BOOLEAN

NewTab == [refresh |-> "none", sent |-> NoId, isRefreshing |-> FALSE, failed |-> "no"]

Init ==
  /\ AccountsInit
  /\ cookie \in {NoId, row.refreshToken}
  /\ local = IF cookie = NoId THEN "none" ELSE "fresh"
  /\ tab = [t \in Tabs |-> NewTab]
  /\ call = [c \in Calls |-> Free]
  /\ others = 0
  /\ faults = 0
  /\ disturbed = (cookie = NoId)
  /\ rejected = FALSE

Fault == others + faults < MaxOthers /\ faults' = faults + 1

-----------------------------------------------------------------------------
(* api.ts                                                                   *)

\* refreshAccessToken: join the refresh under way, repeat the last failure
\* within its five seconds, or send one.
Joins(t)  == tab[t].refresh # "none"
Repeats(t) == ~Joins(t) /\ tab[t].failed # "no"
Sends(t)  == ~Joins(t) /\ ~Repeats(t)

Sent(s) == [s EXCEPT !.refresh = "sent", !.sent = cookie]

RefreshAccessToken_Alone(t, s) == Sent(s)

\* The tab's state s after the call.
RefreshAccessToken(t, s) == IF Sends(t) THEN Sent(s) ELSE s

\* Another tab may be about to use the same token.
Collides(t) == Sends(t) /\ \E u \in Tabs \ {t} : tab[u].refresh # "none"

\* The request interceptor refreshes before a call with an old token, and
\* restoreAuth before a call without one, unless that failed a moment ago.
\* Bound: a browser that was not logged in stays idle.
RefreshesFirst(t, kind) ==
  ~Repeats(t) /\ (local = "old" \/ (local = "none" /\ kind = "me"))

StartCall(c, t, kind) ==
  LET starts(at) == call' = [call EXCEPT ![c] = [tab |-> t, kind |-> kind, at |-> at,
                                                 token |-> local, retried |-> FALSE]]
  IN  /\ call[c] = Free /\ cookie # NoId
      /\ \/ /\ RefreshesFirst(t, kind)
            /\ starts("waiting")
            /\ tab' = [tab EXCEPT ![t] = RefreshAccessToken(t, @)]
            /\ disturbed' = (disturbed \/ Collides(t))
         \/ /\ ~RefreshesFirst(t, kind)
            /\ ~(kind = "me" /\ local = "none")
            /\ starts("sent")
            /\ UNCHANGED <<tab, disturbed>>
      /\ UNCHANGED <<accountVars, cookie, local, others, faults, rejected>>

Of(t, at) == {c \in Calls : call[c] # Free /\ call[c].tab = t /\ call[c].at \in at}

\* .then, processQueue(null, token), and finally: isRefreshing is over.  Calls go
\* on with the new token; some that are sent a second time (`refused`) fail at
\* the guard against double submits.
RefreshSucceeds(t) ==
  /\ local' = "fresh"
  /\ tab' = [tab EXCEPT ![t] = NewTab]
  /\ \E refused \in SUBSET Of(t, {"queued", "leading"}) :
       call' = [c \in Calls |-> IF c \in refused THEN Free
                               ELSE IF c \in Of(t, {"waiting", "queued", "leading"})
                                 THEN [call[c] EXCEPT !.at = "sent", !.token = "fresh"]
                               ELSE call[c]]

\* The page is left: what the tab was doing is gone.
Gone(t, c) == call[c] # Free /\ call[c].tab = t

RefreshFails_QueueKept(t, why) ==
  /\ local' = local
  /\ tab' = [tab EXCEPT ![t] = [NewTab EXCEPT !.failed = why]]
  /\ call' = [c \in Calls |-> IF c \in Of(t, {"leading"}) THEN Free
                              ELSE IF c \in Of(t, {"waiting"}) THEN [call[c] EXCEPT !.at = "sent"]
                              ELSE call[c]]

\* .catch, processQueue(error), and finally.  400, 401 and 403 send the tab to
\* the login page if a call led the refresh; waiting calls go on with the old
\* token; restoreAuth gives up.
RefreshFails(t, why) ==
  LET leaves  == why = "refused" /\ tab[t].isRefreshing
      restores == \E c \in Of(t, {"waiting", "leading", "queued"}) :
                    call[c].kind = "me" /\ (call[c].at # "waiting" \/ call[c].token = "none")
  IN  /\ local' = IF leaves \/ restores THEN "none" ELSE local
      /\ tab' = [tab EXCEPT ![t] = IF leaves THEN NewTab ELSE [NewTab EXCEPT !.failed = why]]
      /\ call' = [c \in Calls |->
                   IF leaves /\ Gone(t, c) THEN Free
                   ELSE IF c \in Of(t, {"leading", "queued"}) THEN Free
                   ELSE IF c \in Of(t, {"waiting"})
                     THEN IF call[c].token = "none" THEN Free ELSE [call[c] EXCEPT !.at = "sent"]
                   ELSE call[c]]

\* The API answers; a 401 is the tab's business unless the call was retried.
Succeed(c) ==
  /\ call[c] # Free /\ call[c].at = "sent" /\ call[c].token # "none"
  /\ call' = [call EXCEPT ![c] = Free]
  /\ UNCHANGED <<accountVars, cookie, local, tab, historyVars>>

\* The call fails for good: restoreAuth drops the access token.
GiveUp(c) ==
  /\ call' = [call EXCEPT ![c] = Free]
  /\ local' = IF call[c].kind = "me" THEN "none" ELSE local
  /\ UNCHANGED <<accountVars, cookie, tab, historyVars>>

\* Another error than 401, or a second 401.
Error(c) ==
  /\ call[c] # Free /\ call[c].at = "sent"
  /\ GiveUp(c)

\* The response interceptor on a 401: queue behind the refresh, or lead one.
Unauthorized(c) ==
  /\ call[c] # Free /\ call[c].at = "sent" /\ call[c].token # "fresh" /\ ~call[c].retried
  /\ LET t == call[c].tab
     IN  \/ /\ tab[t].isRefreshing
            /\ call' = [call EXCEPT ![c].at = "queued"]
            /\ UNCHANGED <<accountVars, cookie, local, tab, historyVars>>
         \/ /\ ~tab[t].isRefreshing /\ ~Repeats(t)
            /\ call' = [call EXCEPT ![c].at = "leading", ![c].retried = TRUE]
            /\ tab' = [tab EXCEPT ![t] = RefreshAccessToken(t, [@ EXCEPT !.isRefreshing = TRUE])]
            /\ disturbed' = (disturbed \/ Collides(t))
            /\ UNCHANGED <<accountVars, cookie, local, others, faults, rejected>>
         \/ /\ ~tab[t].isRefreshing /\ Repeats(t) /\ tab[t].failed = "other"
            /\ GiveUp(c)
         \/ /\ ~tab[t].isRefreshing /\ Repeats(t) /\ tab[t].failed = "refused"
            /\ local' = "none"
            /\ tab' = [tab EXCEPT ![t] = NewTab]
            /\ call' = [d \in Calls |-> IF Gone(t, d) THEN Free ELSE call[d]]
            /\ UNCHANGED <<accountVars, cookie, historyVars>>

\* Five seconds after a failure.
CoolDown(t) ==
  /\ tab[t].failed # "no"
  /\ tab' = [tab EXCEPT ![t].failed = "no"]
  /\ UNCHANGED <<accountVars, cookie, local, call, historyVars>>

AccessAges ==
  /\ local = "fresh" \/ \E c \in Calls : call[c] # Free /\ call[c].token = "fresh"
  /\ local' = IF local = "fresh" THEN "old" ELSE local
  /\ call' = [c \in Calls |-> IF call[c] # Free /\ call[c].token = "fresh"
                                THEN [call[c] EXCEPT !.token = "old"] ELSE call[c]]
  /\ UNCHANGED <<accountVars, cookie, tab, historyVars>>

\* The page is loaded again, and what it waited for, a new cookie too, is lost.
Reload(t) ==
  /\ Fault
  /\ tab' = [tab EXCEPT ![t] = NewTab]
  /\ call' = [c \in Calls |-> IF Gone(t, c) THEN Free ELSE call[c]]
  /\ disturbed' = (disturbed \/ tab[t].refresh # "none")
  /\ UNCHANGED <<accountVars, cookie, local, others, rejected>>

-----------------------------------------------------------------------------
(* Requests to the account.                                                 *)

\* A tab's refresh arrives with the cookie it was sent with.
LoadRefresh(w, t) ==
  /\ tab[t].refresh = "sent"
  /\ Load(w, t, "refreshToken", tab[t].sent)
  /\ tab' = [tab EXCEPT ![t].refresh = "handled"]
  /\ UNCHANGED <<cookie, local, call, historyVars>>

\* Whether the tab still waits for what w answers.
Awaited(w) ==
  /\ request[w].client \in Tabs /\ request[w].op = "refreshToken"
  /\ tab[request[w].client].refresh = "handled"

AnswerRefresh(w) ==
  LET t == request[w].client
      r == request[w].reply
  IN  /\ request[w] # Free
      /\ Awaited(w)
      /\ Reply_(w)
      /\ \/ /\ r.status = 200
            /\ cookie' = r.token
            /\ RefreshSucceeds(t)
            /\ rejected' = rejected
         \/ /\ r.status # 200
            /\ cookie' = cookie
            /\ RefreshFails(t, IF r.status = 500 THEN "other" ELSE "refused")
            /\ rejected' = (rejected \/ r.status = 401)
      /\ UNCHANGED <<others, faults, disturbed>>

\* The answer does not reach the tab.
LoseAnswer(w) ==
  /\ request[w] # Free
  /\ Awaited(w)
  /\ Reply_(w)
  /\ Fault
  /\ RefreshFails(request[w].client, "other")
  /\ disturbed' = TRUE
  /\ UNCHANGED <<cookie, others, rejected>>

AskElsewhere(w, op, entered) ==
  /\ IF cookie = NoId THEN others < MaxRequests
                     ELSE others + faults < MaxOthers /\ op \in OtherOps
  /\ Load(w, Elsewhere, op, entered)
  /\ others' = others + 1
  /\ UNCHANGED <<browserVars, faults, disturbed, rejected>>

\* Someone else's save takes the session when it changes the refresh token; a
\* tab's when it undoes another save.
SaveRow(w) ==
  /\ Save(w)
  /\ disturbed' = \/ disturbed
                  \/ overtaken'
                  \/ request[w].client = Elsewhere /\ row'.refreshToken # row.refreshToken
  /\ UNCHANGED <<browserVars, others, faults, rejected>>

\* Answers nobody of this browser waits for.
AnswerElsewhere(w) ==
  /\ request[w] # Free
  /\ ~Awaited(w)
  /\ Reply_(w)
  /\ UNCHANGED <<browserVars, historyVars>>

ExpireId(id) ==
  /\ Expire(id)
  /\ disturbed' = (disturbed \/ id = row.refreshToken \/ id = cookie)
  /\ UNCHANGED <<browserVars, others, faults, rejected>>

-----------------------------------------------------------------------------
Next ==
  \/ \E c \in Calls, t \in Tabs, kind \in {"api", "me"} : StartCall(c, t, kind)
  \/ \E c \in Calls : Succeed(c) \/ Error(c) \/ Unauthorized(c)
  \/ \E t \in Tabs : CoolDown(t) \/ Reload(t)
  \/ AccessAges
  \/ \E w \in HttpWorkers :
       \/ \E t \in Tabs : LoadRefresh(w, t)
       \/ AnswerRefresh(w) \/ LoseAnswer(w) \/ SaveRow(w) \/ AnswerElsewhere(w)
       \/ \E op \in Operations, entered \in 0..issued : AskElsewhere(w, op, entered)
  \/ \E id \in 1..issued : ExpireId(id)

Spec == Init /\ [][Next]_vars

-----------------------------------------------------------------------------
\* A browser keeps its session: however its calls start, fail and overlap, the
\* server never refuses a refresh, unless another client, another tab, a lost
\* answer, an expiry or a save that undid another came between.
KeepsSession == rejected => disturbed

\* No call waits for a refresh that will not end: failedQueue is empty unless a
\* call of the tab leads one, and who leads or waits in the interceptor waits
\* for a refresh under way.
NothingWaitsInVain ==
  \A t \in Tabs :
    /\ Of(t, {"queued"}) # {} => tab[t].isRefreshing
    /\ tab[t].isRefreshing => Of(t, {"leading"}) # {}
    /\ Of(t, {"waiting", "leading"}) # {} => tab[t].refresh # "none"
=============================================================================
