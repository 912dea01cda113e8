------------------------------ MODULE Notices ------------------------------
(***************************************************************************)
(* notification-service: how one event becomes notices of the people it    *)
(* concerns.  A consumer group reads the event (at least once: a crash or  *)
(* an expired session delivers again what was not committed), its handler  *)
(* stores one notice after another, a handler that throws parks the event  *)
(* in the dead letter collection, and an admin retries (which publishes    *)
(* the event once more) or dismisses what is parked.                       *)
(*                                                                         *)
(* Only the collection that stores notices can make a handler throw:       *)
(* profile and product look-ups, pushes and mails catch their own errors.  *)
(* The copies of the event are numbered by their offset.                   *)
(***************************************************************************)
EXTENDS Integers, Sequences, FiniteSets, Functions

CONSTANTS NoticeReplicas,   \* processes of the consumer group
          MaxCopies,        \* bound: copies of the event in the topic
          MaxNoticeFaults,  \* bound: failed writes, crashes, expired sessions
          Resting           \* a replica without an event

VARIABLES event,      \* the event of this behaviour
          copies,     \* how often it was published
          position,   \* the copy the group reads next
          finished,   \* the last copy its present owner is through with
          committed,  \* the group's committed offset
          owner,      \* the replica the partition is assigned to
          handler,    \* replica -> the copy it handles, or Resting
          notices,    \* person -> notices stored of the event
          dlq,        \* the parked copies
          retrying,   \* retries sent whose row is not saved yet
          forgotten,  \* history: not parked, swallowed, or dismissed
          noticeFaults

noticeVars == <<event, copies, position, finished, committed, owner, handler, notices, dlq,
                retrying, forgotten, noticeFaults>>

-----------------------------------------------------------------------------
(* The events, who causes them, and whom their handlers tell, in order.     *)

BySeller == {"order.completed", "order.refunded", "order.payment.confirmed"}
ByBuyer  == {"order.created", "order.payment.reported"}
ByEither == {"order.cancelled", "order.dispute.opened", "order.dispute.evidence_added",
             "order.handover.proposed", "order.handover.responded",
             "order.handover.confirmed", "order.payment_issue.opened"}
ByAdmin  == {"order.dispute.resolved", "order.payment_issue.resolved"}
BySystem == {"order.updated", "order.cancelled", "product.reserved", "product.reserve.expired"}

\* The provider's call-back confirms a payment of the buyer's.
OrderEvents ==
       [topic : BySeller, by : {"seller"}]
  \cup [topic : ByBuyer \cup {"order.payment.confirmed"}, by : {"buyer"}]
  \cup [topic : ByEither, by : {"buyer", "seller"}]
  \cup [topic : ByAdmin, by : {"admin"}]
  \cup [topic : BySystem, by : {"system"}]

OtherEvents ==
       [topic : {"offer.created"}, by : {"buyer"}]
  \cup [topic : {"offer.resolved"}, by : {"seller"}]
  \cup [topic : {"product.approved", "product.rejected"}, by : {"admin"}]
  \cup [topic : {"report.created"}, by : {"reporter"}]
  \cup [topic : {"report.resolved", "user.student_verification.reviewed"}, by : {"admin"}]
  \cup [topic : {"user.student_verification.requested"}, by : {"user"}]
  \cup [topic : {"lostfound.claim.created"}, by : {"claimant"}]
  \cup [topic : {"lostfound.claim.resolved"}, by : {"owner"}]
  \cup [topic : {"karma.updated", "lostfound.analyzed", "lostfound.match"}, by : {"system"}]

NoticeEvents == OrderEvents \cup OtherEvents

BothParties == <<"buyer", "seller">>
NotTheActor(e) ==
  CASE e.by = "buyer"  -> <<"seller">>
    [] e.by = "seller" -> <<"buyer">>
    [] OTHER           -> BothParties

TellsSeller == {"order.created", "product.reserved", "offer.created", "product.approved",
                "product.rejected"}

TellsBoth == {"order.updated", "order.completed", "order.cancelled", "order.dispute.opened",
              "order.dispute.resolved", "order.refunded", "order.payment_issue.resolved",
              "product.reserve.expired"}

TellsTheOther == {"order.dispute.evidence_added", "order.handover.proposed",
                  "order.handover.responded", "order.handover.confirmed",
                  "order.payment_issue.opened"}

\* A reported transfer is the seller's to confirm; the buyer who paid online
\* knows, and so does the seller who confirms a transfer.
PaymentTells(e) == IF e.by = "buyer" THEN <<"seller">> ELSE <<"buyer">>

\* The best match, and the owners of the two best.
LostFoundTells(e) ==
  CASE e.topic = "lostfound.analyzed"      -> <<"student">>
    [] e.topic = "lostfound.match"         -> <<"user", "owner">>
    [] e.topic = "lostfound.claim.created" -> <<"owner">>
    [] e.topic = "lostfound.claim.resolved" -> <<"claimant">>

Tells(e) ==
  CASE e.topic \in TellsSeller   -> <<"seller">>
    [] e.topic \in TellsBoth     -> BothParties
    [] e.topic \in TellsTheOther -> NotTheActor(e)
    [] e.topic \in {"order.payment.reported", "order.payment.confirmed"} -> PaymentTells(e)
    [] e.topic = "offer.resolved"  -> <<"buyer">>
    [] e.topic = "report.created"  -> <<"reporter", "reported">>
    [] e.topic = "report.resolved" -> <<"reporter">>
    [] e.topic \in {"karma.updated", "user.student_verification.requested",
                    "user.student_verification.reviewed"} -> <<"user">>
    [] OTHER -> LostFoundTells(e)

\* Its handler catches whatever goes wrong.
LogsOnly(e) == e.topic = "lostfound.analyzed"

-----------------------------------------------------------------------------
Persons == {"buyer", "seller", "user", "reporter", "reported", "student", "owner", "claimant"}

\* `failed`: the handler threw and its copy is to be parked.
Handling == [copy : 1..MaxCopies, todo : Seq(Persons), failed : BOOLEAN]

ASSUME NoticesAssumption == MaxCopies \in Nat \ {0} /\ Resting \notin Handling

NoticesTypeOK ==
  /\ event \in NoticeEvents
  /\ copies \in 1..MaxCopies /\ position \in 1..MaxCopies + 1
  /\ finished \in 0..MaxCopies /\ committed \in 0..MaxCopies
  /\ owner \in NoticeReplicas
  /\ handler \in [NoticeReplicas -> Handling \cup {Resting}]
  /\ notices \in [Persons -> Nat]
  /\ dlq \in Seq({"PENDING", "RETRYING", "deleted"})
  /\ retrying \subseteq 1..Len(dlq)
  /\ forgotten \in BOOLEAN /\ noticeFaults \in Nat

NoticesInitWith(e) ==
  /\ event = e
  /\ copies = 1 /\ position = 1 /\ finished = 0 /\ committed = 0
  /\ owner \in NoticeReplicas
  /\ handler = [r \in NoticeReplicas |-> Resting]
  /\ notices = [p \in Persons |-> 0]
  /\ dlq = <<>> /\ retrying = {}
  /\ forgotten = FALSE /\ noticeFaults = 0

NoticeFault == noticeFaults < MaxNoticeFaults /\ noticeFaults' = noticeFaults + 1

\* eachMessage: the handler starts on the next copy.
Receive(r) ==
  /\ owner = r /\ handler[r] = Resting /\ position <= copies
  /\ handler' = [handler EXCEPT ![r] = [copy |-> position, todo |-> Tells(event), failed |-> FALSE]]
  /\ position' = position + 1
  /\ UNCHANGED <<event, copies, finished, committed, owner, notices, dlq, retrying, forgotten,
                 noticeFaults>>

\* sendNotification: the notice is stored; or it is not, and the rest of the
\* handler is skipped.
SendNotification(r) ==
  /\ handler[r] # Resting /\ handler[r].todo # <<>> /\ ~handler[r].failed
  /\ \/ /\ notices' = [notices EXCEPT ![Head(handler[r].todo)] = @ + 1]
        /\ handler' = [handler EXCEPT ![r].todo = Tail(@)]
        /\ UNCHANGED <<forgotten, noticeFaults>>
     \/ /\ NoticeFault
        /\ handler' = [handler EXCEPT ![r].todo = <<>>, ![r].failed = ~LogsOnly(event)]
        /\ forgotten' = (forgotten \/ LogsOnly(event))
        /\ UNCHANGED notices
  /\ UNCHANGED <<event, copies, position, finished, committed, owner, dlq, retrying>>

\* The catch block parks the copy, if the same database takes it.
Park(r) ==
  /\ handler[r] # Resting /\ handler[r].failed
  /\ handler' = [handler EXCEPT ![r].failed = FALSE]
  /\ \/ /\ dlq' = Append(dlq, "PENDING")
        /\ UNCHANGED <<forgotten, noticeFaults>>
     \/ /\ NoticeFault
        /\ forgotten' = TRUE
        /\ UNCHANGED dlq
  /\ UNCHANGED <<event, copies, position, finished, committed, owner, notices, retrying>>

\* eachMessage returns; a replica that lost the partition can commit no more.
Finish(r) ==
  /\ handler[r] # Resting /\ handler[r].todo = <<>> /\ ~handler[r].failed
  /\ handler' = [handler EXCEPT ![r] = Resting]
  /\ finished' = IF owner = r /\ handler[r].copy < position
                   THEN handler[r].copy ELSE finished
  /\ UNCHANGED <<event, copies, position, committed, owner, notices, dlq, retrying,
                 forgotten, noticeFaults>>

CommitOffsets_Early ==
  /\ committed' = position - 1
  /\ UNCHANGED <<event, copies, position, finished, owner, handler, notices, dlq, retrying, forgotten, noticeFaults>>

\* From time to time.
CommitOffsets ==
  /\ committed < finished
  /\ committed' = finished
  /\ UNCHANGED <<event, copies, position, finished, owner, handler, notices, dlq, retrying, forgotten, noticeFaults>>

\* The group starts over from the committed offset: the owner has crashed, or
\* it is only slow and goes on with what it has.
Rebalance(r, s, crashed) ==
  /\ NoticeFault
  /\ owner = r
  /\ owner' = s
  /\ handler' = IF crashed THEN [handler EXCEPT ![r] = Resting] ELSE handler
  /\ crashed \/ s # r
  /\ handler'[s] = Resting
  /\ position' = committed + 1
  /\ finished' = committed
  /\ UNCHANGED <<event, copies, committed, notices, dlq, retrying, forgotten>>

-----------------------------------------------------------------------------
(* dlq.routes: the admin's page.                                            *)

\* findById and producer.send: the event is published once more.
RetryEvent(i) ==
  /\ i \in 1..Len(dlq) \ retrying /\ dlq[i] # "deleted"
  /\ copies < MaxCopies
  /\ copies' = copies + 1
  /\ retrying' = retrying \cup {i}
  /\ UNCHANGED <<event, position, finished, committed, owner, handler, notices, dlq,
                 forgotten, noticeFaults>>

\* event.save(), which changes nothing when the row was deleted meanwhile, or
\* when it fails: the admin sees the row as it was and may retry it again.
SaveRetried(i) ==
  /\ i \in retrying
  /\ retrying' = retrying \ {i}
  /\ \/ /\ dlq' = IF dlq[i] = "deleted" THEN dlq ELSE [dlq EXCEPT ![i] = "RETRYING"]
        /\ UNCHANGED noticeFaults
     \/ NoticeFault /\ UNCHANGED dlq
  /\ UNCHANGED <<event, copies, position, finished, committed, owner, handler, notices, forgotten>>

\* Dismissing a row that shows as pending gives the event up, unless its retry
\* is on the way.
DismissEvent(i) ==
  /\ i \in 1..Len(dlq) /\ dlq[i] # "deleted"
  /\ dlq' = [dlq EXCEPT ![i] = "deleted"]
  /\ forgotten' = (forgotten \/ (dlq[i] = "PENDING" /\ i \notin retrying))
  /\ UNCHANGED <<event, copies, position, finished, committed, owner, handler, notices, retrying, noticeFaults>>

-----------------------------------------------------------------------------
NoticesNext ==
  \/ \E r \in NoticeReplicas :
       \/ Receive(r) \/ SendNotification(r) \/ Park(r) \/ Finish(r)
       \/ \E s \in NoticeReplicas, crashed \in BOOLEAN : Rebalance(r, s, crashed)
  \/ CommitOffsets
  \/ \E i \in 1..Len(dlq) : RetryEvent(i) \/ SaveRetried(i) \/ DismissEvent(i)

-----------------------------------------------------------------------------
\* Once an event is dealt with, whoever it concerns has a notice of it: of an
\* event about an order the party that did not cause it, and both of what an
\* admin did.  Until then a copy of it is still to be read or in a handler, or
\* parked where an admin sees it as pending: through crashes, failed writes and
\* retries that fail again, an event is forgotten only by the three ways
\* `forgotten` records.
OtherSide ==
  IF event \in OrderEvents /\ event.by # "system" THEN {"buyer", "seller"} \ {event.by} ELSE {}

NobodyIsForgotten ==
  \/ forgotten \/ position <= copies
  \/ (\E r \in NoticeReplicas : handler[r] # Resting)
  \/ (\E i \in 1..Len(dlq) : dlq[i] = "PENDING")
  \/ \A p \in Range(Tells(event)) \cup OtherSide : notices[p] > 0
=============================================================================
