------------------------------- MODULE Karma -------------------------------
(***************************************************************************)
(* Karma points of user-service: the consumer group                        *)
(* user-service-karma-group applies credits (rewards and penalties) that   *)
(* order-service and lost-found-service ask for, while HTTP requests of    *)
(* users and admins load and save the same Supabase rows.                  *)
(*                                                                         *)
(* A credit is one adjustment: a user, an amount and the (source,          *)
(* relatedId) under which karma_histories remembers it.  A message carries *)
(* one credit, or two that are applied concurrently (order.completed: the  *)
(* seller's and the buyer's).  It is handled again when its offset was not *)
(* committed, which kafkajs does from time to time only, or when the order *)
(* was confirmed twice: both events have the order's id as their key and   *)
(* so one partition, which one process consumes, message by message.       *)
(*                                                                         *)
(* applyKarmaAdjustment is four awaits: look for the history row, load the *)
(* user, save the whole user row, insert the history row.  The publish of  *)
(* karma.updated after them has no reader that writes a row.               *)
(*                                                                         *)
(* Of a user row only what these writers change is kept: login, profile    *)
(* and verification handlers save the values they loaded ("otherSave").    *)
(*                                                                         *)
(* Two resolutions of one dispute, by requests that both loaded it open,   *)
(* ask for the same credit in two messages that have no key: they go to    *)
(* any partition, and two processes may apply them at once.                *)
(*                                                                         *)
(* Faults, at most MaxFaults of them: a call that throws, a process that   *)
(* dies, a handler that outlasts its session, so that its message goes to  *)
(* another process too.                                                    *)
(***************************************************************************)
EXTENDS Integers, FiniteSets

CONSTANTS Users,
          Credits, userOf, amountOf,         \* credit -> user, points
          Messages, creditsOf,               \* message -> credits
          Replicas,         \* user-service processes
          HttpWorkers,      \* requests in progress at a time
          Requests,         \* <<operation, user>>: requests that are made
          AdminAmounts,     \* points admins add
          AdminPermissions, \* permission lists admins send
          MinKarma, MaxKarma, \* bounds: admins stay between
          MaxFaults,        \* bound: faults in a behaviour
          Idle

\* KARMA_PERMISSION_RULES: the karma each permission takes.
minKarma == [CAN_POST |-> 0, CAN_CHAT |-> -9, CAN_REPORT |-> -19]

KarmaPermissions == DOMAIN minKarma

\* Those that only admins give ("CAN_BAN" stands for all six).
Permissions == KarmaPermissions \cup {"CAN_BAN"}

DEFAULT_KARMA == 10

RequestOps == {"banUser", "unbanUser", "toggleBanUser", "updateUserPermissions",
               "adjustKarma", "deleteAccount", "otherSave"}

\* Requests that set permissions without regard to karma.
Overrides == {"banUser", "unbanUser", "toggleBanUser", "updateUserPermissions",
              "deleteAccount"}

ASSUME CreditsAssumption ==
  /\ userOf \in [Credits -> Users]
  /\ amountOf \in [Credits -> Int \ {0}]
  /\ creditsOf \in [Messages -> SUBSET Credits]
  /\ Requests \subseteq RequestOps \X Users
  /\ AdminAmounts \subseteq Int
  /\ MinKarma \in Int /\ MaxKarma \in Int /\ MaxFaults \in Nat
  /\ Idle \notin Messages

\* The messages that carry a credit: one, or one per resolution of its dispute.
Carriers(c) == {m \in Messages : c \in creditsOf[m]}

ASSUME CarriersAssumption ==
  /\ \A c \in Credits : IsFiniteSet(Carriers(c))
  /\ IsFiniteSet(Replicas)

VARIABLES rows,      \* users: karma, permissions, active, deleted
          task,      \* requests: the row each will save
          queue,     \* Kafka: messages to be handled
          handling,  \* replica -> the message its consumer is at, or Idle
          job,       \* replica, credit -> where the adjustment is
          history,   \* karma_histories: the credits it has rows of
          applied,    \* history variable: how often a row was saved with a credit
          overridden, \* history variable: users whose permissions an admin set
          faults

vars == <<rows, task, queue, handling, job, history, applied, overridden, faults>>
consumerVars == <<queue, handling, job, history, applied>>

Row == [karma : Int, permissions : SUBSET Permissions,
        isActive : BOOLEAN, isDeleted : BOOLEAN]

Task == [op : RequestOps, user : Users, saved : Row]

\* `saved` is the row to save, Idle before the user is loaded.
Job == [at : {"findHistory", "findUser", "recordHistory"}, saved : {Idle}]
         \cup [at : {"saveUser"}, saved : Row]

ASSUME IdleAssumption == Idle \notin Job

TypeOK ==
  /\ rows \in [Users -> Row]
  /\ task \in [HttpWorkers -> Task \cup {Idle}]
  /\ queue \in SUBSET Messages
  /\ handling \in [Replicas -> Messages \cup {Idle}]
  /\ job \in [Replicas -> [Credits -> Job \cup {Idle}]]
  /\ history \in SUBSET Credits
  /\ applied \in [Credits -> Nat]
  /\ overridden \in SUBSET Users
  /\ faults \in Nat

NoJobs == [c \in Credits |-> Idle]

Init ==
  /\ rows = [u \in Users |-> [karma |-> DEFAULT_KARMA, permissions |-> KarmaPermissions,
                              isActive |-> TRUE, isDeleted |-> FALSE]]
  /\ task = [w \in HttpWorkers |-> Idle]
  /\ queue = Messages
  /\ handling = [r \in Replicas |-> Idle]
  /\ job = [r \in Replicas |-> NoJobs]
  /\ history = {}
  /\ applied = [c \in Credits |-> 0]
  /\ overridden = {}
  /\ faults = 0

Fault == faults < MaxFaults /\ faults' = faults + 1

-----------------------------------------------------------------------------
(* Rows handlers save.                                                      *)

Earned(karma) == {p \in KarmaPermissions : karma >= minKarma[p]}

Adjusted_PointsOnly(d, amount) == [d EXCEPT !.karma = @ + amount]

\* syncPermissionsWithKarma gives and takes the three permissions of the rules.
Adjusted(d, amount) ==
  [d EXCEPT !.karma = @ + amount,
            !.permissions = (@ \ KarmaPermissions) \cup Earned(d.karma + amount)]

Ban(d)   == [d EXCEPT !.isActive = FALSE, !.permissions = {}]
Unban(d) == [d EXCEPT !.isActive = TRUE, !.permissions = KarmaPermissions]

UpdatePermissions(d) ==
  {[d EXCEPT !.permissions = S] : S \in {T \in AdminPermissions \ {{}} : T \subseteq Permissions}}

DeleteAccount(d) ==
  IF d.isDeleted THEN {}
  ELSE {[d EXCEPT !.isDeleted = TRUE, !.isActive = FALSE, !.permissions = {}]}

AdjustKarma(d) ==
  {Adjusted(d, n) : n \in {k \in AdminAmounts \ {0} : d.karma + k \in MinKarma..MaxKarma}}

\* The rows a request may save after it loaded d.
Saves(op, d) ==
  CASE op = "banUser"               -> {Ban(d)}
    [] op = "unbanUser"             -> {Unban(d)}
    [] op = "toggleBanUser"         -> {IF d.isActive THEN Ban(d) ELSE Unban(d)}
    [] op = "updateUserPermissions" -> UpdatePermissions(d)
    [] op = "deleteAccount"         -> DeleteAccount(d)
    [] op = "adjustKarma"           -> AdjustKarma(d)
    [] OTHER                        -> {d}

-----------------------------------------------------------------------------
(* HTTP requests: load, then save the whole row.                            *)

LoadRequest(w, op, u) ==
  /\ task[w] = Idle
  /\ \E d \in Saves(op, rows[u]) :
       task' = [task EXCEPT ![w] = [op |-> op, user |-> u, saved |-> d]]
  /\ UNCHANGED <<rows, overridden, faults, consumerVars>>

SaveRequest(w) ==
  LET t == task[w]
  IN  /\ t # Idle
      /\ rows' = [rows EXCEPT ![t.user] = t.saved]
      /\ overridden' = IF t.op \in Overrides THEN overridden \cup {t.user} ELSE overridden
      /\ task' = [task EXCEPT ![w] = Idle]
      /\ UNCHANGED <<faults, consumerVars>>

-----------------------------------------------------------------------------
(* The consumer.                                                            *)

\* eachMessage: a process takes one message at a time.  Bound: not one that
\* it left an adjustment of under way when another threw.
Deliver(r, m) ==
  /\ handling[r] = Idle
  /\ m \in queue
  /\ \A c \in creditsOf[m] : job[r][c] = Idle
  /\ queue' = queue \ {m}
  /\ handling' = [handling EXCEPT ![r] = m]
  /\ job' = [job EXCEPT ![r] = [c \in Credits |->
               IF c \in creditsOf[m] THEN [at |-> "findHistory", saved |-> Idle] ELSE @[c]]]
  /\ UNCHANGED <<rows, task, history, applied, overridden, faults>>

At(r, c, at) == job[r][c] # Idle /\ job[r][c].at = at

Move(r, c, j) == job' = [job EXCEPT ![r][c] = j]

\* The handler returns.  Its offset is committed from time to time, so the
\* message may come again.
Ended(r) ==
  /\ queue' \in {queue, queue \cup {handling[r]}}
  /\ handling' = [handling EXCEPT ![r] = Idle]

\* One adjustment that throws ends Promise.all and the handler, which catches
\* the error: the message may come again only as one that succeeded may.  The
\* other adjustment of the message goes on alone.
Abandon(r, c) ==
  IF handling[r] # Idle /\ c \in creditsOf[handling[r]]
    THEN Ended(r)
    ELSE UNCHANGED <<queue, handling>>

FindHistory_Unchecked(r, c) ==
  /\ At(r, c, "findHistory")
  /\ Move(r, c, [at |-> "findUser", saved |-> Idle])
  /\ UNCHANGED <<rows, task, queue, handling, history, applied, overridden, faults>>

FindHistory_RecordsFirst(r, c) ==
  /\ At(r, c, "findHistory")
  /\ Move(r, c, IF c \in history THEN Idle ELSE [at |-> "findUser", saved |-> Idle])
  /\ history' = history \cup {c}
  /\ UNCHANGED <<rows, task, queue, handling, applied, overridden, faults>>

FindHistory_ByRelatedId(r, c) ==
  /\ At(r, c, "findHistory")
  /\ Move(r, c, IF \E m \in Messages : c \in creditsOf[m] /\ creditsOf[m] \cap history # {}
                  THEN Idle
                  ELSE [at |-> "findUser", saved |-> Idle])
  /\ UNCHANGED <<rows, task, queue, handling, history, applied, overridden, faults>>

\* KarmaHistory.findOne: a credit that has its row is skipped.
FindHistory(r, c) ==
  /\ At(r, c, "findHistory")
  /\ Move(r, c, IF c \in history THEN Idle ELSE [at |-> "findUser", saved |-> Idle])
  /\ UNCHANGED <<rows, task, queue, handling, history, applied, overridden, faults>>

FindUser(r, c) ==
  /\ At(r, c, "findUser")
  /\ Move(r, c, [at |-> "saveUser", saved |-> Adjusted(rows[userOf[c]], amountOf[c])])
  /\ UNCHANGED <<rows, task, queue, handling, history, applied, overridden, faults>>

\* user.save(); it may throw though the row was written.
SaveUser(r, c) ==
  /\ At(r, c, "saveUser")
  /\ rows' = [rows EXCEPT ![userOf[c]] = job[r][c].saved]
  /\ applied' = [applied EXCEPT ![c] = @ + 1]
  /\ \/ /\ Move(r, c, [at |-> "recordHistory", saved |-> Idle])
        /\ UNCHANGED <<queue, handling, faults>>
     \/ Fault /\ Move(r, c, Idle) /\ Abandon(r, c)
  /\ UNCHANGED <<task, history, overridden>>

\* KarmaHistory.create, then the publish, either of which may throw after it.
RecordHistory(r, c) ==
  /\ At(r, c, "recordHistory")
  /\ history' = history \cup {c}
  /\ Move(r, c, Idle)
  /\ \/ UNCHANGED <<queue, handling, faults>>
     \/ Fault /\ Abandon(r, c)
  /\ UNCHANGED <<rows, task, applied, overridden>>

\* A call throws and has changed nothing.
Throw(r, c) ==
  /\ job[r][c] # Idle
  /\ Fault
  /\ Move(r, c, Idle)
  /\ Abandon(r, c)
  /\ UNCHANGED <<rows, task, history, applied, overridden>>

Return(r) ==
  /\ handling[r] # Idle
  /\ \A c \in creditsOf[handling[r]] : job[r][c] = Idle
  /\ Ended(r)
  /\ UNCHANGED <<rows, task, job, history, applied, overridden, faults>>

\* The message takes longer than the session: the group gives it to another
\* process, or to this one later, while this handler works on.
Expire(r) ==
  /\ handling[r] # Idle /\ handling[r] \notin queue
  /\ Fault
  /\ queue' = queue \cup {handling[r]}
  /\ UNCHANGED <<rows, task, handling, job, history, applied, overridden>>

Crash(r) ==
  /\ handling[r] # Idle \/ job[r] # NoJobs
  /\ Fault
  /\ queue' = IF handling[r] = Idle THEN queue ELSE queue \cup {handling[r]}
  /\ handling' = [handling EXCEPT ![r] = Idle]
  /\ job' = [job EXCEPT ![r] = NoJobs]
  /\ UNCHANGED <<rows, task, history, applied, overridden>>

-----------------------------------------------------------------------------
Adjust(r, c) ==
  FindHistory(r, c) \/ FindUser(r, c) \/ SaveUser(r, c) \/ RecordHistory(r, c)

Next ==
  \/ \E w \in HttpWorkers : SaveRequest(w) \/ \E q \in Requests : LoadRequest(w, q[1], q[2])
  \/ \E r \in Replicas :
       \/ \E m \in Messages : Deliver(r, m)
       \/ \E c \in Credits : Adjust(r, c) \/ Throw(r, c)
       \/ Return(r) \/ Expire(r) \/ Crash(r)

Spec == Init /\ [][Next]_vars

-----------------------------------------------------------------------------
\* However whole-row saves overtake each other, the three permissions karma
\* decides on are those the stored karma earns, unless an admin (or the
\* deletion of the account) set them once: no save mixes the karma of one
\* handler with the permissions of another.
PermissionsFollowKarma ==
  \A u \in Users \ overridden :
    rows[u].permissions \cap KarmaPermissions = Earned(rows[u].karma)

\* While nothing fails, a credit counts once per message that carries it, however
\* often the message comes, and once per process however many messages there are:
\* a dispute resolved twice costs what the processes were at already.
CountedOncePerMessage ==
  faults = 0 =>
    \A c \in Credits :
      applied[c] <= Cardinality(Carriers(c)) /\ applied[c] <= Cardinality(Replicas)

\* Whatever fails, the history lists no credit that was not saved to the user.
RecordedWasApplied == \A c \in history : applied[c] > 0

\* While nothing fails, no credit gets lost: once its message was taken it is
\* recorded, or an adjustment under way will see to it.
NoCreditIsLost ==
  faults = 0 =>
    \A m \in Messages \ queue, c \in Credits :
      c \in creditsOf[m] \ history => \E r \in Replicas : job[r][c] # Idle
=============================================================================
