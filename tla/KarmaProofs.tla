---------------------------- MODULE KarmaProofs ----------------------------
(* What holds of karma for any users, credits, messages, processes,         *)
(* requests and faults.                                                     *)
EXTENDS Karma, FunctionTheorems, FiniteSetTheorems, TLAPS

\* The permissions of the rules are those the karma of the same row earns.
InStep(d) == d.permissions \cap KarmaPermissions = Earned(d.karma)

\* A row an adjustment will save is in step; so is one a request will save,
\* unless the request sets permissions or the user's were set before.
CopiesInStep ==
  /\ \A r \in Replicas, c \in Credits : At(r, c, "saveUser") => InStep(job[r][c].saved)
  /\ \A w \in HttpWorkers :
       task[w] # Idle /\ task[w].op \notin Overrides /\ task[w].user \notin overridden
         => InStep(task[w].saved)

\* Only what was saved gets to the point where it is recorded.
SavedBeforeRecorded ==
  \A r \in Replicas, c \in Credits : At(r, c, "recordHistory") => applied[c] > 0

IInv == TypeOK /\ PermissionsFollowKarma /\ CopiesInStep
               /\ SavedBeforeRecorded /\ RecordedWasApplied

-----------------------------------------------------------------------------
LEMMA EarnedIsKarmaPermissions == \A k \in Int : Earned(k) \subseteq KarmaPermissions
  BY DEF Earned

LEMMA KarmaPermissionsArePermissions == KarmaPermissions \subseteq Permissions
  BY DEF Permissions

\* Everybody starts with all three permissions, and has earned them.
LEMMA DefaultEarnsAll == Earned(DEFAULT_KARMA) = KarmaPermissions
  BY DEF Earned, DEFAULT_KARMA, KarmaPermissions, minKarma

\* An adjustment leaves a row in step, whatever row it found.
LEMMA AdjustedInStep ==
  ASSUME NEW d \in Row, NEW n \in Int
  PROVE  Adjusted(d, n) \in Row /\ InStep(Adjusted(d, n))
  <1> DEFINE k == d.karma + n
  <1>1. d.karma \in Int /\ k \in Int
    BY DEF Row
  <1>2. Adjusted(d, n) =
          [d EXCEPT !.karma = k, !.permissions = (d.permissions \ KarmaPermissions) \cup Earned(k)]
    BY DEF Adjusted, Row
  <1> HIDE DEF k
  <1>3. /\ Adjusted(d, n).karma = k
        /\ Adjusted(d, n).permissions = (d.permissions \ KarmaPermissions) \cup Earned(k)
    BY <1>2 DEF Row
  <1>4. Adjusted(d, n) \in Row
    BY <1>1, <1>2, EarnedIsKarmaPermissions, KarmaPermissionsArePermissions DEF Row
  <1>5. InStep(Adjusted(d, n))
    BY <1>1, <1>3, EarnedIsKarmaPermissions DEF InStep
  <1> QED
    BY <1>4, <1>5

\* A request saves a row, and one in step if it does not set permissions and
\* loaded one in step.
LEMMA SavesAreRows ==
  ASSUME NEW op \in RequestOps, NEW d \in Row, NEW s \in Saves(op, d)
  PROVE  s \in Row /\ (op \notin Overrides /\ InStep(d) => InStep(s))
  <1>1. CASE op \in {"banUser", "unbanUser", "toggleBanUser"}
    BY <1>1, KarmaPermissionsArePermissions DEF Saves, Ban, Unban, Row, Overrides
  <1>2. CASE op = "updateUserPermissions"
    BY <1>2 DEF Saves, UpdatePermissions, Row, Overrides
  <1>3. CASE op = "deleteAccount"
    BY <1>3 DEF Saves, DeleteAccount, Row, Overrides
  <1>4. CASE op = "adjustKarma"
    <2>1. PICK n \in AdminAmounts \ {0} : s = Adjusted(d, n)
      BY <1>4 DEF Saves, AdjustKarma
    <2> QED
      BY <2>1, CreditsAssumption, AdjustedInStep
  <1>5. CASE op = "otherSave"
    BY <1>5 DEF Saves
  <1> QED
    BY <1>1, <1>2, <1>3, <1>4, <1>5 DEF RequestOps

LEMMA InitIInv == Init => IInv
  <1> SUFFICES ASSUME Init PROVE IInv
    OBVIOUS
  <1>1. TypeOK
    BY CreditsAssumption, KarmaPermissionsArePermissions
       DEF Init, TypeOK, Row, NoJobs, DEFAULT_KARMA
  <1>2. PermissionsFollowKarma
    BY DefaultEarnsAll DEF Init, PermissionsFollowKarma
  <1>3. CopiesInStep /\ SavedBeforeRecorded /\ RecordedWasApplied
    BY DEF Init, CopiesInStep, SavedBeforeRecorded, RecordedWasApplied, At, NoJobs
  <1> QED
    BY <1>1, <1>2, <1>3 DEF IInv

-----------------------------------------------------------------------------
\* Where an adjustment is tells what it carries.
LEMMA SavedIsRow ==
  ASSUME TypeOK, NEW r \in Replicas, NEW c \in Credits, At(r, c, "saveUser")
  PROVE  job[r][c].saved \in Row
  BY DEF TypeOK, Job, At

LEMMA LoadRequestKeeps ==
  ASSUME IInv, NEW w \in HttpWorkers, NEW q \in Requests, LoadRequest(w, q[1], q[2])
  PROVE  IInv'
  <1> DEFINE op == q[1]
             u == q[2]
  <1>1. op \in RequestOps /\ u \in Users
    BY CreditsAssumption
  <1>2. PICK d \in Saves(op, rows[u]) :
          task' = [task EXCEPT ![w] = [op |-> op, user |-> u, saved |-> d]]
    BY DEF LoadRequest
  <1> HIDE DEF op, u
  <1>3. UNCHANGED <<rows, overridden, faults, queue, handling, job, history, applied>>
    BY DEF LoadRequest, consumerVars
  <1>4. rows[u] \in Row
    BY <1>1 DEF IInv, TypeOK
  <1>5. d \in Row /\ (op \notin Overrides /\ InStep(rows[u]) => InStep(d))
    BY <1>1, <1>4, SavesAreRows
  <1>6. TypeOK'
    BY <1>1, <1>2, <1>3, <1>5 DEF IInv, TypeOK, Task
  <1>7. PermissionsFollowKarma' /\ SavedBeforeRecorded' /\ RecordedWasApplied'
    BY <1>3 DEF IInv, PermissionsFollowKarma, SavedBeforeRecorded, RecordedWasApplied, At
  <1>8. u \notin overridden => InStep(rows[u])
    BY <1>1 DEF IInv, PermissionsFollowKarma, InStep
  <1>9. CopiesInStep'
    BY <1>1, <1>2, <1>3, <1>5, <1>8 DEF IInv, TypeOK, CopiesInStep, At, InStep
  <1> QED
    BY <1>6, <1>7, <1>9 DEF IInv

\* A saved row is in step, or its user is one of those an admin changed.
LEMMA SaveRequestKeeps ==
  ASSUME IInv, NEW w \in HttpWorkers, SaveRequest(w)
  PROVE  IInv'
  <1> DEFINE t == task[w]
  <1>1. t \in Task /\ t # Idle
    BY DEF IInv, TypeOK, SaveRequest
  <1>2. /\ rows' = [rows EXCEPT ![t.user] = t.saved]
        /\ overridden' = IF t.op \in Overrides THEN overridden \cup {t.user} ELSE overridden
        /\ task' = [task EXCEPT ![w] = Idle]
        /\ UNCHANGED <<faults, queue, handling, job, history, applied>>
    BY DEF SaveRequest, consumerVars
  <1>3. t.user \notin overridden' => InStep(t.saved)
    BY <1>1, <1>2 DEF IInv, CopiesInStep
  <1> HIDE DEF t
  <1>4. TypeOK'
    BY <1>1, <1>2 DEF IInv, TypeOK, Task
  <1>5. PermissionsFollowKarma'
    BY <1>1, <1>2, <1>3 DEF IInv, TypeOK, PermissionsFollowKarma, InStep, Task
  <1>6. CopiesInStep'
    BY <1>2 DEF IInv, TypeOK, CopiesInStep, At, InStep
  <1>7. SavedBeforeRecorded' /\ RecordedWasApplied'
    BY <1>2 DEF IInv, SavedBeforeRecorded, RecordedWasApplied, At
  <1> QED
    BY <1>4, <1>5, <1>6, <1>7 DEF IInv

LEMMA DeliverKeeps ==
  ASSUME IInv, NEW r \in Replicas, NEW m \in Messages, Deliver(r, m)
  PROVE  IInv'
  <1>1. TypeOK'
    BY DEF IInv, TypeOK, Deliver, Job
  <1>2. PermissionsFollowKarma' /\ RecordedWasApplied'
    BY DEF IInv, PermissionsFollowKarma, RecordedWasApplied, Deliver
  <1>3. \A s \in Replicas, c \in Credits :
          job'[s][c] = job[s][c] \/ job'[s][c] = [at |-> "findHistory", saved |-> Idle]
    BY DEF IInv, TypeOK, Deliver
  <1>4. CopiesInStep' /\ SavedBeforeRecorded'
    BY <1>3 DEF IInv, CopiesInStep, SavedBeforeRecorded, Deliver, At, InStep
  <1> QED
    BY <1>1, <1>2, <1>4 DEF IInv

LEMMA FindHistoryKeeps ==
  ASSUME IInv, NEW r \in Replicas, NEW c \in Credits, FindHistory(r, c)
  PROVE  IInv'
  <1>1. TypeOK'
    BY DEF IInv, TypeOK, FindHistory, Move, Job
  <1>2. PermissionsFollowKarma' /\ RecordedWasApplied'
    BY DEF IInv, PermissionsFollowKarma, RecordedWasApplied, FindHistory
  <1>3. \A s \in Replicas, k \in Credits :
          \/ job'[s][k] = job[s][k]
          \/ job'[s][k] \in {Idle, [at |-> "findUser", saved |-> Idle]}
    BY DEF IInv, TypeOK, FindHistory, Move
  <1>4. CopiesInStep' /\ SavedBeforeRecorded'
    BY <1>3 DEF IInv, CopiesInStep, SavedBeforeRecorded, FindHistory, At, InStep
  <1> QED
    BY <1>1, <1>2, <1>4 DEF IInv

\* What is loaded now is saved in step: both columns come from one row.
LEMMA FindUserKeeps ==
  ASSUME IInv, NEW r \in Replicas, NEW c \in Credits, FindUser(r, c)
  PROVE  IInv'
  <1> DEFINE d == Adjusted(rows[userOf[c]], amountOf[c])
  <1>1. d \in Row /\ InStep(d)
    <2>1. rows[userOf[c]] \in Row /\ amountOf[c] \in Int
      BY CreditsAssumption DEF IInv, TypeOK
    <2> QED
      BY <2>1, AdjustedInStep
  <1>2. /\ job' = [job EXCEPT ![r][c] = [at |-> "saveUser", saved |-> d]]
        /\ UNCHANGED <<rows, task, queue, handling, history, applied, overridden, faults>>
    BY DEF FindUser, Move
  <1> HIDE DEF d
  <1>3. TypeOK'
    BY <1>1, <1>2 DEF IInv, TypeOK, Job
  <1>4. PermissionsFollowKarma' /\ RecordedWasApplied'
    BY <1>2 DEF IInv, PermissionsFollowKarma, RecordedWasApplied
  <1>5. \A s \in Replicas, k \in Credits :
          job'[s][k] = job[s][k] \/ job'[s][k] = [at |-> "saveUser", saved |-> d]
    BY <1>2 DEF IInv, TypeOK
  <1>6. CopiesInStep' /\ SavedBeforeRecorded'
    BY <1>1, <1>2, <1>5 DEF IInv, CopiesInStep, SavedBeforeRecorded, At, InStep
  <1> QED
    BY <1>3, <1>4, <1>6 DEF IInv

\* A handler that ends, or another that goes on, touches no row.
LEMMA AbandonKeepsTypes ==
  ASSUME TypeOK, NEW r \in Replicas, NEW c \in Credits, Abandon(r, c)
  PROVE  queue' \in SUBSET Messages /\ handling' \in [Replicas -> Messages \cup {Idle}]
  BY DEF TypeOK, Abandon, Ended

LEMMA SaveUserKeeps ==
  ASSUME IInv, NEW r \in Replicas, NEW c \in Credits, SaveUser(r, c)
  PROVE  IInv'
  <1> DEFINE d == job[r][c].saved
             next == [at |-> "recordHistory", saved |-> Idle]
  <1>1. d \in Row /\ InStep(d)
    BY SavedIsRow DEF IInv, CopiesInStep, SaveUser
  <1>2. /\ rows' = [rows EXCEPT ![userOf[c]] = d]
        /\ applied' = [applied EXCEPT ![c] = @ + 1]
        /\ UNCHANGED <<task, history, overridden>>
    BY DEF SaveUser
  <1>3. job' = [job EXCEPT ![r][c] = next] \/ job' = [job EXCEPT ![r][c] = Idle]
    BY DEF SaveUser, Move
  <1>4. /\ queue' \in SUBSET Messages
        /\ handling' \in [Replicas -> Messages \cup {Idle}]
        /\ faults' \in Nat
    BY AbandonKeepsTypes DEF SaveUser, IInv, TypeOK, Fault
  <1> HIDE DEF d
  <1>5. applied'[c] > 0 /\ \A k \in Credits : applied[k] > 0 => applied'[k] > 0
    BY <1>2 DEF IInv, TypeOK
  <1>6. TypeOK'
    <2>1. rows' \in [Users -> Row]
      BY <1>1, <1>2, CreditsAssumption DEF IInv, TypeOK
    <2>2. applied' \in [Credits -> Nat]
      BY <1>2 DEF IInv, TypeOK
    <2>3. next \in Job
      BY DEF Job
    <2> HIDE DEF next
    <2>4. job' \in [Replicas -> [Credits -> Job \cup {Idle}]]
      <3>1. PICK j \in Job \cup {Idle} : job' = [job EXCEPT ![r][c] = j]
        BY <1>3, <2>3
      <3> QED
        BY <3>1 DEF IInv, TypeOK
    <2> QED
      BY <1>2, <1>4, <2>1, <2>2, <2>4 DEF IInv, TypeOK
  <1>7. PermissionsFollowKarma'
    BY <1>1, <1>2, CreditsAssumption DEF IInv, TypeOK, PermissionsFollowKarma, InStep
  <1>8. \A s \in Replicas, k \in Credits :
          job'[s][k] = job[s][k] \/ job'[s][k] = Idle \/ (k = c /\ job'[s][k] = next)
    BY <1>3 DEF IInv, TypeOK
  <1>9. CopiesInStep' /\ SavedBeforeRecorded'
    BY <1>2, <1>5, <1>8 DEF IInv, CopiesInStep, SavedBeforeRecorded, At, InStep
  <1>10. RecordedWasApplied'
    BY <1>2, <1>5 DEF IInv, TypeOK, RecordedWasApplied
  <1> QED
    BY <1>6, <1>7, <1>9, <1>10 DEF IInv

LEMMA RecordHistoryKeeps ==
  ASSUME IInv, NEW r \in Replicas, NEW c \in Credits, RecordHistory(r, c)
  PROVE  IInv'
  <1>1. /\ history' = history \cup {c}
        /\ job' = [job EXCEPT ![r][c] = Idle]
        /\ UNCHANGED <<rows, task, applied, overridden>>
        /\ applied[c] > 0
    BY DEF RecordHistory, Move, IInv, SavedBeforeRecorded
  <1>2. /\ queue' \in SUBSET Messages
        /\ handling' \in [Replicas -> Messages \cup {Idle}]
        /\ faults' \in Nat
    BY AbandonKeepsTypes DEF RecordHistory, IInv, TypeOK, Fault
  <1>3. TypeOK'
    BY <1>1, <1>2 DEF IInv, TypeOK
  <1>4. PermissionsFollowKarma' /\ RecordedWasApplied'
    BY <1>1 DEF IInv, PermissionsFollowKarma, RecordedWasApplied
  <1>5. \A s \in Replicas, k \in Credits : job'[s][k] = job[s][k] \/ job'[s][k] = Idle
    BY <1>1 DEF IInv, TypeOK
  <1>6. CopiesInStep' /\ SavedBeforeRecorded'
    BY <1>1, <1>5 DEF IInv, CopiesInStep, SavedBeforeRecorded, At, InStep
  <1> QED
    BY <1>3, <1>4, <1>6 DEF IInv

LEMMA ThrowKeeps ==
  ASSUME IInv, NEW r \in Replicas, NEW c \in Credits, Throw(r, c)
  PROVE  IInv'
  <1>1. /\ job' = [job EXCEPT ![r][c] = Idle]
        /\ UNCHANGED <<rows, task, history, applied, overridden>>
    BY DEF Throw, Move
  <1>2. TypeOK'
    BY <1>1, AbandonKeepsTypes DEF IInv, TypeOK, Throw, Fault
  <1>3. \A s \in Replicas, k \in Credits : job'[s][k] = job[s][k] \/ job'[s][k] = Idle
    BY <1>1 DEF IInv, TypeOK
  <1>4. PermissionsFollowKarma' /\ RecordedWasApplied' /\ CopiesInStep' /\ SavedBeforeRecorded'
    BY <1>1, <1>3 DEF IInv, PermissionsFollowKarma, RecordedWasApplied, CopiesInStep,
                      SavedBeforeRecorded, At, InStep
  <1> QED
    BY <1>2, <1>4 DEF IInv

\* A message that is put back, or a process that dies, changes no row.
LEMMA EndsKeep ==
  ASSUME IInv, NEW r \in Replicas, Return(r) \/ Expire(r) \/ Crash(r)
  PROVE  IInv'
  <1>1. UNCHANGED <<rows, task, history, applied, overridden>>
    BY DEF Return, Expire, Crash
  <1>2. \A s \in Replicas, k \in Credits : job'[s][k] = job[s][k] \/ job'[s][k] = Idle
    BY DEF Return, Expire, Crash, NoJobs, IInv, TypeOK
  <1>3. TypeOK'
    <2>1. CASE Return(r)
      BY <2>1 DEF IInv, TypeOK, Return, Ended
    <2>2. CASE Expire(r)
      BY <2>2 DEF IInv, TypeOK, Expire, Fault
    <2>3. CASE Crash(r)
      <3>1. NoJobs \in [Credits -> Job \cup {Idle}]
        BY DEF NoJobs
      <3> QED
        BY <2>3, <3>1 DEF IInv, TypeOK, Crash, Fault
    <2> QED
      BY <2>1, <2>2, <2>3
  <1>4. PermissionsFollowKarma' /\ RecordedWasApplied' /\ CopiesInStep' /\ SavedBeforeRecorded'
    BY <1>1, <1>2 DEF IInv, PermissionsFollowKarma, RecordedWasApplied, CopiesInStep,
                      SavedBeforeRecorded, At, InStep
  <1> QED
    BY <1>3, <1>4 DEF IInv

-----------------------------------------------------------------------------
LEMMA NextKeeps == IInv /\ [Next]_vars => IInv'
  <1> SUFFICES ASSUME IInv, [Next]_vars PROVE IInv'
    OBVIOUS
  <1>1. ASSUME NEW w \in HttpWorkers, SaveRequest(w) PROVE IInv'
    BY <1>1, SaveRequestKeeps
  <1>2. ASSUME NEW w \in HttpWorkers, NEW q \in Requests, LoadRequest(w, q[1], q[2]) PROVE IInv'
    BY <1>2, LoadRequestKeeps
  <1>3. ASSUME NEW r \in Replicas, NEW m \in Messages, Deliver(r, m) PROVE IInv'
    BY <1>3, DeliverKeeps
  <1>4. ASSUME NEW r \in Replicas, NEW c \in Credits, Adjust(r, c) PROVE IInv'
    BY <1>4, FindHistoryKeeps, FindUserKeeps, SaveUserKeeps, RecordHistoryKeeps DEF Adjust
  <1>5. ASSUME NEW r \in Replicas, NEW c \in Credits, Throw(r, c) PROVE IInv'
    BY <1>5, ThrowKeeps
  <1>6. ASSUME NEW r \in Replicas, Return(r) \/ Expire(r) \/ Crash(r) PROVE IInv'
    BY <1>6, EndsKeep
  <1>7. CASE UNCHANGED vars
    BY <1>7 DEF vars, IInv, TypeOK, PermissionsFollowKarma, RecordedWasApplied, CopiesInStep,
                SavedBeforeRecorded, At, InStep
  <1> QED
    BY <1>1, <1>2, <1>3, <1>4, <1>5, <1>6, <1>7 DEF Next

LEMMA AlwaysIInv == Spec => []IInv
  BY InitIInv, NextKeeps, PTL DEF Spec

\* Rows, copies, adjustments and the history keep their types: no permission
\* but the nine the program knows is ever stored.
THEOREM TypesHold == Spec => []TypeOK
  BY AlwaysIInv, PTL DEF IInv

\* For any number of adjustments, requests and processes saving whole rows over
\* each other, whatever fails: permissions that no admin set are those earned.
THEOREM PermissionsAreEarned == Spec => []PermissionsFollowKarma
  BY AlwaysIInv, PTL DEF IInv

\* The history tells of no adjustment that was not saved, whatever fails.
THEOREM HistoryIsTrue == Spec => []RecordedWasApplied
  BY AlwaysIInv, PTL DEF IInv

-----------------------------------------------------------------------------
(* While nothing fails.                                                     *)

\* A step after which nothing has failed yet has no fault in it.
LEMMA NothingFailed == TypeOK /\ faults' = 0 => ~ Fault
  BY DEF TypeOK, Fault

Active(r, c) == job[r][c] # Idle

\* An adjustment belongs to the message its process handles, which nobody else
\* handles and which is not in the queue.
OneHandler ==
  /\ \A r \in Replicas, c \in Credits :
       Active(r, c) => handling[r] # Idle /\ c \in creditsOf[handling[r]]
  /\ \A r \in Replicas :
       handling[r] # Idle =>
         /\ handling[r] \notin queue
         /\ \A s \in Replicas : handling[s] = handling[r] => s = r

\* The processes that found no record of the credit and have not saved it yet, and
\* those that saved it and are to record it.
Counting(c) == {r \in Replicas : At(r, c, "findUser") \/ At(r, c, "saveUser")}
Recording(c) == {r \in Replicas : At(r, c, "recordHistory")}
Adjusting(c) == {r \in Replicas : Active(r, c)}

\* Before a credit is recorded, exactly those that are to record it have counted it;
\* and whoever is yet to count it is one of its messages, and of the processes.
CountedTruly ==
  \A c \in Credits :
    /\ c \notin history => applied[c] = Cardinality(Recording(c))
    /\ applied[c] + Cardinality(Counting(c)) <= Cardinality(Carriers(c))
    /\ applied[c] + Cardinality(Counting(c)) <= Cardinality(Replicas)

CInv == TypeOK /\ NoCreditIsLost /\ (faults = 0 => OneHandler /\ CountedTruly)

\* No message is at two processes, so a credit has an adjustment per message at most.
LEMMA AdjustingIsCarried ==
  ASSUME TypeOK, OneHandler, NEW c \in Credits
  PROVE  /\ IsFiniteSet(Adjusting(c))
         /\ Cardinality(Adjusting(c)) <= Cardinality(Carriers(c))
         /\ Cardinality(Adjusting(c)) <= Cardinality(Replicas)
  <1>1. IsFiniteSet(Carriers(c)) /\ IsFiniteSet(Replicas)
    BY CarriersAssumption
  <1> DEFINE f == [r \in Adjusting(c) |-> handling[r]]
  <1>2. \A r \in Adjusting(c) : r \in Replicas /\ handling[r] # Idle /\ handling[r] \in Carriers(c)
    BY DEF Adjusting, OneHandler, TypeOK, Carriers
  <1>3. f \in [Adjusting(c) -> Carriers(c)]
    BY <1>2
  <1>4. \A r, s \in Adjusting(c) : f[r] = f[s] => r = s
    BY <1>2 DEF OneHandler
  <1>5. f \in Injection(Adjusting(c), Carriers(c))
    BY <1>3, <1>4 DEF Injection, IsInjective
  <1> HIDE DEF f
  <1>6. IsFiniteSet(Adjusting(c)) /\ Cardinality(Adjusting(c)) <= Cardinality(Carriers(c))
    BY <1>1, <1>5, FS_Injection
  <1>7. Cardinality(Adjusting(c)) <= Cardinality(Replicas)
    BY <1>1, FS_Subset DEF Adjusting
  <1> QED
    BY <1>6, <1>7

LEMMA SizesAreNumbers ==
  ASSUME NEW c \in Credits
  PROVE  /\ IsFiniteSet(Counting(c)) /\ IsFiniteSet(Recording(c))
         /\ Cardinality(Counting(c)) \in Nat /\ Cardinality(Recording(c)) \in Nat
         /\ Cardinality(Carriers(c)) \in Nat /\ Cardinality(Replicas) \in Nat
  <1>1. IsFiniteSet(Counting(c)) /\ IsFiniteSet(Recording(c))
    BY CarriersAssumption, FS_Subset DEF Counting, Recording
  <1> QED
    BY <1>1, CarriersAssumption, FS_CardinalityType

\* A process that finds no record is one more than those that count and record.
LEMMA OneMoreFits ==
  ASSUME TypeOK, OneHandler, CountedTruly, NEW c \in Credits, c \notin history,
         NEW r \in Replicas, At(r, c, "findHistory")
  PROVE  /\ applied[c] + Cardinality(Counting(c)) + 1 <= Cardinality(Carriers(c))
         /\ applied[c] + Cardinality(Counting(c)) + 1 <= Cardinality(Replicas)
  <1> DEFINE two == Counting(c) \cup Recording(c)
  <1>1. Counting(c) \cap Recording(c) = {} /\ r \notin two
    BY DEF Counting, Recording, At
  <1>2. IsFiniteSet(two) /\ Cardinality(two) = Cardinality(Counting(c)) + Cardinality(Recording(c))
    <2>1. IsFiniteSet(two) /\ Cardinality(two) = Cardinality(Counting(c)) + Cardinality(Recording(c))
                                                - Cardinality(Counting(c) \cap Recording(c))
      BY SizesAreNumbers, FS_Union
    <2> QED
      BY <1>1, <2>1, SizesAreNumbers, FS_EmptySet
  <1>3. two \cup {r} \subseteq Adjusting(c)
    BY DEF Counting, Recording, Adjusting, At, Active
  <1> HIDE DEF two
  <1>4. Cardinality(two \cup {r}) = Cardinality(two) + 1
    BY <1>1, <1>2, FS_AddElement
  <1>5. Cardinality(two \cup {r}) <= Cardinality(Adjusting(c))
    BY <1>3, AdjustingIsCarried, FS_Subset
  <1>6. Cardinality(Adjusting(c)) \in Nat
    BY AdjustingIsCarried, FS_CardinalityType
  <1> QED
    BY <1>2, <1>4, <1>5, <1>6, AdjustingIsCarried, SizesAreNumbers DEF CountedTruly

\* Steps in which nobody starts or ends to count a credit.
LEMMA CountingStays ==
  ASSUME CountedTruly, UNCHANGED <<history, applied>>,
         \A c \in Credits : Counting(c)' = Counting(c) /\ Recording(c)' = Recording(c)
  PROVE  CountedTruly'
  BY DEF CountedTruly, Carriers

\* What CInv says of the next state when nothing has failed in it.
Good == OneHandler' /\ CountedTruly' /\ NoCreditIsLost'

LEMMA InitCInv == Init => CInv
  <1> SUFFICES ASSUME Init PROVE CInv
    OBVIOUS
  <1>1. TypeOK
    BY InitIInv DEF IInv
  <1>2. NoCreditIsLost /\ OneHandler
    BY DEF Init, NoCreditIsLost, OneHandler, Active, NoJobs
  <1>3. CountedTruly
    <2>1. \A c \in Credits : applied[c] = 0 /\ Counting(c) = {} /\ Recording(c) = {}
      BY DEF Init, Counting, Recording, At, NoJobs
    <2> QED
      BY <2>1, FS_EmptySet, SizesAreNumbers DEF CountedTruly
  <1> QED
    BY <1>1, <1>2, <1>3 DEF CInv

LEMMA DeliverIsGood ==
  ASSUME CInv, faults' = 0, NEW r \in Replicas, NEW m \in Messages, Deliver(r, m)
  PROVE  Good
  <1>1. TypeOK /\ faults = 0 /\ OneHandler /\ CountedTruly /\ NoCreditIsLost
    BY DEF CInv, Deliver
  <1>2. /\ handling[r] = Idle /\ m \in queue /\ m # Idle
        /\ \A c \in creditsOf[m] : job[r][c] = Idle
        /\ queue' = queue \ {m}
        /\ handling' = [handling EXCEPT ![r] = m]
        /\ UNCHANGED <<history, applied, faults>>
    BY CreditsAssumption DEF Deliver
  <1>3. creditsOf[m] \subseteq Credits
    BY CreditsAssumption
  <1>4. /\ \A c \in Credits : c \in creditsOf[m] => job'[r][c] = [at |-> "findHistory", saved |-> Idle]
        /\ \A c \in Credits : c \notin creditsOf[m] => job'[r][c] = job[r][c]
        /\ \A s \in Replicas : s # r => job'[s] = job[s]
    BY <1>1, <1>3 DEF Deliver, TypeOK
  <1>5. \A s \in Replicas, c \in Credits :
          /\ job[s][c] # Idle => job'[s][c] = job[s][c]
          /\ job'[s][c] = job[s][c] \/ job'[s][c] = [at |-> "findHistory", saved |-> Idle]
    BY <1>2, <1>4
  <1>6. OneHandler'
    <2>1. \A c \in Credits : job[r][c] = Idle
      BY <1>1, <1>2 DEF OneHandler, Active
    <2>2. \A s \in Replicas : handling'[s] = IF s = r THEN m ELSE handling[s]
      BY <1>1, <1>2 DEF TypeOK
    <2>3. \A s \in Replicas, c \in Credits :
            Active(s, c)' => handling'[s] # Idle /\ c \in creditsOf[handling'[s]]
      BY <1>1, <1>2, <1>4, <2>1, <2>2 DEF OneHandler, Active
    <2>4. \A s \in Replicas : handling[s] # m
      BY <1>1, <1>2 DEF OneHandler
    <2> QED
      BY <1>1, <1>2, <2>2, <2>3, <2>4 DEF OneHandler
  <1>7. CountedTruly'
    <2>1. \A c \in Credits : Counting(c)' = Counting(c) /\ Recording(c)' = Recording(c)
      BY <1>5 DEF Counting, Recording, At
    <2> QED
      BY <1>1, <1>2, <2>1, CountingStays
  <1>8. NoCreditIsLost'
    <2>1. \A c \in Credits : c \in creditsOf[m] => job'[r][c] # Idle
      BY <1>4, IdleAssumption DEF Job
    <2> QED
      BY <1>1, <1>2, <1>3, <1>5, <2>1 DEF NoCreditIsLost
  <1> QED
    BY <1>6, <1>7, <1>8 DEF Good

LEMMA FindUserComes == LET j == [at |-> "findUser", saved |-> Idle] IN j # Idle /\ j.at = "findUser"
  BY IdleAssumption DEF Job

LEMMA FindHistoryIsGood ==
  ASSUME CInv, faults' = 0, NEW r \in Replicas, NEW c \in Credits, FindHistory(r, c)
  PROVE  Good
  <1>1. TypeOK /\ faults = 0 /\ OneHandler /\ CountedTruly /\ NoCreditIsLost
    BY DEF CInv, FindHistory
  <1>2. /\ At(r, c, "findHistory") /\ Active(r, c)
        /\ UNCHANGED <<queue, handling, history, applied, faults>>
    BY DEF FindHistory, At, Active
  <1>3. job'[r][c] = IF c \in history THEN Idle ELSE [at |-> "findUser", saved |-> Idle]
    BY <1>1 DEF FindHistory, Move, TypeOK
  <1>4. \A s \in Replicas, k \in Credits : s # r \/ k # c => job'[s][k] = job[s][k]
    BY <1>1 DEF FindHistory, Move, TypeOK
  <1>5. OneHandler'
    BY <1>1, <1>2, <1>4 DEF OneHandler, Active
  <1>6. CountedTruly'
    <2>1. \A k \in Credits : Recording(k)' = Recording(k)
      BY <1>2, <1>3, <1>4 DEF Recording, At
    <2>2. \A k \in Credits : k # c \/ c \in history => Counting(k)' = Counting(k)
      BY <1>2, <1>3, <1>4 DEF Counting, At
    <2>3. CASE c \in history
      BY <1>1, <1>2, <2>1, <2>2, <2>3, CountingStays
    <2>4. CASE c \notin history
      <3>1. Counting(c)' = Counting(c) \cup {r} /\ r \notin Counting(c)
        BY <1>2, <1>3, <1>4, <2>4, FindUserComes DEF Counting, At
      <3>2. Cardinality(Counting(c)') = Cardinality(Counting(c)) + 1
        BY <3>1, SizesAreNumbers, FS_AddElement
      <3>3. /\ applied[c] + Cardinality(Counting(c)') <= Cardinality(Carriers(c))
            /\ applied[c] + Cardinality(Counting(c)') <= Cardinality(Replicas)
        <4>1. applied[c] \in Nat
          BY <1>1 DEF TypeOK
        <4> QED
          BY <1>1, <1>2, <2>4, <3>2, <4>1, OneMoreFits, SizesAreNumbers
      <3> QED
        BY <1>1, <1>2, <2>1, <2>2, <2>4, <3>3 DEF CountedTruly, Carriers
    <2> QED
      BY <2>3, <2>4
  <1>7. NoCreditIsLost'
    <2>1. \A s \in Replicas, k \in Credits :
            job[s][k] # Idle => job'[s][k] # Idle \/ k \in history
      BY <1>3, <1>4, IdleAssumption DEF Job
    <2> QED
      BY <1>1, <1>2, <2>1 DEF NoCreditIsLost
  <1> QED
    BY <1>5, <1>6, <1>7 DEF Good

LEMMA FindUserIsGood ==
  ASSUME CInv, faults' = 0, NEW r \in Replicas, NEW c \in Credits, FindUser(r, c)
  PROVE  Good
  <1> DEFINE j == [at |-> "saveUser", saved |-> Adjusted(rows[userOf[c]], amountOf[c])]
  <1>1. TypeOK /\ faults = 0 /\ OneHandler /\ CountedTruly /\ NoCreditIsLost
    BY DEF CInv, FindUser
  <1>2. /\ At(r, c, "findUser") /\ Active(r, c)
        /\ job' = [job EXCEPT ![r][c] = j]
        /\ UNCHANGED <<queue, handling, history, applied, faults>>
    BY DEF FindUser, Move, At, Active
  <1>3. j # Idle
    <2>1. rows[userOf[c]] \in Row /\ amountOf[c] \in Int
      BY <1>1, CreditsAssumption DEF TypeOK
    <2> QED
      BY <2>1, AdjustedInStep, IdleAssumption DEF Job
  <1>4. j.at = "saveUser"
    OBVIOUS
  <1> HIDE DEF j
  <1>5. /\ job'[r][c] = j
        /\ \A s \in Replicas, k \in Credits : s # r \/ k # c => job'[s][k] = job[s][k]
    BY <1>1, <1>2 DEF TypeOK
  <1>6. OneHandler'
    BY <1>1, <1>2, <1>5 DEF OneHandler, Active
  <1>7. CountedTruly'
    <2>1. \A k \in Credits : Counting(k)' = Counting(k) /\ Recording(k)' = Recording(k)
      BY <1>2, <1>3, <1>4, <1>5 DEF Counting, Recording, At
    <2> QED
      BY <1>1, <1>2, <2>1, CountingStays
  <1>8. NoCreditIsLost'
    BY <1>1, <1>2, <1>3, <1>5 DEF NoCreditIsLost
  <1> QED
    BY <1>6, <1>7, <1>8 DEF Good

LEMMA SaveUserIsGood ==
  ASSUME CInv, faults' = 0, NEW r \in Replicas, NEW c \in Credits, SaveUser(r, c)
  PROVE  Good
  <1> DEFINE j == [at |-> "recordHistory", saved |-> Idle]
  <1>1. TypeOK /\ ~ Fault
    BY NothingFailed DEF CInv
  <1>2. /\ At(r, c, "saveUser") /\ Active(r, c)
        /\ job' = [job EXCEPT ![r][c] = j]
        /\ applied' = [applied EXCEPT ![c] = @ + 1]
        /\ UNCHANGED <<queue, handling, history, faults>>
    BY <1>1 DEF SaveUser, Move, At, Active
  <1>3. faults = 0 /\ OneHandler /\ CountedTruly /\ NoCreditIsLost
    BY <1>2 DEF CInv
  <1>4. j # Idle /\ j.at = "recordHistory"
    BY IdleAssumption DEF Job
  <1> HIDE DEF j
  <1>5. /\ job'[r][c] = j
        /\ \A s \in Replicas, k \in Credits : s # r \/ k # c => job'[s][k] = job[s][k]
    BY <1>1, <1>2 DEF TypeOK
  <1>6. /\ applied'[c] = applied[c] + 1
        /\ \A k \in Credits : k # c => applied'[k] = applied[k]
    BY <1>1, <1>2 DEF TypeOK
  <1>7. OneHandler'
    BY <1>2, <1>3, <1>5 DEF OneHandler, Active
  <1>8. CountedTruly'
    <2>1. \A k \in Credits : k # c => Counting(k)' = Counting(k) /\ Recording(k)' = Recording(k)
      BY <1>5 DEF Counting, Recording, At
    <2>2. /\ Counting(c)' = Counting(c) \ {r} /\ r \in Counting(c)
          /\ Recording(c)' = Recording(c) \cup {r} /\ r \notin Recording(c)
      BY <1>2, <1>4, <1>5 DEF Counting, Recording, At
    <2>3. Cardinality(Counting(c)') = Cardinality(Counting(c)) - 1
      <3>1. IsFiniteSet(Counting(c))
        BY SizesAreNumbers
      <3> QED
        BY <2>2, <3>1, FS_RemoveElement
    <2>4. Cardinality(Recording(c)') = Cardinality(Recording(c)) + 1
      <3>1. IsFiniteSet(Recording(c))
        BY SizesAreNumbers
      <3> QED
        BY <2>2, <3>1, FS_AddElement
    <2>5. applied[c] \in Nat
      BY <1>1 DEF TypeOK
    <2>6. /\ c \notin history => applied'[c] = Cardinality(Recording(c)')
          /\ applied'[c] + Cardinality(Counting(c)') = applied[c] + Cardinality(Counting(c))
      BY <1>3, <1>6, <2>3, <2>4, <2>5, SizesAreNumbers DEF CountedTruly
    <2> QED
      BY <1>2, <1>3, <1>6, <2>1, <2>6 DEF CountedTruly, Carriers
  <1>9. NoCreditIsLost'
    BY <1>2, <1>3, <1>4, <1>5 DEF NoCreditIsLost
  <1> QED
    BY <1>7, <1>8, <1>9 DEF Good

LEMMA RecordHistoryIsGood ==
  ASSUME CInv, faults' = 0, NEW r \in Replicas, NEW c \in Credits, RecordHistory(r, c)
  PROVE  Good
  <1>1. TypeOK /\ ~ Fault
    BY NothingFailed DEF CInv
  <1>2. /\ history' = history \cup {c}
        /\ job' = [job EXCEPT ![r][c] = Idle]
        /\ UNCHANGED <<queue, handling, applied, faults>>
    BY <1>1 DEF RecordHistory, Move
  <1>3. faults = 0 /\ OneHandler /\ CountedTruly /\ NoCreditIsLost
    BY <1>2 DEF CInv
  <1>4. /\ job'[r][c] = Idle
        /\ \A s \in Replicas, k \in Credits : s # r \/ k # c => job'[s][k] = job[s][k]
    BY <1>1, <1>2 DEF TypeOK
  <1>5. OneHandler'
    BY <1>2, <1>3, <1>4 DEF OneHandler, Active
  <1>6. At(r, c, "recordHistory")
    BY DEF RecordHistory
  <1>7. CountedTruly'
    <2>1. \A k \in Credits : Counting(k)' = Counting(k)
      BY <1>2, <1>4, <1>6 DEF Counting, At
    <2>2. \A k \in Credits : k # c => Recording(k)' = Recording(k)
      BY <1>4 DEF Recording, At
    <2> QED
      BY <1>2, <1>3, <2>1, <2>2 DEF CountedTruly, Carriers
  <1>8. NoCreditIsLost'
    BY <1>2, <1>3, <1>4 DEF NoCreditIsLost
  <1> QED
    BY <1>5, <1>7, <1>8 DEF Good

LEMMA ReturnIsGood ==
  ASSUME CInv, faults' = 0, NEW r \in Replicas, Return(r)
  PROVE  Good
  <1>1. TypeOK /\ faults = 0 /\ OneHandler /\ CountedTruly /\ NoCreditIsLost
    BY DEF CInv, Return
  <1>2. /\ handling[r] # Idle
        /\ \A c \in creditsOf[handling[r]] : job[r][c] = Idle
        /\ queue' \in {queue, queue \cup {handling[r]}}
        /\ handling' = [handling EXCEPT ![r] = Idle]
        /\ UNCHANGED <<job, history, applied, faults>>
    BY DEF Return, Ended
  <1>3. \A s \in Replicas : handling'[s] = IF s = r THEN Idle ELSE handling[s]
    BY <1>1, <1>2 DEF TypeOK
  <1>4. \A c \in Credits : job[r][c] = Idle
    BY <1>1, <1>2 DEF OneHandler, Active
  <1>5. OneHandler'
    BY <1>1, <1>2, <1>3, <1>4 DEF OneHandler, Active
  <1>6. CountedTruly'
    <2>1. \A c \in Credits : Counting(c)' = Counting(c) /\ Recording(c)' = Recording(c)
      BY <1>2 DEF Counting, Recording, At
    <2> QED
      BY <1>1, <1>2, <2>1, CountingStays
  <1>7. NoCreditIsLost'
    BY <1>1, <1>2 DEF NoCreditIsLost
  <1> QED
    BY <1>5, <1>6, <1>7 DEF Good

\* Steps that are faults, and those that move no adjustment.
LEMMA OthersAreGood ==
  ASSUME CInv, faults' = 0,
         \/ UNCHANGED <<queue, handling, job, history, applied, faults>>
         \/ \E r \in Replicas, c \in Credits : Throw(r, c)
         \/ \E r \in Replicas : Expire(r) \/ Crash(r)
  PROVE  Good
  <1>1. ~ Fault
    BY NothingFailed DEF CInv
  <1>2. UNCHANGED <<queue, handling, job, history, applied, faults>>
    BY <1>1 DEF Throw, Expire, Crash
  <1>3. faults = 0 /\ OneHandler /\ CountedTruly /\ NoCreditIsLost
    BY <1>2 DEF CInv
  <1>4. \A c \in Credits : Counting(c)' = Counting(c) /\ Recording(c)' = Recording(c)
    BY <1>2 DEF Counting, Recording, At
  <1>5. CountedTruly'
    BY <1>2, <1>3, <1>4, CountingStays
  <1> QED
    BY <1>2, <1>3, <1>5 DEF Good, OneHandler, NoCreditIsLost, Active

LEMMA NextKeepsCInv == IInv /\ CInv /\ [Next]_vars => CInv'
  <1> SUFFICES ASSUME IInv, CInv, [Next]_vars PROVE CInv'
    OBVIOUS
  <1>1. TypeOK'
    BY NextKeeps DEF IInv
  <1>2. ASSUME faults' = 0 PROVE Good
    <2>1. ASSUME NEW r \in Replicas, NEW m \in Messages, Deliver(r, m) PROVE Good
      BY <1>2, <2>1, DeliverIsGood
    <2>2. ASSUME NEW r \in Replicas, NEW c \in Credits, Adjust(r, c) PROVE Good
      BY <1>2, <2>2, FindHistoryIsGood, FindUserIsGood, SaveUserIsGood, RecordHistoryIsGood
         DEF Adjust
    <2>3. ASSUME NEW r \in Replicas, Return(r) PROVE Good
      BY <1>2, <2>3, ReturnIsGood
    <2>4. ASSUME NEW w \in HttpWorkers,
                 SaveRequest(w) \/ \E q \in Requests : LoadRequest(w, q[1], q[2])
          PROVE  Good
      BY <1>2, <2>4, OthersAreGood DEF SaveRequest, LoadRequest, consumerVars
    <2>5. CASE \/ \E r \in Replicas, c \in Credits : Throw(r, c)
               \/ \E r \in Replicas : Expire(r) \/ Crash(r)
      BY <1>2, <2>5, OthersAreGood
    <2>6. CASE UNCHANGED vars
      BY <1>2, <2>6, OthersAreGood DEF vars
    <2> QED
      BY <2>1, <2>2, <2>3, <2>4, <2>5, <2>6 DEF Next
  <1>3. NoCreditIsLost'
    BY <1>2 DEF Good, NoCreditIsLost
  <1> QED
    BY <1>1, <1>2, <1>3 DEF CInv, Good

LEMMA CountsOnce == CInv => CountedOncePerMessage
  <1> SUFFICES ASSUME TypeOK, CountedTruly, NEW c \in Credits
               PROVE  applied[c] <= Cardinality(Carriers(c)) /\ applied[c] <= Cardinality(Replicas)
    BY DEF CInv, CountedOncePerMessage
  <1>1. applied[c] \in Nat
    BY DEF TypeOK
  <1> QED
    BY <1>1, SizesAreNumbers DEF CountedTruly

\* While nothing fails, a credit is saved once per message that carries it at most, and
\* once per process: for any number of processes and messages, however often they come
\* (applyKarmaAdjustment, and resolveDispute of order-service).
THEOREM CreditsCountOnce == Spec => []CountedOncePerMessage
  BY AlwaysIInv, InitCInv, NextKeepsCInv, CountsOnce, PTL DEF Spec

\* While nothing fails, a credit whose message was taken gets recorded or is on
\* its way.
THEOREM NoneIsLost == Spec => []NoCreditIsLost
  BY AlwaysIInv, InitCInv, NextKeepsCInv, PTL DEF Spec, CInv
=============================================================================
