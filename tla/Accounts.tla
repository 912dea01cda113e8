------------------------------ MODULE Accounts ------------------------------
(***************************************************************************)
(* One account of user-service: registration code, login with lockout and  *)
(* the second factor of admins, refresh token rotation, password reset,    *)
(* bans and deletion.                                                      *)
(*                                                                         *)
(* Every handler loads the user row, computes (password hashing lies       *)
(* between), and saves the WHOLE row it loaded with its changes; login may *)
(* save twice.  Requests overlap, so a save may undo what another request  *)
(* saved meanwhile (`overtaken` remembers that one could).                 *)
(*                                                                         *)
(* Codes, locks and refresh tokens are numbers in the order they are       *)
(* issued; any of them may run out at any time.  Two refresh tokens signed *)
(* within one second are equal in the code and differ here.  Mails arrive  *)
(* or not: who has a code may enter it, and a wrong one is 0.              *)
(***************************************************************************)
EXTENDS Integers, Sequences, FiniteSets

CONSTANTS Clients,      \* who sends requests
          HttpWorkers,  \* requests in progress at a time
          MAX_ATTEMPTS, \* wrong codes, or passwords, before no more are taken
          MaxIds,       \* bound: codes, locks and refresh tokens issued
          Free          \* a worker without a request

ASSUME AccountsAssumption ==
  /\ MAX_ATTEMPTS \in Nat \ {0}
  /\ MaxIds \in Nat \ {0}

VARIABLES row,        \* the user's row
          request,    \* worker -> the request it handles, or Free
          issued,     \* how many codes, locks and tokens were issued
          expired,    \* those that ran out
          overtaken,  \* history: a save undid another request's
          wrong,      \* history: wrong answers saved to each code
          revokedTo   \* history: ids issued when sessions were last ended

accountVars == <<row, request, issued, expired, overtaken, wrong, revokedTo>>

Ids == 1..MaxIds
NoId == 0
OrNone == Ids \cup {NoId}

Row == [isAdmin : BOOLEAN, isVerified : BOOLEAN, isActive : BOOLEAN, isDeleted : BOOLEAN,
        refreshToken : OrNone,
        otp : OrNone, otpAttemptCount : 0..MAX_ATTEMPTS,
        passwordResetOtp : OrNone, adminLoginOtp : OrNone,
        failedLoginAttempts : 0..MAX_ATTEMPTS - 1, lockUntil : OrNone]

\* A status; the cookie to set, to clear or to keep.
Reply == [status : {200, 400, 401, 403, 500}, cookie : {"set", "clear", "keep"}, token : OrNone]

Operations == {"verifyOtp", "resendOtp", "login", "refreshToken", "logout", "changePassword",
               "forgotPassword", "resetPassword", "updateProfile", "toggleBanUser",
               "deleteAccount", "deleteUserAccount"}

\* Those that end every session.
Revoking == {"logout", "changePassword", "resetPassword", "deleteAccount", "deleteUserAccount"}

\* `stale`: another request saved the row after this one loaded it.
Request == [client : Clients, op : Operations, stale : BOOLEAN, saves : Seq(Row), reply : Reply]

ASSUME FreeAssumption == Free \notin Request

AccountsTypeOK ==
  /\ row \in Row
  /\ request \in [HttpWorkers -> Request \cup {Free}]
  /\ issued \in 0..MaxIds
  /\ expired \in SUBSET Ids
  /\ overtaken \in BOOLEAN
  /\ wrong \in [Ids -> Nat]
  /\ revokedTo \in 0..MaxIds

\* register: a row with a code; or a verified row, of a student or an admin,
\* whose owner has logged in.
NewAccount ==
  [isAdmin |-> FALSE, isVerified |-> FALSE, isActive |-> TRUE, isDeleted |-> FALSE,
   refreshToken |-> NoId, otp |-> 1, otpAttemptCount |-> 0, passwordResetOtp |-> NoId,
   adminLoginOtp |-> NoId, failedLoginAttempts |-> 0, lockUntil |-> NoId]

LoggedIn(admin) ==
  [NewAccount EXCEPT !.isAdmin = admin, !.isVerified = TRUE, !.otp = NoId, !.refreshToken = 1]

AccountsInit ==
  /\ row \in {NewAccount} \cup {LoggedIn(admin) : admin \in BOOLEAN}
  /\ request = [w \in HttpWorkers |-> Free]
  /\ issued = 1
  /\ expired = {}
  /\ overtaken = FALSE
  /\ wrong = [i \in Ids |-> 0]
  /\ revokedTo = 0

-----------------------------------------------------------------------------
(* What a handler does with the row d it loaded: the rows it saves one after *)
(* another and its reply, an id being the next one it may issue.             *)

Says(status) == [status |-> status, cookie |-> "keep", token |-> NoId]
Outcome(saves, reply) == [saves |-> saves, reply |-> reply]
Refused(status) == Outcome(<<>>, Says(status))
Gives(d, id) == Outcome(<<[d EXCEPT !.refreshToken = id]>>,
                        [status |-> 200, cookie |-> "set", token |-> id])

Valid(code, entered) == code # NoId /\ code = entered /\ code \notin expired

\* The code is too old, was tried too often, is wrong, or right.
VerifyOtp_OneMore(d, entered) ==
  IF d.isVerified \/ d.otp = NoId THEN Refused(400)
  ELSE IF d.otp \in expired
    THEN Outcome(<<[d EXCEPT !.otp = NoId, !.otpAttemptCount = 0]>>, Says(400))
  ELSE IF d.otp # entered
    THEN Outcome(<<[d EXCEPT !.otpAttemptCount = IF @ < MAX_ATTEMPTS THEN @ + 1 ELSE @]>>, Says(400))
  ELSE Outcome(<<[d EXCEPT !.isVerified = TRUE, !.otp = NoId, !.otpAttemptCount = 0]>>, Says(200))

VerifyOtp(d, entered) ==
  IF d.isVerified \/ d.otp = NoId THEN Refused(400)
  ELSE IF d.otp \in expired
    THEN Outcome(<<[d EXCEPT !.otp = NoId, !.otpAttemptCount = 0]>>, Says(400))
  ELSE IF d.otpAttemptCount >= MAX_ATTEMPTS THEN Refused(400)
  ELSE IF d.otp # entered
    THEN Outcome(<<[d EXCEPT !.otpAttemptCount = @ + 1]>>, Says(400))
  ELSE Outcome(<<[d EXCEPT !.isVerified = TRUE, !.otp = NoId, !.otpAttemptCount = 0]>>, Says(200))

ResendOtp(d, id) ==
  IF d.isVerified THEN Refused(400)
  ELSE Outcome(<<[d EXCEPT !.otp = id, !.otpAttemptCount = 0]>>, Says(200))

\* A failed login is counted; the last one locks and starts the count again.
FailLogin(d, id) ==
  IF d.failedLoginAttempts + 1 >= MAX_ATTEMPTS
    THEN Outcome(<<[d EXCEPT !.lockUntil = id, !.failedLoginAttempts = 0]>>, Says(400))
    ELSE Outcome(<<[d EXCEPT !.failedLoginAttempts = @ + 1]>>, Says(401))

\* The row is saved once to forget earlier failures and again with the token.
LetIn(d, id) ==
  IF d.failedLoginAttempts > 0 \/ d.lockUntil # NoId
    THEN LET c == [d EXCEPT !.failedLoginAttempts = 0, !.lockUntil = NoId]
         IN  [Gives(c, id) EXCEPT !.saves = <<c>> \o @]
    ELSE Gives(d, id)

\* `right`: the password is; a deleted account has one nobody knows.  An admin
\* has to come through the admin portal; `entered` is the admin's code, NoId for
\* none, the second factor being on, its default.
Login(d, right, portal, entered, id) ==
  IF \/ ~d.isVerified \/ ~d.isActive
     \/ d.lockUntil # NoId /\ d.lockUntil \notin expired
    THEN Refused(400)
  ELSE IF ~right \/ d.isDeleted THEN FailLogin(d, id)
  ELSE IF ~d.isAdmin THEN LetIn(d, id)
  ELSE IF ~portal THEN Refused(403)
  ELSE IF entered = NoId THEN Outcome(<<[d EXCEPT !.adminLoginOtp = id]>>, Says(200))
  ELSE IF Valid(d.adminLoginOtp, entered)
    THEN LetIn([d EXCEPT !.adminLoginOtp = NoId], id)
  ELSE Refused(401)

\* compareToken throws when the row has no token: status 500.
RefreshToken(d, token, id) ==
  IF token = NoId \/ token \in expired THEN Refused(401)
  ELSE IF d.refreshToken = NoId THEN Refused(500)
  ELSE IF token # d.refreshToken THEN Refused(401)
  ELSE Gives(d, id)

Logout(d) ==
  Outcome(<<[d EXCEPT !.refreshToken = NoId]>>,
          [status |-> 200, cookie |-> "clear", token |-> NoId])

ChangePassword_Forgetful(d, right) ==
  IF ~right \/ d.isDeleted THEN Refused(400) ELSE Outcome(<<d>>, Says(200))

ChangePassword(d, right) ==
  IF ~right \/ d.isDeleted THEN Refused(400)
  ELSE Outcome(<<[d EXCEPT !.refreshToken = NoId]>>, Says(200))

ForgotPassword(d, id) ==
  IF ~d.isVerified THEN Refused(400)
  ELSE Outcome(<<[d EXCEPT !.passwordResetOtp = id]>>, Says(200))

ResetPassword(d, entered) ==
  IF d.passwordResetOtp = NoId THEN Refused(400)
  ELSE IF d.passwordResetOtp \in expired
    THEN Outcome(<<[d EXCEPT !.passwordResetOtp = NoId]>>, Says(400))
  ELSE IF d.passwordResetOtp # entered THEN Refused(400)
  ELSE Outcome(<<[d EXCEPT !.passwordResetOtp = NoId, !.refreshToken = NoId]>>, Says(200))

ToggleBanUser(d) == Outcome(<<[d EXCEPT !.isActive = ~@]>>, Says(200))

\* The owner's deletion; an admin's forgets codes and locks too.
DeleteAccount(d) ==
  IF d.isDeleted THEN Refused(400)
  ELSE Outcome(<<[d EXCEPT !.isDeleted = TRUE, !.isActive = FALSE, !.refreshToken = NoId]>>,
               Says(200))

DeleteUserAccount(d) ==
  IF d.isDeleted THEN Refused(400)
  ELSE Outcome(<<[d EXCEPT !.isDeleted = TRUE, !.isActive = FALSE, !.refreshToken = NoId,
                           !.otp = NoId, !.otpAttemptCount = 0, !.passwordResetOtp = NoId,
                           !.failedLoginAttempts = 0, !.lockUntil = NoId]>>, Says(200))

\* The outcomes of an operation, `entered` being the code or token it brings.
\* "updateProfile" stands for every handler that saves other columns of the row.
Outcomes(op, d, entered, id) ==
  CASE op = "verifyOtp"         -> {VerifyOtp(d, entered)}
    [] op = "resendOtp"         -> {ResendOtp(d, id)}
    [] op = "login"             -> {Login(d, right, portal, entered, id) : right, portal \in BOOLEAN}
    [] op = "refreshToken"      -> {RefreshToken(d, entered, id)}
    [] op = "logout"            -> {Logout(d)}
    [] op = "changePassword"    -> {ChangePassword(d, right) : right \in BOOLEAN}
    [] op = "forgotPassword"    -> {ForgotPassword(d, id)}
    [] op = "resetPassword"     -> {ResetPassword(d, entered)}
    [] op = "updateProfile"     -> {Outcome(<<d>>, Says(200))}
    [] op = "toggleBanUser"     -> {ToggleBanUser(d)}
    [] op = "deleteAccount"     -> {DeleteAccount(d)}
    [] op = "deleteUserAccount" -> {DeleteUserAccount(d)}

\* The ids a row mentions.
Mentions(d) ==
  {d.refreshToken, d.otp, d.passwordResetOtp, d.adminLoginOtp, d.lockUntil}

-----------------------------------------------------------------------------
\* findOne / findById, and what the handler makes of the row.
Load(w, client, op, entered) ==
  /\ request[w] = Free
  /\ issued < MaxIds
  /\ \E o \in Outcomes(op, row, entered, issued + 1) :
       /\ request' = [request EXCEPT ![w] = [client |-> client, op |-> op, stale |-> FALSE,
                                             saves |-> o.saves, reply |-> o.reply]]
       /\ issued' = IF \E i \in 1..Len(o.saves) : issued + 1 \in Mentions(o.saves[i])
                      THEN issued + 1 ELSE issued
  /\ UNCHANGED <<row, expired, overtaken, wrong, revokedTo>>

\* user.save(): the whole row.
Save(w) ==
  LET r == request[w]
  IN  /\ r # Free /\ r.saves # <<>>
      /\ row' = Head(r.saves)
      /\ request' = [v \in HttpWorkers |->
                       IF v = w THEN [r EXCEPT !.saves = Tail(@)]
                       ELSE IF request[v] = Free THEN Free
                       ELSE [request[v] EXCEPT !.stale = TRUE]]
      /\ overtaken' = (overtaken \/ r.stale)
      /\ wrong' = IF r.op = "verifyOtp" /\ row'.otp # NoId
                    THEN [wrong EXCEPT ![row'.otp] = @ + 1] ELSE wrong
      /\ revokedTo' = IF r.op \in Revoking /\ r.reply.status = 200 THEN issued ELSE revokedTo
      /\ UNCHANGED <<issued, expired>>

\* The reply leaves.
Reply_(w) ==
  /\ request[w] # Free /\ request[w].saves = <<>>
  /\ request' = [request EXCEPT ![w] = Free]
  /\ UNCHANGED <<row, issued, expired, overtaken, wrong, revokedTo>>

\* Ten minutes, fifteen minutes or seven days have passed; no request takes as
\* long as that.
Expire(id) ==
  /\ id \in (1..issued) \ expired
  /\ \A w \in HttpWorkers : request[w] = Free
  /\ expired' = expired \cup {id}
  /\ UNCHANGED <<row, request, issued, overtaken, wrong, revokedTo>>

-----------------------------------------------------------------------------
\* While no save undoes another, a registration code is dead after MAX_ATTEMPTS
\* wrong answers, however resends, expiries and other requests come between.
GuessesAreBounded ==
  ~overtaken => \A id \in Ids : wrong[id] <= MAX_ATTEMPTS

\* While no save undoes another, a refresh token issued before the password was
\* changed or reset, or before a logout or a deletion, is never the stored one.
RevokedStaysRevoked ==
  ~overtaken => row.refreshToken = NoId \/ row.refreshToken > revokedTo
=============================================================================
