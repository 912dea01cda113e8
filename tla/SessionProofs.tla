---------------------------- MODULE SessionProofs -----------------------------
(* What the handlers of Accounts and the interceptor of Session keep, for any*)
(* tabs, clients, requests and server processes.                         *)
EXTENDS Session, SequenceTheorems, TLAPS

-----------------------------------------------------------------------------
(* What a handler makes of the row it loaded.                              *)

\* A row that the operation op saves, made of d with the id it may issue.
Edited(op, d, id, s) ==
  /\ s \in Row
  /\ \/ s.otp = NoId
     \/ s.otp = d.otp /\ s.otpAttemptCount = d.otpAttemptCount + (IF op = "verifyOtp" THEN 1 ELSE 0)
     \/ op # "verifyOtp" /\ s.otp = id
  /\ s.refreshToken \in {NoId, d.refreshToken, id}
  /\ Mentions(s) \subseteq Mentions(d) \cup {NoId, id}

Answered(op, d, id, o) ==
  /\ o.saves \in Seq(Row) /\ o.reply \in Reply
  /\ \A k \in DOMAIN o.saves : Edited(op, d, id, o.saves[k])
  /\ op = "verifyOtp" => Len(o.saves) <= 1
  /\ op \in Revoking /\ o.reply.status = 200 =>
       \A k \in DOMAIN o.saves : o.saves[k].refreshToken = NoId

LEMMA RefusedIsHandled ==
  ASSUME NEW op, NEW d, NEW id, NEW status \in {200, 400, 401, 403, 500}
  PROVE  Answered(op, d, id, Refused(status))
  <1>1. Says(status) \in Reply
    BY DEF Says, Reply, OrNone, NoId
  <1>2. <<>> \in Seq(Row) /\ Len(<<>>) = 0 /\ DOMAIN <<>> = {}
    OBVIOUS
  <1> QED
    BY <1>1, <1>2 DEF Answered, Refused, Outcome

LEMMA OneSaveIsHandled ==
  ASSUME NEW op, NEW d, NEW id, NEW s, NEW reply \in Reply, Edited(op, d, id, s),
         op \in Revoking /\ reply.status = 200 => s.refreshToken = NoId
  PROVE  Answered(op, d, id, Outcome(<<s>>, reply))
  <1>1. s \in Row
    BY DEF Edited
  <1>2. <<s>> \in Seq(Row) /\ Len(<<s>>) = 1 /\ DOMAIN <<s>> = {1} /\ <<s>>[1] = s
    BY <1>1
  <1> QED
    BY <1>2 DEF Answered, Outcome

LEMMA TwoSavesAreHandled ==
  ASSUME NEW op \in Operations \ (Revoking \cup {"verifyOtp"}), NEW d, NEW id, NEW c, NEW s,
         NEW reply \in Reply, Edited(op, d, id, c), Edited(op, d, id, s)
  PROVE  Answered(op, d, id, [Outcome(<<s>>, reply) EXCEPT !.saves = <<c>> \o @])
  <1>1. c \in Row /\ s \in Row
    BY DEF Edited
  <1> DEFINE both == <<c>> \o <<s>>
  <1>2. both \in Seq(Row) /\ Len(both) = 2 /\ both[1] = c /\ both[2] = s
    BY <1>1
  <1>3. DOMAIN both = {1, 2}
    BY <1>2
  <1> HIDE DEF both
  <1>4. [Outcome(<<s>>, reply) EXCEPT !.saves = <<c>> \o @] = Outcome(both, reply)
    BY DEF both, Outcome
  <1>5. Answered(op, d, id, Outcome(both, reply))
    BY <1>2, <1>3 DEF Answered, Outcome
  <1> QED
    BY <1>4, <1>5

LEMMA RepliesAreTyped ==
  /\ \A status \in {200, 400, 401, 403, 500} : Says(status) \in Reply /\ Says(status).status = status
  /\ \A id \in Ids : [status |-> 200, cookie |-> "set", token |-> id] \in Reply
  /\ [status |-> 200, cookie |-> "clear", token |-> NoId] \in Reply
  BY DEF Says, Reply, OrNone, NoId

\* The row itself, or with an id issued or forgotten, is an edited one.
LEMMA EditsOf ==
  ASSUME NEW d \in Row, NEW op, NEW id \in Ids
  PROVE  /\ op # "verifyOtp" => Edited(op, d, id, d)
         /\ op # "verifyOtp" => \A i \in {NoId, id} : Edited(op, d, id, [d EXCEPT !.refreshToken = i])
         /\ op # "verifyOtp" => \A i \in {NoId, id} : Edited(op, d, id, [d EXCEPT !.passwordResetOtp = i])
         /\ op # "verifyOtp" => \A i \in {NoId, id} : Edited(op, d, id, [d EXCEPT !.adminLoginOtp = i])
  <1>1. NoId \in OrNone /\ id \in OrNone
    BY DEF OrNone
  <1>2. d.otpAttemptCount + 0 = d.otpAttemptCount
    <2>1. d.otpAttemptCount \in Int
      BY AccountsAssumption DEF Row
    <2> QED
      BY <2>1
  <1>3. ASSUME op # "verifyOtp" PROVE Edited(op, d, id, d)
    BY <1>2, <1>3 DEF Edited, Mentions
  <1>4. ASSUME op # "verifyOtp", NEW i \in {NoId, id} PROVE Edited(op, d, id, [d EXCEPT !.refreshToken = i])
    <2> DEFINE s == [d EXCEPT !.refreshToken = i]
    <2>1. s \in Row /\ s.otp = d.otp /\ s.otpAttemptCount = d.otpAttemptCount /\ s.refreshToken = i
      BY <1>1 DEF Row
    <2>2. Mentions(s) \subseteq Mentions(d) \cup {NoId, id}
      BY DEF Row, Mentions
    <2> HIDE DEF s
    <2>3. Edited(op, d, id, s)
      BY <1>2, <1>4, <2>1, <2>2 DEF Edited
    <2> QED
      BY <2>3 DEF s
  <1>5. ASSUME op # "verifyOtp", NEW i \in {NoId, id} PROVE Edited(op, d, id, [d EXCEPT !.passwordResetOtp = i])
    <2> DEFINE s == [d EXCEPT !.passwordResetOtp = i]
    <2>1. s \in Row /\ s.otp = d.otp /\ s.otpAttemptCount = d.otpAttemptCount /\ s.refreshToken = d.refreshToken
      BY <1>1 DEF Row
    <2>2. Mentions(s) \subseteq Mentions(d) \cup {NoId, id}
      BY DEF Row, Mentions
    <2> HIDE DEF s
    <2>3. Edited(op, d, id, s)
      BY <1>2, <1>5, <2>1, <2>2 DEF Edited
    <2> QED
      BY <2>3 DEF s
  <1>6. ASSUME op # "verifyOtp", NEW i \in {NoId, id} PROVE Edited(op, d, id, [d EXCEPT !.adminLoginOtp = i])
    <2> DEFINE s == [d EXCEPT !.adminLoginOtp = i]
    <2>1. s \in Row /\ s.otp = d.otp /\ s.otpAttemptCount = d.otpAttemptCount /\ s.refreshToken = d.refreshToken
      BY <1>1 DEF Row
    <2>2. Mentions(s) \subseteq Mentions(d) \cup {NoId, id}
      BY DEF Row, Mentions
    <2> HIDE DEF s
    <2>3. Edited(op, d, id, s)
      BY <1>2, <1>6, <2>1, <2>2 DEF Edited
    <2> QED
      BY <2>3 DEF s
  <1> QED
    BY <1>3, <1>4, <1>5, <1>6

LEMMA VerifyOtpIsHandled ==
  ASSUME NEW d \in Row, NEW entered, NEW id \in Ids
  PROVE  Answered("verifyOtp", d, id, VerifyOtp(d, entered))
  <1>1. /\ d.otpAttemptCount \in 0..MAX_ATTEMPTS /\ MAX_ATTEMPTS \in Nat
        /\ "verifyOtp" \notin Revoking /\ NoId \in OrNone
    BY AccountsAssumption DEF Row, Revoking, OrNone
  <1>2. ASSUME NEW s, NEW status \in {200, 400}, Edited("verifyOtp", d, id, s)
        PROVE  Answered("verifyOtp", d, id, Outcome(<<s>>, Says(status)))
    BY <1>1, <1>2, OneSaveIsHandled, RepliesAreTyped
  <1>3. CASE d.isVerified \/ d.otp = NoId
    BY <1>3, RefusedIsHandled DEF VerifyOtp
  <1>4. CASE ~(d.isVerified \/ d.otp = NoId) /\ d.otp \in expired
    <2> DEFINE s == [d EXCEPT !.otp = NoId, !.otpAttemptCount = 0]
    <2>0. 0 \in 0..MAX_ATTEMPTS
      BY <1>1
    <2>1. s \in Row /\ s.otp = NoId /\ s.refreshToken = d.refreshToken
      BY <1>1, <2>0 DEF Row
    <2>2. Mentions(s) \subseteq Mentions(d) \cup {NoId, id}
      BY DEF Row, Mentions
    <2>3. VerifyOtp(d, entered) = Outcome(<<s>>, Says(400))
      BY <1>4 DEF VerifyOtp
    <2> HIDE DEF s
    <2> QED
      BY <1>2, <2>1, <2>2, <2>3 DEF Edited
  <1>5. CASE ~(d.isVerified \/ d.otp = NoId) /\ d.otp \notin expired /\ d.otpAttemptCount >= MAX_ATTEMPTS
    BY <1>5, RefusedIsHandled DEF VerifyOtp
  <1>6. CASE /\ ~(d.isVerified \/ d.otp = NoId) /\ d.otp \notin expired
             /\ ~(d.otpAttemptCount >= MAX_ATTEMPTS) /\ d.otp # entered
    <2> DEFINE s == [d EXCEPT !.otpAttemptCount = @ + 1]
    <2>0. d.otpAttemptCount + 1 \in 0..MAX_ATTEMPTS
      BY <1>1, <1>6
    <2>1. s \in Row /\ s.otp = d.otp /\ s.refreshToken = d.refreshToken
          /\ s.otpAttemptCount = d.otpAttemptCount + 1
      BY <2>0 DEF Row
    <2>2. Mentions(s) \subseteq Mentions(d) \cup {NoId, id}
      BY DEF Row, Mentions
    <2>3. VerifyOtp(d, entered) = Outcome(<<s>>, Says(400))
      BY <1>6 DEF VerifyOtp
    <2> HIDE DEF s
    <2> QED
      BY <1>2, <2>1, <2>2, <2>3 DEF Edited
  <1>7. CASE /\ ~(d.isVerified \/ d.otp = NoId) /\ d.otp \notin expired
             /\ ~(d.otpAttemptCount >= MAX_ATTEMPTS) /\ d.otp = entered
    <2> DEFINE s == [d EXCEPT !.isVerified = TRUE, !.otp = NoId, !.otpAttemptCount = 0]
    <2>0. 0 \in 0..MAX_ATTEMPTS
      BY <1>1
    <2>1. s \in Row /\ s.otp = NoId /\ s.refreshToken = d.refreshToken
      BY <1>1, <2>0 DEF Row
    <2>2. Mentions(s) \subseteq Mentions(d) \cup {NoId, id}
      BY DEF Row, Mentions
    <2>3. VerifyOtp(d, entered) = Outcome(<<s>>, Says(200))
      BY <1>7 DEF VerifyOtp
    <2> HIDE DEF s
    <2> QED
      BY <1>2, <2>1, <2>2, <2>3 DEF Edited
  <1> QED
    BY <1>3, <1>4, <1>5, <1>6, <1>7

LEMMA ResendOtpIsHandled ==
  ASSUME NEW d \in Row, NEW id \in Ids
  PROVE  Answered("resendOtp", d, id, ResendOtp(d, id))
  <1>1. MAX_ATTEMPTS \in Nat /\ "resendOtp" \notin Revoking /\ id \in OrNone
    BY AccountsAssumption DEF Revoking, OrNone
  <1>2. CASE d.isVerified
    BY <1>2, RefusedIsHandled DEF ResendOtp
  <1>3. CASE ~d.isVerified
    <2> DEFINE s == [d EXCEPT !.otp = id, !.otpAttemptCount = 0]
    <2>0. 0 \in 0..MAX_ATTEMPTS
      BY <1>1
    <2>1. s \in Row /\ s.otp = id /\ s.refreshToken = d.refreshToken
      BY <1>1, <2>0 DEF Row
    <2>2. Mentions(s) \subseteq Mentions(d) \cup {NoId, id}
      BY DEF Row, Mentions
    <2>3. ResendOtp(d, id) = Outcome(<<s>>, Says(200))
      BY <1>3 DEF ResendOtp
    <2> HIDE DEF s
    <2> QED
      BY <1>1, <2>1, <2>2, <2>3, OneSaveIsHandled, RepliesAreTyped DEF Edited
  <1> QED
    BY <1>2, <1>3

LEMMA FailLoginIsHandled ==
  ASSUME NEW d \in Row, NEW id \in Ids
  PROVE  Answered("login", d, id, FailLogin(d, id))
  <1>1. /\ MAX_ATTEMPTS \in Nat \ {0} /\ d.failedLoginAttempts \in 0..MAX_ATTEMPTS - 1
        /\ "login" \notin Revoking /\ id \in OrNone
    BY AccountsAssumption DEF Revoking, OrNone, Row
  <1>2. d.otpAttemptCount + 0 = d.otpAttemptCount
    <2>1. d.otpAttemptCount \in Int
      BY AccountsAssumption DEF Row
    <2> QED
      BY <2>1
  <1>3. CASE d.failedLoginAttempts + 1 >= MAX_ATTEMPTS
    <2> DEFINE s == [d EXCEPT !.lockUntil = id, !.failedLoginAttempts = 0]
    <2>1. 0 \in 0..MAX_ATTEMPTS - 1
      BY <1>1
    <2>2. s \in Row /\ s.otp = d.otp /\ s.otpAttemptCount = d.otpAttemptCount /\ s.refreshToken = d.refreshToken
      BY <1>1, <2>1 DEF Row
    <2>3. Mentions(s) \subseteq Mentions(d) \cup {NoId, id}
      BY DEF Row, Mentions
    <2>4. FailLogin(d, id) = Outcome(<<s>>, Says(400))
      BY <1>3 DEF FailLogin
    <2> HIDE DEF s
    <2> QED
      BY <1>1, <1>2, <2>2, <2>3, <2>4, OneSaveIsHandled, RepliesAreTyped DEF Edited
  <1>4. CASE ~(d.failedLoginAttempts + 1 >= MAX_ATTEMPTS)
    <2> DEFINE s == [d EXCEPT !.failedLoginAttempts = @ + 1]
    <2>1. d.failedLoginAttempts + 1 \in 0..MAX_ATTEMPTS - 1
      BY <1>1, <1>4
    <2>2. s \in Row /\ s.otp = d.otp /\ s.otpAttemptCount = d.otpAttemptCount /\ s.refreshToken = d.refreshToken
      BY <1>1, <2>1 DEF Row
    <2>3. Mentions(s) \subseteq Mentions(d) \cup {NoId, id}
      BY DEF Row, Mentions
    <2>4. FailLogin(d, id) = Outcome(<<s>>, Says(401))
      BY <1>4 DEF FailLogin
    <2> HIDE DEF s
    <2> QED
      BY <1>1, <1>2, <2>2, <2>3, <2>4, OneSaveIsHandled, RepliesAreTyped DEF Edited
  <1> QED
    BY <1>3, <1>4

\* What LetIn saves of a row e that is d but for the admin's code.
LEMMA LetInIsHandled ==
  ASSUME NEW d \in Row, NEW id \in Ids, NEW e \in Row,
         e.otp = d.otp, e.otpAttemptCount = d.otpAttemptCount, e.refreshToken = d.refreshToken,
         Mentions(e) \subseteq Mentions(d) \cup {NoId, id}
  PROVE  Answered("login", d, id, LetIn(e, id))
  <1>1. /\ MAX_ATTEMPTS \in Nat \ {0} /\ "login" \in Operations \ (Revoking \cup {"verifyOtp"})
        /\ id \in OrNone /\ NoId \in OrNone
    BY AccountsAssumption DEF Revoking, OrNone, Operations
  <1>2. d.otpAttemptCount + 0 = d.otpAttemptCount /\ 0 \in 0..MAX_ATTEMPTS - 1
    <2>1. d.otpAttemptCount \in Int
      BY AccountsAssumption DEF Row
    <2> QED
      BY <1>1, <2>1
  <1> DEFINE reply == [status |-> 200, cookie |-> "set", token |-> id]
             s == [e EXCEPT !.refreshToken = id]
             c == [e EXCEPT !.failedLoginAttempts = 0, !.lockUntil = NoId]
             t == [c EXCEPT !.refreshToken = id]
  <1>3. reply \in Reply
    BY RepliesAreTyped
  <1>4. Edited("login", d, id, s)
    <2>1. s \in Row /\ s.otp = d.otp /\ s.otpAttemptCount = d.otpAttemptCount /\ s.refreshToken = id
      BY <1>1 DEF Row
    <2>2. Mentions(s) \subseteq Mentions(d) \cup {NoId, id}
      BY DEF Row, Mentions
    <2> HIDE DEF s
    <2> QED
      BY <1>2, <2>1, <2>2 DEF Edited
  <1>5. /\ c \in Row /\ c.otp = d.otp /\ c.otpAttemptCount = d.otpAttemptCount
        /\ c.refreshToken = d.refreshToken /\ Mentions(c) \subseteq Mentions(d) \cup {NoId, id}
    <2>1. c \in Row /\ c.otp = d.otp /\ c.otpAttemptCount = d.otpAttemptCount /\ c.refreshToken = d.refreshToken
      BY <1>1, <1>2 DEF Row
    <2>2. Mentions(c) \subseteq Mentions(d) \cup {NoId, id}
      BY DEF Row, Mentions
    <2> QED
      BY <2>1, <2>2
  <1>6. Gives(e, id) = Outcome(<<s>>, reply) /\ Gives(c, id) = Outcome(<<t>>, reply)
    BY DEF Gives
  <1>7. LetIn(e, id) = Gives(e, id) \/ LetIn(e, id) = [Gives(c, id) EXCEPT !.saves = <<c>> \o @]
    BY DEF LetIn
  <1> HIDE DEF s, c, reply
  <1>8. Edited("login", d, id, c) /\ Edited("login", d, id, t)
    <2>1. Edited("login", d, id, c)
      BY <1>2, <1>5 DEF Edited
    <2>2. t \in Row /\ t.otp = d.otp /\ t.otpAttemptCount = d.otpAttemptCount /\ t.refreshToken = id
      BY <1>1, <1>5 DEF Row
    <2>3. Mentions(t) \subseteq Mentions(d) \cup {NoId, id}
      BY <1>5 DEF Row, Mentions
    <2> HIDE DEF t
    <2> QED
      BY <1>2, <2>1, <2>2, <2>3 DEF Edited
  <1> HIDE DEF t
  <1>9. Answered("login", d, id, Outcome(<<s>>, reply))
    BY <1>1, <1>3, <1>4, OneSaveIsHandled
  <1>10. Answered("login", d, id, [Outcome(<<t>>, reply) EXCEPT !.saves = <<c>> \o @])
    BY <1>1, <1>3, <1>8, TwoSavesAreHandled
  <1> QED
    BY <1>6, <1>7, <1>9, <1>10

LEMMA LoginIsHandled ==
  ASSUME NEW d \in Row, NEW entered, NEW id \in Ids, NEW right \in BOOLEAN, NEW portal \in BOOLEAN
  PROVE  Answered("login", d, id, Login(d, right, portal, entered, id))
  <1>1. \A status \in {200, 400, 401, 403, 500} : Answered("login", d, id, Refused(status))
    BY RefusedIsHandled
  <1>2. Answered("login", d, id, FailLogin(d, id))
    BY FailLoginIsHandled
  <1>3. Answered("login", d, id, LetIn(d, id))
    BY LetInIsHandled
  <1>4. Answered("login", d, id, Outcome(<<[d EXCEPT !.adminLoginOtp = id]>>, Says(200)))
    <2>1. Edited("login", d, id, [d EXCEPT !.adminLoginOtp = id]) /\ "login" \notin Revoking
      BY EditsOf DEF Revoking
    <2> QED
      BY <2>1, OneSaveIsHandled, RepliesAreTyped
  <1>5. Answered("login", d, id, LetIn([d EXCEPT !.adminLoginOtp = NoId], id))
    <2> DEFINE e == [d EXCEPT !.adminLoginOtp = NoId]
    <2>1. e \in Row /\ e.otp = d.otp /\ e.otpAttemptCount = d.otpAttemptCount /\ e.refreshToken = d.refreshToken
      BY DEF Row, OrNone
    <2>2. Mentions(e) \subseteq Mentions(d) \cup {NoId, id}
      BY DEF Row, Mentions
    <2> HIDE DEF e
    <2>3. Answered("login", d, id, LetIn(e, id))
      BY <2>1, <2>2, LetInIsHandled
    <2> QED
      BY <2>3 DEF e
  <1> QED
    BY <1>1, <1>2, <1>3, <1>4, <1>5 DEF Login

LEMMA RefreshTokenIsHandled ==
  ASSUME NEW d \in Row, NEW token, NEW id \in Ids
  PROVE  Answered("refreshToken", d, id, RefreshToken(d, token, id))
  <1>1. \A status \in {200, 400, 401, 403, 500} : Answered("refreshToken", d, id, Refused(status))
    BY RefusedIsHandled
  <1>2. Answered("refreshToken", d, id, Gives(d, id))
    <2>1. Edited("refreshToken", d, id, [d EXCEPT !.refreshToken = id]) /\ "refreshToken" \notin Revoking
      BY EditsOf DEF Revoking
    <2> QED
      BY <2>1, OneSaveIsHandled, RepliesAreTyped DEF Gives
  <1> QED
    BY <1>1, <1>2 DEF RefreshToken

\* Edits of fields that no code or token is kept in change nothing that matters here.
LEMMA EndsSession ==
  ASSUME NEW d \in Row, NEW op \in Revoking, NEW id \in Ids, NEW reply \in Reply,
         NEW s \in Row, s.refreshToken = NoId, s.otp = d.otp \/ s.otp = NoId,
         s.otp = d.otp => s.otpAttemptCount = d.otpAttemptCount,
         Mentions(s) \subseteq Mentions(d) \cup {NoId, id}
  PROVE  Answered(op, d, id, Outcome(<<s>>, reply))
  <1>1. d.otpAttemptCount + 0 = d.otpAttemptCount
    <2>1. d.otpAttemptCount \in Int
      BY AccountsAssumption DEF Row
    <2> QED
      BY <2>1
  <1>2. op # "verifyOtp"
    BY DEF Revoking
  <1>3. Edited(op, d, id, s)
    BY <1>1, <1>2 DEF Edited
  <1> QED
    BY <1>3, OneSaveIsHandled

LEMMA EndsSessionOf ==
  ASSUME NEW d \in Row
  PROVE  LET s == [d EXCEPT !.refreshToken = NoId]
         IN  /\ s \in Row /\ s.refreshToken = NoId /\ s.otp = d.otp
             /\ s.otpAttemptCount = d.otpAttemptCount /\ Mentions(s) \subseteq Mentions(d) \cup {NoId}
  <1> DEFINE s == [d EXCEPT !.refreshToken = NoId]
  <1>1. s \in Row /\ s.refreshToken = NoId /\ s.otp = d.otp /\ s.otpAttemptCount = d.otpAttemptCount
    BY DEF Row, OrNone
  <1>2. Mentions(s) \subseteq Mentions(d) \cup {NoId}
    BY DEF Row, Mentions
  <1> QED
    BY <1>1, <1>2

LEMMA RevokingIsHandled ==
  ASSUME NEW d \in Row, NEW entered, NEW id \in Ids, NEW right \in BOOLEAN
  PROVE  /\ Answered("logout", d, id, Logout(d))
         /\ Answered("changePassword", d, id, ChangePassword(d, right))
         /\ Answered("resetPassword", d, id, ResetPassword(d, entered))
         /\ Answered("deleteAccount", d, id, DeleteAccount(d))
         /\ Answered("deleteUserAccount", d, id, DeleteUserAccount(d))
  <1> USE DEF Revoking
  <1>1. \A op \in Revoking, status \in {200, 400, 401, 403, 500} : Answered(op, d, id, Refused(status))
    BY RefusedIsHandled
  <1>2. Answered("logout", d, id, Logout(d)) /\ Answered("changePassword", d, id, ChangePassword(d, right))
    <2> DEFINE s == [d EXCEPT !.refreshToken = NoId]
    <2>1. /\ s \in Row /\ s.refreshToken = NoId /\ s.otp = d.otp
          /\ s.otpAttemptCount = d.otpAttemptCount /\ Mentions(s) \subseteq Mentions(d) \cup {NoId, id}
      BY EndsSessionOf
    <2>2. /\ Logout(d) = Outcome(<<s>>, [status |-> 200, cookie |-> "clear", token |-> NoId])
          /\ \/ ChangePassword(d, right) = Refused(400)
             \/ ChangePassword(d, right) = Outcome(<<s>>, Says(200))
      BY DEF Logout, ChangePassword
    <2> HIDE DEF s
    <2>3. \A op \in Revoking, reply \in Reply : Answered(op, d, id, Outcome(<<s>>, reply))
      BY <2>1, EndsSession
    <2> QED
      BY <1>1, <2>2, <2>3, RepliesAreTyped
  <1>3. Answered("resetPassword", d, id, ResetPassword(d, entered))
    <2> DEFINE s == [d EXCEPT !.passwordResetOtp = NoId]
               t == [d EXCEPT !.passwordResetOtp = NoId, !.refreshToken = NoId]
    <2>1. /\ t \in Row /\ t.refreshToken = NoId /\ t.otp = d.otp /\ t.otpAttemptCount = d.otpAttemptCount
      BY DEF Row, OrNone
    <2>2. Mentions(t) \subseteq Mentions(d) \cup {NoId, id}
      BY DEF Row, Mentions
    <2>3. Edited("resetPassword", d, id, s)
      BY EditsOf
    <2>4. \/ ResetPassword(d, entered) = Refused(400)
          \/ ResetPassword(d, entered) = Outcome(<<s>>, Says(400))
          \/ ResetPassword(d, entered) = Outcome(<<t>>, Says(200))
      BY DEF ResetPassword
    <2> HIDE DEF s, t
    <2>5. Answered("resetPassword", d, id, Outcome(<<t>>, Says(200)))
      BY <2>1, <2>2, EndsSession, RepliesAreTyped
    <2>6. Answered("resetPassword", d, id, Outcome(<<s>>, Says(400)))
      <3>1. Says(400) \in Reply /\ Says(400).status # 200
        BY RepliesAreTyped
      <3> QED
        BY <2>3, <3>1, OneSaveIsHandled
    <2> QED
      BY <1>1, <2>4, <2>5, <2>6
  <1>4. Answered("deleteAccount", d, id, DeleteAccount(d))
    <2> DEFINE s == [d EXCEPT !.isDeleted = TRUE, !.isActive = FALSE, !.refreshToken = NoId]
    <2>1. s \in Row /\ s.refreshToken = NoId /\ s.otp = d.otp /\ s.otpAttemptCount = d.otpAttemptCount
      BY DEF Row, OrNone
    <2>2. Mentions(s) \subseteq Mentions(d) \cup {NoId, id}
      BY DEF Row, Mentions
    <2>3. DeleteAccount(d) = Refused(400) \/ DeleteAccount(d) = Outcome(<<s>>, Says(200))
      BY DEF DeleteAccount
    <2> HIDE DEF s
    <2> QED
      BY <1>1, <2>1, <2>2, <2>3, EndsSession, RepliesAreTyped
  <1>5. Answered("deleteUserAccount", d, id, DeleteUserAccount(d))
    <2> DEFINE s == [d EXCEPT !.isDeleted = TRUE, !.isActive = FALSE, !.refreshToken = NoId,
                              !.otp = NoId, !.otpAttemptCount = 0, !.passwordResetOtp = NoId,
                              !.failedLoginAttempts = 0, !.lockUntil = NoId]
    <2>0. 0 \in 0..MAX_ATTEMPTS /\ 0 \in 0..MAX_ATTEMPTS - 1
      BY AccountsAssumption
    <2>1. s \in Row /\ s.refreshToken = NoId /\ s.otp = NoId
      BY <2>0 DEF Row, OrNone
    <2>2. Mentions(s) \subseteq Mentions(d) \cup {NoId, id}
      BY DEF Row, Mentions
    <2>3. DeleteUserAccount(d) = Refused(400) \/ DeleteUserAccount(d) = Outcome(<<s>>, Says(200))
      BY DEF DeleteUserAccount
    <2> HIDE DEF s
    <2>4. Edited("deleteUserAccount", d, id, s)
      BY <2>1, <2>2 DEF Edited
    <2> QED
      BY <1>1, <2>1, <2>3, <2>4, OneSaveIsHandled, RepliesAreTyped
  <1> QED
    BY <1>2, <1>3, <1>4, <1>5

LEMMA OutcomesAreHandled ==
  ASSUME NEW d \in Row, NEW op \in Operations, NEW entered, NEW id \in Ids,
         NEW o \in Outcomes(op, d, entered, id)
  PROVE  Answered(op, d, id, o)
  <1>0. TRUE \in BOOLEAN
    OBVIOUS
  <1>1. CASE op = "verifyOtp"
    BY <1>1, VerifyOtpIsHandled DEF Outcomes
  <1>2. CASE op = "resendOtp"
    BY <1>2, ResendOtpIsHandled DEF Outcomes
  <1>3. CASE op = "login"
    BY <1>3, LoginIsHandled DEF Outcomes
  <1>4. CASE op = "refreshToken"
    BY <1>4, RefreshTokenIsHandled DEF Outcomes
  <1>5. CASE op \in Revoking
    <2>1. CASE op = "logout"
      <3>1. o = Logout(d)
        BY <2>1 DEF Outcomes
      <3> QED
        BY <2>1, <3>1, <1>0, RevokingIsHandled
    <2>2. CASE op = "changePassword"
      <3>1. PICK right \in BOOLEAN : o = ChangePassword(d, right)
        BY <2>2 DEF Outcomes
      <3> QED
        BY <2>2, <3>1, RevokingIsHandled
    <2>3. CASE op = "resetPassword"
      <3>1. o = ResetPassword(d, entered)
        BY <2>3 DEF Outcomes
      <3> QED
        BY <2>3, <3>1, <1>0, RevokingIsHandled
    <2>4. CASE op = "deleteAccount"
      <3>1. o = DeleteAccount(d)
        BY <2>4 DEF Outcomes
      <3> QED
        BY <2>4, <3>1, <1>0, RevokingIsHandled
    <2>5. CASE op = "deleteUserAccount"
      <3>1. o = DeleteUserAccount(d)
        BY <2>5 DEF Outcomes
      <3> QED
        BY <2>5, <3>1, <1>0, RevokingIsHandled
    <2> QED
      BY <1>5, <2>1, <2>2, <2>3, <2>4, <2>5 DEF Revoking
  <1>6. CASE op = "forgotPassword"
    <2>1. o = ForgotPassword(d, id) /\ op \notin Revoking /\ op # "verifyOtp"
      BY <1>6 DEF Outcomes, Revoking
    <2>2. Edited(op, d, id, [d EXCEPT !.passwordResetOtp = id])
      BY <2>1, EditsOf
    <2> QED
      BY <2>1, <2>2, RefusedIsHandled, OneSaveIsHandled, RepliesAreTyped DEF ForgotPassword
  <1>7. CASE op = "updateProfile"
    <2>1. o = Outcome(<<d>>, Says(200)) /\ op \notin Revoking /\ op # "verifyOtp"
      BY <1>7 DEF Outcomes, Revoking
    <2>2. Edited(op, d, id, d)
      BY <2>1, EditsOf
    <2> QED
      BY <2>1, <2>2, OneSaveIsHandled, RepliesAreTyped
  <1>8. CASE op = "toggleBanUser"
    <2> DEFINE s == [d EXCEPT !.isActive = ~@]
    <2>1. o = Outcome(<<s>>, Says(200)) /\ op \notin Revoking /\ op # "verifyOtp"
      BY <1>8 DEF Outcomes, Revoking, ToggleBanUser
    <2>2. s \in Row /\ s.otp = d.otp /\ s.otpAttemptCount = d.otpAttemptCount /\ s.refreshToken = d.refreshToken
      BY DEF Row
    <2>3. Mentions(s) \subseteq Mentions(d) \cup {NoId, id}
      BY DEF Row, Mentions
    <2>4. d.otpAttemptCount + 0 = d.otpAttemptCount
      <3>1. d.otpAttemptCount \in Int
        BY AccountsAssumption DEF Row
      <3> QED
        BY <3>1
    <2> HIDE DEF s
    <2>5. Edited(op, d, id, s)
      BY <2>1, <2>2, <2>3, <2>4 DEF Edited
    <2> QED
      BY <2>1, <2>5, OneSaveIsHandled, RepliesAreTyped
  <1> QED
    BY <1>1, <1>2, <1>3, <1>4, <1>5, <1>6, <1>7, <1>8 DEF Operations, Revoking
-----------------------------------------------------------------------------
(* The account.                                                            *)

\* Ids are handed out in order: nothing holds one that was not issued.
Numbered ==
  /\ expired \subseteq 1..issued /\ revokedTo <= issued /\ Mentions(row) \subseteq 0..issued
  /\ \A w \in HttpWorkers : request[w] # Free =>
       \A k \in DOMAIN request[w].saves : Mentions(request[w].saves[k]) \subseteq 0..issued
  /\ \A i \in Ids : i > issued => wrong[i] = 0

\* What a request that nobody overtook will save counts the wrong answers to the code
\* it keeps, the one it is about to record included.
CountsOn(r, s) ==
  s.otp # NoId => wrong[s.otp] + (IF r.op = "verifyOtp" THEN 1 ELSE 0) <= s.otpAttemptCount

LaterThan(s, n) == s.refreshToken = NoId \/ s.refreshToken > n

RowCurrent(r) ==
  /\ \A k \in DOMAIN r.saves : CountsOn(r, r.saves[k]) /\ LaterThan(r.saves[k], revokedTo)
  /\ r.op = "verifyOtp" => Len(r.saves) <= 1
  /\ r.op \in Revoking /\ r.reply.status = 200 =>
       \A k \in DOMAIN r.saves : r.saves[k].refreshToken = NoId

InOrder ==
  /\ \A i \in Ids : wrong[i] <= MAX_ATTEMPTS
  /\ row.otp # NoId => wrong[row.otp] <= row.otpAttemptCount
  /\ LaterThan(row, revokedTo)
  /\ \A w \in HttpWorkers : request[w] # Free /\ ~request[w].stale => RowCurrent(request[w])

AccountsIInv == AccountsTypeOK /\ Numbered /\ (~overtaken => InOrder)

LEMMA AccountsInitIInv == AccountsInit => AccountsIInv
  <1> SUFFICES ASSUME AccountsInit PROVE AccountsIInv
    OBVIOUS
  <1>1. /\ 1 \in Ids /\ 1 \in 0..MaxIds /\ 0 \in 0..MaxIds /\ MAX_ATTEMPTS \in Nat \ {0}
        /\ 0 \in 0..MAX_ATTEMPTS /\ 0 \in 0..MAX_ATTEMPTS - 1 /\ 0 \in Nat
    BY AccountsAssumption DEF Ids
  <1>2. /\ NewAccount \in Row /\ NewAccount.otp = 1 /\ NewAccount.otpAttemptCount = 0
        /\ NewAccount.refreshToken = 0 /\ Mentions(NewAccount) \subseteq {0, 1}
    BY <1>1 DEF NewAccount, Row, OrNone, NoId, Mentions
  <1>3. ASSUME NEW admin \in BOOLEAN
        PROVE  LET d == LoggedIn(admin)
               IN  d \in Row /\ d.otp = 0 /\ d.refreshToken = 1 /\ Mentions(d) \subseteq {0, 1}
    BY <1>1 DEF LoggedIn, NewAccount, Row, OrNone, NoId, Mentions
  <1>4. /\ row \in Row /\ Mentions(row) \subseteq {0, 1} /\ row.refreshToken \in {0, 1}
        /\ row.otp = 1 => row.otpAttemptCount = 0
        /\ row.otp \in {0, 1}
    BY <1>2, <1>3 DEF AccountsInit
  <1>5. /\ request = [w \in HttpWorkers |-> Free] /\ issued = 1 /\ expired = {} /\ overtaken = FALSE
        /\ wrong = [i \in Ids |-> 0] /\ revokedTo = 0
    BY DEF AccountsInit
  <1>6. \A w \in HttpWorkers : request[w] = Free
    BY <1>5
  <1>7. AccountsTypeOK
    BY <1>1, <1>4, <1>5 DEF AccountsTypeOK
  <1>8. Numbered
    BY <1>4, <1>5, <1>6 DEF Numbered
  <1>9. InOrder
    <2>1. \A i \in Ids : wrong[i] <= MAX_ATTEMPTS /\ wrong[i] = 0
      BY <1>1, <1>5
    <2>2. LaterThan(row, revokedTo)
      BY <1>4, <1>5 DEF LaterThan, NoId
    <2>3. row.otp # NoId => wrong[row.otp] <= row.otpAttemptCount
      BY <1>1, <1>4, <2>1 DEF NoId
    <2> QED
      BY <1>6, <2>1, <2>2, <2>3 DEF InOrder
  <1> QED
    BY <1>7, <1>8, <1>9 DEF AccountsIInv

\* What the types say of a request at work.
LEMMA AccountRequestFacts ==
  ASSUME AccountsTypeOK, NEW w \in HttpWorkers, request[w] # Free
  PROVE  /\ request[w] \in Request /\ request[w].client \in Clients /\ request[w].op \in Operations
         /\ request[w].stale \in BOOLEAN /\ request[w].saves \in Seq(Row) /\ request[w].reply \in Reply
         /\ \A k \in DOMAIN request[w].saves : request[w].saves[k] \in Row
  <1>1. request[w] \in Request
    BY DEF AccountsTypeOK
  <1>2. request[w].saves \in Seq(Row)
    BY <1>1 DEF Request
  <1> QED
    BY <1>1, <1>2, ElementOfSeq, LenProperties DEF Request

\* The request that a load leaves with w, for the outcome o.
Loaded(w, client, op, o) ==
  /\ request' \in [HttpWorkers -> Request \cup {Free}]
  /\ request'[w] # Free /\ request'[w].client = client /\ request'[w].op = op
  /\ request'[w].stale = FALSE /\ request'[w].saves = o.saves /\ request'[w].reply = o.reply
  /\ \A v \in HttpWorkers \ {w} : request'[v] = request[v]
  /\ issued' \in {issued, issued + 1}
  /\ issued' = issued => \A k \in DOMAIN o.saves : issued + 1 \notin Mentions(o.saves[k])

LEMMA LoadFacts ==
  ASSUME AccountsTypeOK, NEW w \in HttpWorkers, NEW client \in Clients, NEW op \in Operations,
         NEW entered, Load(w, client, op, entered)
  PROVE  /\ issued + 1 \in Ids /\ issued \in Nat
         /\ \E o \in Outcomes(op, row, entered, issued + 1) :
              Answered(op, row, issued + 1, o) /\ Loaded(w, client, op, o)
  <1>1. PICK o \in Outcomes(op, row, entered, issued + 1) :
          /\ request' = [request EXCEPT ![w] = [client |-> client, op |-> op, stale |-> FALSE,
                                                saves |-> o.saves, reply |-> o.reply]]
          /\ issued' = IF \E i \in 1..Len(o.saves) : issued + 1 \in Mentions(o.saves[i])
                         THEN issued + 1 ELSE issued
    BY DEF Load
  <1>2. issued + 1 \in Ids /\ issued \in Nat /\ row \in Row
    BY AccountsAssumption DEF Load, AccountsTypeOK, Ids
  <1>3. Answered(op, row, issued + 1, o)
    BY <1>2, OutcomesAreHandled
  <1> DEFINE r == [client |-> client, op |-> op, stale |-> FALSE, saves |-> o.saves, reply |-> o.reply]
  <1>4. r \in Request
    BY <1>3 DEF Answered, Request
  <1>5. /\ r.client = client /\ r.op = op /\ r.stale = FALSE /\ r.saves = o.saves /\ r.reply = o.reply
    OBVIOUS
  <1> HIDE DEF r
  <1>6. request' = [request EXCEPT ![w] = r]
    BY <1>1 DEF r
  <1>7. /\ request' \in [HttpWorkers -> Request \cup {Free}] /\ request'[w] = r /\ r # Free
        /\ \A v \in HttpWorkers \ {w} : request'[v] = request[v]
    BY <1>4, <1>6, FreeAssumption DEF AccountsTypeOK
  <1>8. DOMAIN o.saves = 1..Len(o.saves)
    BY <1>3, LenProperties DEF Answered
  <1>9. issued' = issued => \A k \in DOMAIN o.saves : issued + 1 \notin Mentions(o.saves[k])
    BY <1>1, <1>2, <1>8
  <1>10. issued' \in {issued, issued + 1}
    BY <1>1
  <1> QED
    BY <1>2, <1>3, <1>5, <1>7, <1>9, <1>10 DEF Loaded

LEMMA LoadKeepsAccount ==
  ASSUME AccountsIInv, NEW w \in HttpWorkers, NEW client \in Clients, NEW op \in Operations,
         NEW entered, Load(w, client, op, entered)
  PROVE  AccountsIInv'
  <1>1. AccountsTypeOK /\ Numbered /\ (~overtaken => InOrder)
    BY DEF AccountsIInv
  <1>2. UNCHANGED <<row, expired, overtaken, wrong, revokedTo>> /\ issued < MaxIds
    BY DEF Load
  <1>0. PICK o \in Outcomes(op, row, entered, issued + 1) :
          Answered(op, row, issued + 1, o) /\ Loaded(w, client, op, o)
    BY <1>1, LoadFacts
  <1>3. /\ issued + 1 \in Ids /\ issued \in Nat
        /\ Answered(op, row, issued + 1, o)
        /\ request' \in [HttpWorkers -> Request \cup {Free}]
        /\ request'[w] # Free /\ request'[w].client = client /\ request'[w].op = op
        /\ request'[w].stale = FALSE /\ request'[w].saves = o.saves /\ request'[w].reply = o.reply
        /\ \A v \in HttpWorkers \ {w} : request'[v] = request[v]
        /\ issued' \in {issued, issued + 1}
        /\ issued' = issued => \A k \in DOMAIN o.saves : issued + 1 \notin Mentions(o.saves[k])
    BY <1>0, <1>1, LoadFacts DEF Loaded
  <1>4. AccountsTypeOK'
    BY <1>1, <1>2, <1>3 DEF AccountsTypeOK, Ids
  <1>5. ASSUME NEW k \in DOMAIN o.saves
        PROVE  Mentions(o.saves[k]) \subseteq 0..issued'
    <2>1. Mentions(o.saves[k]) \subseteq Mentions(row) \cup {NoId, issued + 1}
      BY <1>3 DEF Answered, Edited
    <2>2. Mentions(row) \subseteq 0..issued
      BY <1>1 DEF Numbered
    <2> QED
      BY <1>3, <2>1, <2>2 DEF NoId
  <1>6. Numbered'
    <2>1. 0..issued \subseteq 0..issued' /\ 1..issued \subseteq 1..issued' /\ revokedTo <= issued'
          /\ (\A i \in Ids : i > issued' => i > issued)
      BY <1>1, <1>3 DEF Numbered, AccountsTypeOK, Ids
    <2>2. \A v \in HttpWorkers : request'[v] # Free =>
            \A k \in DOMAIN request'[v].saves : Mentions(request'[v].saves[k]) \subseteq 0..issued'
      BY <1>1, <1>3, <1>5, <2>1 DEF Numbered
    <2> QED
      BY <1>1, <1>2, <2>1, <2>2 DEF Numbered
  <1>7. ASSUME ~overtaken', InOrder PROVE InOrder'
    <2>0. PICK r : r = request'[w]
      OBVIOUS
    <2>1. ASSUME NEW k \in DOMAIN o.saves
          PROVE  CountsOn(r, o.saves[k])' /\ LaterThan(o.saves[k], revokedTo)
      <3>1. Edited(op, row, issued + 1, o.saves[k])
        BY <1>3 DEF Answered
      <3>2. wrong[issued + 1] = 0 /\ revokedTo < issued + 1
        BY <1>1, <1>3 DEF Numbered, AccountsTypeOK
      <3>3. CountsOn(r, o.saves[k])'
        <4>1. /\ o.saves[k].otpAttemptCount \in Nat /\ row.otpAttemptCount \in Nat
              /\ row.otp # NoId => wrong[row.otp] \in Nat
          BY <1>1, <3>1, AccountsAssumption DEF Edited, Row, OrNone, AccountsTypeOK
        <4>2. row.otp # NoId => wrong[row.otp] <= row.otpAttemptCount
          BY <1>7 DEF InOrder
        <4> HIDE DEF Row
        <4> QED
          BY <1>2, <1>3, <2>0, <3>1, <3>2, <4>1, <4>2 DEF Edited, CountsOn
      <3>4. LaterThan(o.saves[k], revokedTo)
        BY <1>7, <3>1, <3>2 DEF Edited, LaterThan, InOrder
      <3> QED
        BY <3>3, <3>4
    <2>2. RowCurrent(request[w])'
      BY <1>2, <1>3, <2>0, <2>1 DEF RowCurrent, Answered
    <2>3. ASSUME NEW v \in HttpWorkers \ {w}, request'[v] # Free, ~request'[v].stale
          PROVE  RowCurrent(request[v])'
      BY <1>2, <1>3, <1>7, <2>3 DEF InOrder, RowCurrent, CountsOn
    <2> QED
      BY <1>2, <1>7, <2>2, <2>3 DEF InOrder
  <1> QED
    BY <1>1, <1>2, <1>4, <1>6, <1>7 DEF AccountsIInv

\* What the save of the next row by w leaves of the requests.
Saved(w) ==
  /\ row' = request[w].saves[1] /\ row' \in Row /\ 1 \in DOMAIN request[w].saves
  /\ request' \in [HttpWorkers -> Request \cup {Free}]
  /\ request'[w] # Free /\ request'[w].client = request[w].client /\ request'[w].op = request[w].op
  /\ request'[w].stale = request[w].stale /\ request'[w].reply = request[w].reply
  /\ request'[w].saves = Tail(request[w].saves)
  /\ Len(request'[w].saves) = Len(request[w].saves) - 1
  /\ \A k \in DOMAIN request'[w].saves :
       k + 1 \in DOMAIN request[w].saves /\ request'[w].saves[k] = request[w].saves[k + 1]
  /\ \A v \in HttpWorkers \ {w} : request[v] = Free => request'[v] = Free
  /\ \A v \in HttpWorkers \ {w} : request[v] # Free =>
       /\ request'[v] # Free /\ request'[v].client = request[v].client /\ request'[v].op = request[v].op
       /\ request'[v].stale = TRUE /\ request'[v].reply = request[v].reply
       /\ request'[v].saves = request[v].saves

LEMMA SaveFacts ==
  ASSUME AccountsTypeOK, NEW w \in HttpWorkers, Save(w)
  PROVE  request[w] # Free /\ Saved(w)
  <1>1. /\ request[w] # Free /\ request[w].saves # <<>> /\ row' = Head(request[w].saves)
        /\ request' = [v \in HttpWorkers |->
                         IF v = w THEN [request[w] EXCEPT !.saves = Tail(@)]
                         ELSE IF request[v] = Free THEN Free
                         ELSE [request[v] EXCEPT !.stale = TRUE]]
    BY DEF Save
  <1>2. request[w] \in Request /\ request[w].saves \in Seq(Row)
    BY <1>1, AccountRequestFacts
  <1> DEFINE saves == request[w].saves
             r == [request[w] EXCEPT !.saves = Tail(@)]
  <1>3. /\ Head(saves) \in Row /\ Tail(saves) \in Seq(Row) /\ Len(Tail(saves)) = Len(saves) - 1
        /\ Len(saves) \in Nat \ {0} /\ DOMAIN saves = 1..Len(saves) /\ Head(saves) = saves[1]
        /\ DOMAIN Tail(saves) = 1..Len(saves) - 1
        /\ \A k \in 1..Len(saves) - 1 : Tail(saves)[k] = saves[k + 1]
    <2>1. saves \in Seq(Row) /\ saves # <<>>
      BY <1>1, <1>2
    <2> HIDE DEF saves
    <2>2. /\ Head(saves) \in Row /\ Tail(saves) \in Seq(Row) /\ Len(Tail(saves)) = Len(saves) - 1
          /\ \A k \in 1..Len(Tail(saves)) : Tail(saves)[k] = saves[k + 1]
      BY <2>1, HeadTailProperties
    <2>3. Len(saves) \in Nat \ {0} /\ DOMAIN saves = 1..Len(saves) /\ Head(saves) = saves[1]
      BY <2>1, LenProperties
    <2> QED
      BY <2>2, <2>3, LenProperties
  <1>4. /\ r \in Request /\ r.client = request[w].client /\ r.op = request[w].op
        /\ r.stale = request[w].stale /\ r.reply = request[w].reply /\ r.saves = Tail(saves)
    BY <1>2, <1>3 DEF Request
  <1>5. r # Free
    BY <1>4, FreeAssumption
  <1> HIDE DEF r
  <1>6. ASSUME NEW v \in HttpWorkers, request[v] # Free
        PROVE  LET t == [request[v] EXCEPT !.stale = TRUE]
               IN  /\ t \in Request /\ t # Free /\ t.client = request[v].client /\ t.op = request[v].op
                   /\ t.stale = TRUE /\ t.reply = request[v].reply /\ t.saves = request[v].saves
    <2>1. request[v] \in Request
      BY <1>6, AccountRequestFacts
    <2> DEFINE t == [request[v] EXCEPT !.stale = TRUE]
    <2>2. /\ t \in Request /\ t.client = request[v].client /\ t.op = request[v].op
          /\ t.stale = TRUE /\ t.reply = request[v].reply /\ t.saves = request[v].saves
      BY <2>1 DEF Request
    <2> HIDE DEF t
    <2>3. t # Free
      BY <2>2, FreeAssumption
    <2> QED
      BY <2>2, <2>3 DEF t
  <1>7. request'[w] = r
    BY <1>1 DEF r
  <1>8. ASSUME NEW v \in HttpWorkers \ {w}
        PROVE  /\ request[v] = Free => request'[v] = Free
               /\ request[v] # Free => request'[v] = [request[v] EXCEPT !.stale = TRUE]
    BY <1>1
  <1>9. request' \in [HttpWorkers -> Request \cup {Free}]
    <2>1. ASSUME NEW v \in HttpWorkers PROVE request'[v] \in Request \cup {Free}
      BY <1>4, <1>6, <1>7, <1>8
    <2>2. request' = [v \in HttpWorkers |-> request'[v]]
      BY <1>1
    <2> QED
      BY <2>1, <2>2
  <1>10. \A v \in HttpWorkers \ {w} : request[v] # Free =>
       /\ request'[v] # Free /\ request'[v].client = request[v].client /\ request'[v].op = request[v].op
       /\ request'[v].stale = TRUE /\ request'[v].reply = request[v].reply
       /\ request'[v].saves = request[v].saves
    <2> SUFFICES ASSUME NEW v \in HttpWorkers \ {w}, request[v] # Free
                 PROVE  /\ request'[v] # Free /\ request'[v].client = request[v].client
                        /\ request'[v].op = request[v].op /\ request'[v].stale = TRUE
                        /\ request'[v].reply = request[v].reply
                        /\ request'[v].saves = request[v].saves
      OBVIOUS
    <2>1. request'[v] = [request[v] EXCEPT !.stale = TRUE]
      BY <1>8
    <2> DEFINE t == [request[v] EXCEPT !.stale = TRUE]
    <2>2. /\ t # Free /\ t.client = request[v].client /\ t.op = request[v].op
          /\ t.stale = TRUE /\ t.reply = request[v].reply /\ t.saves = request[v].saves
      BY <1>6
    <2>3. request'[v] = t
      BY <2>1
    <2> HIDE DEF t
    <2> QED
      BY <2>2, <2>3
  <1>11. \A k \in DOMAIN r.saves : k + 1 \in DOMAIN saves /\ r.saves[k] = saves[k + 1]
    BY <1>3, <1>4
  <1> QED
    <2>1. row' = request[w].saves[1] /\ row' \in Row /\ 1 \in DOMAIN request[w].saves
      BY <1>1, <1>3
    <2>2. /\ request'[w] # Free /\ request'[w].client = request[w].client /\ request'[w].op = request[w].op
          /\ request'[w].stale = request[w].stale /\ request'[w].reply = request[w].reply
          /\ request'[w].saves = Tail(request[w].saves)
          /\ Len(request'[w].saves) = Len(request[w].saves) - 1
      BY <1>3, <1>4, <1>5, <1>7
    <2>3. \A k \in DOMAIN request'[w].saves :
            k + 1 \in DOMAIN request[w].saves /\ request'[w].saves[k] = request[w].saves[k + 1]
      BY <1>7, <1>11
    <2>4. \A v \in HttpWorkers \ {w} : request[v] = Free => request'[v] = Free
      BY <1>8
    <2> HIDE DEF saves
    <2> QED
      BY <1>1, <1>9, <1>10, <2>1, <2>2, <2>3, <2>4 DEF Saved

LEMMA SaveKeepsAccount ==
  ASSUME AccountsIInv, NEW w \in HttpWorkers, Save(w)
  PROVE  AccountsIInv'
  <1>1. AccountsTypeOK /\ Numbered /\ (~overtaken => InOrder)
    BY DEF AccountsIInv
  <1>2. PICK r : r = request[w]
    OBVIOUS
  <1>3. /\ issued' = issued /\ expired' = expired /\ overtaken' = (overtaken \/ r.stale)
        /\ wrong' = IF r.op = "verifyOtp" /\ row'.otp # NoId
                      THEN [wrong EXCEPT ![row'.otp] = @ + 1] ELSE wrong
        /\ revokedTo' = IF r.op \in Revoking /\ r.reply.status = 200 THEN issued ELSE revokedTo
    BY <1>2 DEF Save
  <1>4. request[w] # Free /\ Saved(w)
    BY <1>1, SaveFacts
  <1>5. /\ r \in Request /\ r.saves \in Seq(Row) /\ row' = r.saves[1] /\ row' \in Row /\ 1 \in DOMAIN r.saves
        /\ r.stale \in BOOLEAN
    BY <1>1, <1>2, <1>4, AccountRequestFacts DEF Saved
  <1>6. row'.otp \in Ids \cup {NoId} /\ row'.otp \in 0..issued /\ issued \in Nat
    BY <1>1, <1>2, <1>4, <1>5 DEF Row, OrNone, Numbered, Mentions, AccountsTypeOK
  <1>7. /\ wrong' \in [Ids -> Nat] /\ \A i \in Ids : i > issued => wrong'[i] = 0
    <2>1. CASE r.op = "verifyOtp" /\ row'.otp # NoId
      <3>1. wrong' = [wrong EXCEPT ![row'.otp] = @ + 1] /\ row'.otp \in Ids /\ wrong \in [Ids -> Nat]
        BY <1>1, <1>3, <1>6, <2>1 DEF AccountsTypeOK
      <3>2. \A i \in Ids : wrong'[i] \in Nat /\ (i # row'.otp => wrong'[i] = wrong[i])
        BY <3>1
      <3>3. wrong' \in [Ids -> Nat]
        BY <3>1
      <3>4. \A i \in Ids : i > issued => i # row'.otp
        BY <1>6 DEF Ids
      <3> QED
        BY <1>1, <3>2, <3>3, <3>4 DEF Numbered
    <2>2. CASE ~(r.op = "verifyOtp" /\ row'.otp # NoId)
      BY <1>1, <1>3, <2>2 DEF AccountsTypeOK, Numbered
    <2> QED
      BY <2>1, <2>2
  <1>8. revokedTo' \in 0..MaxIds /\ revokedTo' <= issued
    BY <1>1, <1>3 DEF AccountsTypeOK, Numbered
  <1>9. AccountsTypeOK'
    <2>1. request' \in [HttpWorkers -> Request \cup {Free}] /\ overtaken' \in BOOLEAN
      BY <1>1, <1>3, <1>4, <1>5 DEF Saved, AccountsTypeOK
    <2> QED
      BY <1>1, <1>3, <1>5, <1>7, <1>8, <2>1 DEF AccountsTypeOK
  <1>10. Numbered'
    <2>1. Mentions(row)' \subseteq 0..issued
      <3>1. Mentions(r.saves[1]) \subseteq 0..issued
        BY <1>1, <1>2, <1>4, <1>5 DEF Numbered
      <3> QED
        BY <1>5, <3>1 DEF Mentions
    <2>2. ASSUME NEW v \in HttpWorkers, request'[v] # Free, NEW k \in DOMAIN request'[v].saves
          PROVE  Mentions(request'[v].saves[k]) \subseteq 0..issued
      <3>1. CASE v = w
        BY <1>1, <1>4, <2>2, <3>1 DEF Numbered, Saved
      <3>2. CASE v # w
        BY <1>1, <1>4, <2>2, <3>2 DEF Numbered, Saved
      <3> QED
        BY <3>1, <3>2
    <2> QED
      BY <1>1, <1>3, <1>7, <1>8, <2>1, <2>2 DEF Numbered
  <1>11. ASSUME ~overtaken' PROVE InOrder'
    <2>1. ~r.stale /\ InOrder /\ RowCurrent(r)
      BY <1>1, <1>2, <1>3, <1>4, <1>5, <1>11 DEF InOrder
    <2>2. CountsOn(r, row') /\ LaterThan(row', revokedTo)
      BY <1>5, <2>1 DEF RowCurrent
    <2>3. LaterThan(row, revokedTo)'
      BY <1>3, <1>5, <2>1, <2>2 DEF RowCurrent, LaterThan
    <2>4. /\ \A i \in Ids : wrong'[i] <= MAX_ATTEMPTS
          /\ row'.otp # NoId => wrong'[row'.otp] <= row'.otpAttemptCount
      <3>1. row'.otpAttemptCount \in 0..MAX_ATTEMPTS /\ row.otpAttemptCount \in 0..MAX_ATTEMPTS /\ MAX_ATTEMPTS \in Nat
        BY <1>1, <1>5, AccountsAssumption DEF Row, AccountsTypeOK
      <3>2. wrong \in [Ids -> Nat] /\ \A i \in Ids : wrong[i] <= MAX_ATTEMPTS
        BY <1>1, <2>1 DEF AccountsTypeOK, InOrder
      <3>3. CASE row'.otp = NoId
        BY <1>3, <2>1, <3>3 DEF InOrder
      <3>4. CASE row'.otp # NoId /\ r.op = "verifyOtp"
        <4>1. wrong[row'.otp] + 1 <= row'.otpAttemptCount /\ row'.otp \in Ids
          BY <1>6, <2>2, <3>4 DEF CountsOn
        <4>2. wrong' = [wrong EXCEPT ![row'.otp] = @ + 1]
          BY <1>3, <3>4
        <4>3. wrong'[row'.otp] = wrong[row'.otp] + 1 /\ \A i \in Ids \ {row'.otp} : wrong'[i] = wrong[i]
          BY <3>2, <4>1, <4>2
        <4>4. wrong'[row'.otp] <= row'.otpAttemptCount /\ wrong'[row'.otp] <= MAX_ATTEMPTS
          BY <3>1, <3>2, <4>1, <4>3
        <4> QED
          BY <3>2, <4>3, <4>4
      <3>5. CASE row'.otp # NoId /\ r.op # "verifyOtp"
        <4>1. wrong' = wrong
          BY <1>3, <3>5
        <4>2. wrong[row'.otp] <= row'.otpAttemptCount
          BY <1>6, <2>2, <3>1, <3>2, <3>5 DEF CountsOn
        <4> QED
          BY <3>2, <4>1, <4>2
      <3> QED
        BY <3>3, <3>4, <3>5
    <2>5. ASSUME NEW v \in HttpWorkers, request'[v] # Free, ~request'[v].stale PROVE RowCurrent(request[v])'
      <3>1. v = w
        BY <1>4, <2>5 DEF Saved
      <3>2. PICK t : t = request'[w]
        OBVIOUS
      <3>3. /\ t.op = r.op /\ t.reply = r.reply /\ Len(t.saves) = Len(r.saves) - 1
            /\ \A k \in DOMAIN t.saves : k + 1 \in DOMAIN r.saves /\ t.saves[k] = r.saves[k + 1]
        BY <1>2, <1>4, <3>2 DEF Saved
      <3>4. r.op = "verifyOtp" => Len(t.saves) <= 1 /\ DOMAIN t.saves = {}
        <4>1. Len(r.saves) \in Nat /\ DOMAIN r.saves = 1..Len(r.saves)
          BY <1>5, LenProperties
        <4> QED
          BY <2>1, <3>3, <4>1 DEF RowCurrent
      <3>5. ASSUME NEW k \in DOMAIN t.saves
            PROVE  CountsOn(t, t.saves[k])' /\ LaterThan(t.saves[k], revokedTo')
        <4>1. k + 1 \in DOMAIN r.saves /\ t.saves[k] = r.saves[k + 1] /\ r.op # "verifyOtp"
          BY <3>3, <3>4
        <4>2. wrong' = wrong
          BY <1>3, <4>1
        <4>3. CountsOn(r, r.saves[k + 1]) /\ LaterThan(r.saves[k + 1], revokedTo)
          BY <2>1, <4>1 DEF RowCurrent
        <4>4. CountsOn(t, t.saves[k])'
          BY <3>3, <4>1, <4>2, <4>3 DEF CountsOn
        <4>5. LaterThan(t.saves[k], revokedTo')
          BY <1>3, <2>1, <4>1, <4>3 DEF RowCurrent, LaterThan
        <4> QED
          BY <4>4, <4>5
      <3>6. r.op \in Revoking /\ r.reply.status = 200 => \A k \in DOMAIN t.saves : t.saves[k].refreshToken = NoId
        BY <2>1, <3>3 DEF RowCurrent
      <3>7. RowCurrent(t)'
        BY <3>3, <3>4, <3>5, <3>6 DEF RowCurrent
      <3> QED
        BY <3>1, <3>2, <3>7
    <2> QED
      BY <2>3, <2>4, <2>5 DEF InOrder
  <1> QED
    BY <1>1, <1>9, <1>10, <1>11 DEF AccountsIInv

LEMMA ReplyKeepsAccount ==
  ASSUME AccountsIInv, NEW w \in HttpWorkers, Reply_(w)
  PROVE  AccountsIInv'
  <1>1. /\ request' = [request EXCEPT ![w] = Free]
        /\ UNCHANGED <<row, issued, expired, overtaken, wrong, revokedTo>>
    BY DEF Reply_
  <1>2. /\ request' \in [HttpWorkers -> Request \cup {Free}] /\ request'[w] = Free
        /\ \A v \in HttpWorkers \ {w} : request'[v] = request[v]
    BY <1>1 DEF AccountsIInv, AccountsTypeOK
  <1>3. AccountsTypeOK'
    BY <1>1, <1>2 DEF AccountsIInv, AccountsTypeOK
  <1>4. Numbered'
    BY <1>1, <1>2 DEF AccountsIInv, Numbered
  <1>5. ASSUME ~overtaken' PROVE InOrder'
    BY <1>1, <1>2, <1>5 DEF AccountsIInv, InOrder, RowCurrent, CountsOn
  <1> QED
    BY <1>3, <1>4, <1>5 DEF AccountsIInv

LEMMA ExpireKeepsAccount ==
  ASSUME AccountsIInv, NEW id \in 1..issued, Expire(id)
  PROVE  AccountsIInv'
  <1>1. /\ expired' = expired \cup {id}
        /\ UNCHANGED <<row, request, issued, overtaken, wrong, revokedTo>>
    BY DEF Expire
  <1>2. id \in Ids
    BY AccountsAssumption DEF AccountsIInv, AccountsTypeOK, Ids
  <1>3. AccountsTypeOK' /\ Numbered'
    BY <1>1, <1>2 DEF AccountsIInv, AccountsTypeOK, Numbered
  <1> QED
    BY <1>1, <1>3 DEF AccountsIInv, InOrder, RowCurrent, CountsOn

LEMMA AccountUnchanged ==
  ASSUME AccountsIInv, UNCHANGED accountVars
  PROVE  AccountsIInv'
  BY DEF accountVars, AccountsIInv, AccountsTypeOK, Numbered, InOrder, RowCurrent, CountsOn

\* Every step of the browser and of whoever else asks is one of the account's, or none.
LEMMA AccountStep ==
  ASSUME AccountsIInv, [Next]_vars
  PROVE  AccountsIInv'
  <1>1. CASE UNCHANGED accountVars
    BY <1>1, AccountUnchanged
  <1>2. ASSUME NEW w \in HttpWorkers, NEW t \in Tabs, LoadRefresh(w, t) PROVE AccountsIInv'
    BY <1>2, LoadKeepsAccount, SessionAssumption DEF LoadRefresh, Operations
  <1>3. ASSUME NEW w \in HttpWorkers, AnswerRefresh(w) \/ LoseAnswer(w) \/ AnswerElsewhere(w)
        PROVE  AccountsIInv'
    BY <1>3, ReplyKeepsAccount DEF AnswerRefresh, LoseAnswer, AnswerElsewhere
  <1>4. ASSUME NEW w \in HttpWorkers, SaveRow(w) PROVE AccountsIInv'
    BY <1>4, SaveKeepsAccount DEF SaveRow
  <1>5. ASSUME NEW w \in HttpWorkers, NEW op \in Operations, NEW entered, AskElsewhere(w, op, entered)
        PROVE  AccountsIInv'
    BY <1>5, LoadKeepsAccount, SessionAssumption DEF AskElsewhere
  <1>6. ASSUME NEW id \in 1..issued, ExpireId(id) PROVE AccountsIInv'
    BY <1>6, ExpireKeepsAccount DEF ExpireId
  <1>7. ASSUME NEW c \in Calls, NEW t \in Tabs, NEW kind, StartCall(c, t, kind) PROVE UNCHANGED accountVars
    BY <1>7 DEF StartCall
  <1>8. ASSUME NEW c \in Calls, Succeed(c) \/ Error(c) \/ Unauthorized(c) PROVE UNCHANGED accountVars
    BY <1>8 DEF Succeed, Error, Unauthorized, GiveUp
  <1>9. ASSUME NEW t \in Tabs, CoolDown(t) \/ Reload(t) PROVE UNCHANGED accountVars
    BY <1>9 DEF CoolDown, Reload
  <1>10. CASE AccessAges
    BY <1>1, <1>10 DEF AccessAges
  <1>11. CASE UNCHANGED vars
    BY <1>1, <1>11 DEF vars
  <1> QED
    BY <1>1, <1>2, <1>3, <1>4, <1>5, <1>6, <1>7, <1>8, <1>9, <1>10, <1>11 DEF Next

\* However resends, expiries and other requests interleave, for any number of clients,
\* workers and ids, a registration code is dead after MAX_ATTEMPTS wrong answers
\* unless a save undid another (verifyOtp, resendOtp).
THEOREM CodesDie == Spec => []GuessesAreBounded
  <1>1. AccountsIInv => GuessesAreBounded
    BY DEF AccountsIInv, InOrder, GuessesAreBounded
  <1>2. Init => AccountsIInv
    BY AccountsInitIInv DEF Init
  <1> QED
    BY <1>1, <1>2, AccountStep, PTL DEF Spec

\* A refresh token issued before a password change or reset, a logout or a deletion is
\* never stored again, unless a save undid another (changePassword, resetPassword,
\* logout, deleteAccount).
THEOREM RevocationsHold == Spec => []RevokedStaysRevoked
  <1>1. AccountsIInv => RevokedStaysRevoked
    BY DEF AccountsIInv, InOrder, LaterThan, RevokedStaysRevoked
  <1>2. Init => AccountsIInv
    BY AccountsInitIInv DEF Init
  <1> QED
    BY <1>1, <1>2, AccountStep, PTL DEF Spec
-----------------------------------------------------------------------------
(* The tabs and their calls.                                               *)

BrowserTypes ==
  /\ cookie \in OrNone /\ local \in {"none", "fresh", "old"}
  /\ tab \in [Tabs -> Tab] /\ call \in [Calls -> Call \cup {Free}]
  /\ disturbed \in BOOLEAN /\ rejected \in BOOLEAN

Busy(c) == call[c] # Free

\* NothingWaitsInVain, call by call.
Waits ==
  /\ \A c \in Calls : Busy(c) /\ call[c].at = "queued" => tab[call[c].tab].isRefreshing
  /\ \A c \in Calls : Busy(c) /\ call[c].at \in {"waiting", "leading"} => tab[call[c].tab].refresh # "none"
  /\ \A t \in Tabs : tab[t].isRefreshing =>
       \E c \in Calls : Busy(c) /\ call[c].tab = t /\ call[c].at = "leading"

BrowserIInv == BrowserTypes /\ Waits

LEMMA NewTabIsTab ==
  /\ NewTab \in Tab /\ NewTab.refresh = "none" /\ NewTab.isRefreshing = FALSE /\ NewTab.failed = "no"
  /\ \A why \in {"refused", "other"} :
       LET s == [NewTab EXCEPT !.failed = why]
       IN  s \in Tab /\ s.refresh = "none" /\ s.isRefreshing = FALSE
  BY DEF NewTab, Tab, OrNone, NoId

LEMMA CallFacts ==
  ASSUME BrowserTypes, NEW c \in Calls, Busy(c)
  PROVE  /\ call[c] \in Call /\ call[c].tab \in Tabs
         /\ \A at \in {"sent", "queued"} :
              LET x == [call[c] EXCEPT !.at = at]
              IN  x \in Call /\ x # Free /\ x.tab = call[c].tab /\ x.at = at
         /\ LET x == [call[c] EXCEPT !.at = "leading", !.retried = TRUE]
            IN  x \in Call /\ x # Free /\ x.tab = call[c].tab /\ x.at = "leading"
         /\ LET x == [call[c] EXCEPT !.at = "sent", !.token = "fresh"]
            IN  x \in Call /\ x # Free /\ x.tab = call[c].tab /\ x.at = "sent"
         /\ LET x == [call[c] EXCEPT !.token = "old"]
            IN  x \in Call /\ x # Free /\ x.tab = call[c].tab /\ x.at = call[c].at
  <1>1. call[c] \in Call
    BY DEF BrowserTypes, Busy
  <1> QED
    BY <1>1, CallAssumption DEF Call

LEMMA RefreshShape ==
  ASSUME cookie \in OrNone, NEW t \in Tabs, NEW s \in Tab
  PROVE  LET r == RefreshAccessToken(t, s)
         IN  /\ r \in Tab /\ r.isRefreshing = s.isRefreshing /\ r.failed = s.failed
             /\ Sends(t) => r.refresh = "sent" /\ r.sent = cookie
             /\ ~Sends(t) => r = s
  BY DEF RefreshAccessToken, Sent, Tab

LEMMA TypesOfFaces ==
  ASSUME BrowserTypes
  PROVE  /\ \A t \in Tabs : tab[t] \in Tab /\ tab[t].isRefreshing \in BOOLEAN
                            /\ tab[t].refresh \in {"none", "sent", "handled"} /\ tab[t].sent \in OrNone
         /\ \A c \in Calls : call[c] \in Call \cup {Free}
  BY DEF BrowserTypes, Tab

LEMMA BrowserInitIInv == Init => BrowserIInv
  <1> SUFFICES ASSUME Init PROVE BrowserIInv
    OBVIOUS
  <1>1. /\ tab = [t \in Tabs |-> NewTab] /\ call = [c \in Calls |-> Free]
        /\ disturbed = (cookie = NoId) /\ rejected = FALSE /\ local \in {"none", "fresh"}
    BY DEF Init
  <1>2. cookie \in OrNone
    <2>1. row \in Row
      BY AccountsInitIInv DEF Init, AccountsIInv, AccountsTypeOK
    <2> QED
      BY <2>1 DEF Init, Row, OrNone
  <1>3. (\A t \in Tabs : tab[t] = NewTab) /\ \A c \in Calls : ~Busy(c)
    BY <1>1 DEF Busy
  <1>4. BrowserTypes
    BY <1>1, <1>2, NewTabIsTab DEF BrowserTypes
  <1> QED
    BY <1>3, <1>4, NewTabIsTab DEF BrowserIInv, Waits

\* One call changes, and the tabs do not.
LEMMA CallChanges ==
  ASSUME BrowserIInv, NEW c \in Calls, NEW x \in Call \cup {Free},
         call' = [call EXCEPT ![c] = x], Busy(c), call[c].at = "sent",
         x # Free => x.tab = call[c].tab /\ (x.at = "sent" \/ (x.at = "queued" /\ tab[x.tab].isRefreshing)),
         cookie' \in OrNone, local' \in {"none", "fresh", "old"}, UNCHANGED <<tab, disturbed, rejected>>
  PROVE  BrowserIInv'
  <1>1. /\ call' \in [Calls -> Call \cup {Free}] /\ call'[c] = x
        /\ \A d \in Calls \ {c} : call'[d] = call[d]
    BY DEF BrowserIInv, BrowserTypes
  <1>2. BrowserTypes'
    BY <1>1 DEF BrowserIInv, BrowserTypes
  <1>3. Waits'
    BY <1>1 DEF BrowserIInv, Waits, Busy
  <1> QED
    BY <1>2, <1>3 DEF BrowserIInv

\* A tab starts over, and none of its calls waits any longer.
LEMMA TabStartsOver ==
  ASSUME BrowserIInv, NEW t \in Tabs, NEW s \in Tab, s.isRefreshing = FALSE,
         tab' = [tab EXCEPT ![t] = s], call' \in [Calls -> Call \cup {Free}],
         \A c \in Calls : \/ call'[c] = Free
                          \/ call'[c] = call[c] /\ call[c].tab # t
                          \/ call'[c] = call[c] /\ call[c].at = "sent"
                          \/ call'[c].at = "sent",
         \A c \in Calls : Busy(c) /\ call[c].tab # t => call'[c] = call[c],
         cookie' \in OrNone, local' \in {"none", "fresh", "old"},
         disturbed' \in BOOLEAN, rejected' \in BOOLEAN
  PROVE  BrowserIInv'
  <1>1. tab' \in [Tabs -> Tab] /\ tab'[t] = s /\ \A u \in Tabs \ {t} : tab'[u] = tab[u]
    BY DEF BrowserIInv, BrowserTypes
  <1>2. BrowserTypes'
    BY <1>1 DEF BrowserTypes
  <1>3. \A c \in Calls : Busy(c)' => call'[c] \in Call /\ call'[c].tab \in Tabs
    BY <1>2 DEF BrowserTypes, Busy, Call
  <1>4. \A c \in Calls : Busy(c)' /\ call'[c].at # "sent" =>
          Busy(c) /\ call'[c] = call[c] /\ call[c].tab \in Tabs \ {t}
    BY <1>3 DEF Busy
  <1>5. ASSUME NEW u \in Tabs, tab'[u].isRefreshing
        PROVE  \E c \in Calls : Busy(c)' /\ call'[c].tab = u /\ call'[c].at = "leading"
    <2>1. u # t /\ tab'[u] = tab[u]
      BY <1>1, <1>5
    <2>2. PICK c \in Calls : Busy(c) /\ call[c].tab = u /\ call[c].at = "leading"
      BY <1>5, <2>1 DEF BrowserIInv, Waits
    <2> QED
      BY <2>1, <2>2 DEF Busy
  <1>6. Waits'
    BY <1>1, <1>4, <1>5 DEF BrowserIInv, Waits
  <1> QED
    BY <1>2, <1>6 DEF BrowserIInv

LEMMA StartCallWaits ==
  ASSUME BrowserIInv, NEW c \in Calls, NEW t \in Tabs, NEW kind \in {"api", "me"}, StartCall(c, t, kind)
  PROVE  BrowserIInv'
  <1>1. ~Busy(c) /\ UNCHANGED <<cookie, local, rejected>> /\ disturbed' \in BOOLEAN
    BY DEF StartCall, Busy, BrowserIInv, BrowserTypes
  <1>2. PICK at \in {"waiting", "sent"} :
          /\ call' = [call EXCEPT ![c] = [tab |-> t, kind |-> kind, at |-> at,
                                          token |-> local, retried |-> FALSE]]
          /\ \/ /\ at = "waiting" /\ ~Repeats(t)
                /\ tab' = [tab EXCEPT ![t] = RefreshAccessToken(t, @)]
             \/ at = "sent" /\ tab' = tab
    BY DEF StartCall, RefreshesFirst
  <1> DEFINE x == [tab |-> t, kind |-> kind, at |-> at, token |-> local, retried |-> FALSE]
  <1>3. x \in Call /\ x.tab = t /\ x.at = at
    BY DEF BrowserIInv, BrowserTypes, Call
  <1>4. x # Free
    BY <1>3, CallAssumption
  <1> HIDE DEF x
  <1>5. call' = [call EXCEPT ![c] = x]
    BY <1>2 DEF x
  <1>6. /\ call' \in [Calls -> Call \cup {Free}] /\ call'[c] = x
        /\ \A d \in Calls \ {c} : call'[d] = call[d]
    BY <1>3, <1>5 DEF BrowserIInv, BrowserTypes
  <1>7. PICK s \in Tab : /\ tab' = [tab EXCEPT ![t] = s]
                         /\ s.isRefreshing = tab[t].isRefreshing
                         /\ tab[t].refresh # "none" => s.refresh # "none"
                         /\ at = "waiting" => s.refresh # "none"
    <2>1. tab[t] \in Tab /\ cookie \in OrNone /\ tab \in [Tabs -> Tab]
      BY DEF BrowserIInv, BrowserTypes
    <2>2. CASE at = "sent" /\ tab' = tab
      BY <2>1, <2>2
    <2>3. CASE at = "waiting" /\ ~Repeats(t) /\ tab' = [tab EXCEPT ![t] = RefreshAccessToken(t, @)]
      <3>1. PICK s : s = RefreshAccessToken(t, tab[t])
        OBVIOUS
      <3>2. tab' = [tab EXCEPT ![t] = s]
        BY <2>1, <2>3, <3>1
      <3>3. /\ s \in Tab /\ s.isRefreshing = tab[t].isRefreshing
            /\ Sends(t) => s.refresh = "sent"
            /\ ~Sends(t) => s = tab[t]
        BY <2>1, <3>1, RefreshShape
      <3>4. s.refresh # "none"
        BY <2>3, <3>3 DEF Sends, Repeats, Joins
      <3> QED
        BY <3>2, <3>3, <3>4
    <2> QED
      BY <1>2, <2>2, <2>3
  <1>8. tab' \in [Tabs -> Tab] /\ tab'[t] = s /\ \A u \in Tabs \ {t} : tab'[u] = tab[u]
    BY <1>7 DEF BrowserIInv, BrowserTypes
  <1>9. BrowserTypes'
    BY <1>1, <1>6, <1>8 DEF BrowserIInv, BrowserTypes
  <1>10. \A u \in Tabs : /\ tab'[u].isRefreshing = tab[u].isRefreshing
                         /\ tab[u].refresh # "none" => tab'[u].refresh # "none"
    BY <1>7, <1>8
  <1>11. \A d \in Calls \ {c} : Busy(d)' => Busy(d) /\ call'[d] = call[d] /\ call[d].tab \in Tabs
    BY <1>6, CallFacts DEF Busy, BrowserIInv
  <1>12. ASSUME NEW u \in Tabs, tab'[u].isRefreshing
        PROVE  \E d \in Calls : Busy(d)' /\ call'[d].tab = u /\ call'[d].at = "leading"
    <2>1. PICK d \in Calls : Busy(d) /\ call[d].tab = u /\ call[d].at = "leading"
      BY <1>10, <1>12 DEF BrowserIInv, Waits
    <2> QED
      BY <1>1, <1>6, <2>1 DEF Busy
  <1>13. Waits'
    BY <1>2, <1>3, <1>4, <1>6, <1>7, <1>8, <1>10, <1>11, <1>12 DEF BrowserIInv, Waits
  <1> QED
    BY <1>9, <1>13 DEF BrowserIInv

LEMMA CallEndsWaits ==
  ASSUME BrowserIInv, NEW c \in Calls, Succeed(c) \/ Error(c)
  PROVE  BrowserIInv'
  <1>1. /\ call' = [call EXCEPT ![c] = Free] /\ Busy(c) /\ call[c].at = "sent"
        /\ local' \in {"none", local} /\ UNCHANGED <<cookie, tab, disturbed, rejected>>
    BY DEF Succeed, Error, GiveUp, Busy, historyVars
  <1> QED
    BY <1>1, CallChanges DEF BrowserIInv, BrowserTypes

LEMMA UnauthorizedWaits ==
  ASSUME BrowserIInv, NEW c \in Calls, Unauthorized(c)
  PROVE  BrowserIInv'
  <1>1. Busy(c) /\ call[c].at = "sent" /\ BrowserTypes /\ Waits
    BY DEF Unauthorized, Busy, BrowserIInv
  <1>2. PICK t \in Tabs : t = call[c].tab
    BY <1>1, CallFacts
  <1>3. tab[t] \in Tab /\ cookie \in OrNone /\ tab \in [Tabs -> Tab] /\ local \in {"none", "fresh", "old"}
    BY <1>1 DEF BrowserTypes
  <1>4. CASE tab[t].isRefreshing /\ call' = [call EXCEPT ![c].at = "queued"]
             /\ UNCHANGED <<cookie, local, tab, historyVars>>
    <2>1. PICK x : x = [call[c] EXCEPT !.at = "queued"]
      OBVIOUS
    <2>2. x \in Call /\ x # Free /\ x.tab = t /\ x.at = "queued"
      BY <1>1, <1>2, <2>1, CallFacts
    <2>3. call' = [call EXCEPT ![c] = x]
      BY <1>4, <2>1
    <2> QED
      BY <1>1, <1>2, <1>3, <1>4, <2>2, <2>3, CallChanges DEF historyVars
  <1>5. CASE /\ ~tab[t].isRefreshing /\ ~Repeats(t)
             /\ call' = [call EXCEPT ![c].at = "leading", ![c].retried = TRUE]
             /\ tab' = [tab EXCEPT ![t] = RefreshAccessToken(t, [@ EXCEPT !.isRefreshing = TRUE])]
             /\ disturbed' = (disturbed \/ Collides(t))
             /\ UNCHANGED <<cookie, local, rejected>>
    <2>1. PICK x : x = [call[c] EXCEPT !.at = "leading", !.retried = TRUE]
      OBVIOUS
    <2>2. x \in Call /\ x # Free /\ x.tab = t /\ x.at = "leading"
      BY <1>1, <1>2, <2>1, CallFacts
    <2>3. call' = [call EXCEPT ![c] = x]
      BY <1>1, <1>5, <2>1 DEF BrowserTypes
    <2>4. /\ call' \in [Calls -> Call \cup {Free}] /\ call'[c] = x
          /\ \A d \in Calls \ {c} : call'[d] = call[d]
      BY <1>1, <2>2, <2>3 DEF BrowserTypes
    <2>5. PICK r : r = [tab[t] EXCEPT !.isRefreshing = TRUE]
      OBVIOUS
    <2>6. r \in Tab /\ r.isRefreshing = TRUE /\ r.refresh = tab[t].refresh
      BY <1>3, <2>5 DEF Tab
    <2>7. PICK s : s = RefreshAccessToken(t, r)
      OBVIOUS
    <2>8. s \in Tab /\ s.isRefreshing = TRUE /\ s.refresh # "none"
      <3>1. /\ s \in Tab /\ s.isRefreshing = r.isRefreshing
            /\ Sends(t) => s.refresh = "sent"
            /\ ~Sends(t) => s = r
        BY <1>3, <2>6, <2>7, RefreshShape
      <3> QED
        BY <1>5, <2>6, <3>1 DEF Sends, Repeats, Joins
    <2>9. tab' = [tab EXCEPT ![t] = s]
      BY <1>3, <1>5, <2>5, <2>7
    <2>10. tab' \in [Tabs -> Tab] /\ tab'[t] = s /\ \A u \in Tabs \ {t} : tab'[u] = tab[u]
      BY <1>3, <2>8, <2>9
    <2>11. BrowserTypes'
      BY <1>1, <1>5, <2>4, <2>10 DEF BrowserTypes
    <2>12. \A d \in Calls \ {c} : Busy(d)' => Busy(d) /\ call'[d] = call[d] /\ call[d].tab \in Tabs
      BY <1>1, <2>4, CallFacts DEF Busy
    <2>13. ASSUME NEW u \in Tabs, tab'[u].isRefreshing
           PROVE  \E d \in Calls : Busy(d)' /\ call'[d].tab = u /\ call'[d].at = "leading"
      <3>1. CASE u = t
        BY <2>2, <2>4, <3>1 DEF Busy
      <3>2. CASE u # t
        <4>1. PICK d \in Calls : Busy(d) /\ call[d].tab = u /\ call[d].at = "leading"
          BY <1>1, <2>10, <2>13, <3>2 DEF Waits
        <4> QED
          BY <1>1, <2>4, <4>1 DEF Busy
      <3> QED
        BY <3>1, <3>2
    <2>14. Waits'
      BY <1>1, <2>2, <2>4, <2>8, <2>10, <2>12, <2>13 DEF Waits
    <2> QED
      BY <2>11, <2>14 DEF BrowserIInv
  <1>6. CASE GiveUp(c)
    <2>1. /\ call' = [call EXCEPT ![c] = Free] /\ local' \in {"none", local}
          /\ UNCHANGED <<cookie, tab, disturbed, rejected>>
      BY <1>6 DEF GiveUp, historyVars
    <2> QED
      BY <1>1, <1>3, <2>1, CallChanges DEF BrowserTypes
  <1>7. CASE /\ local' = "none" /\ tab' = [tab EXCEPT ![t] = NewTab]
             /\ call' = [d \in Calls |-> IF Gone(t, d) THEN Free ELSE call[d]]
             /\ UNCHANGED <<cookie, historyVars>>
    <2>1. /\ \A d \in Calls : call'[d] = Free \/ (call'[d] = call[d] /\ call[d].tab # t)
          /\ \A d \in Calls : Busy(d) /\ call[d].tab # t => call'[d] = call[d]
          /\ call' \in [Calls -> Call \cup {Free}]
      BY <1>1, <1>7 DEF Gone, BrowserTypes, Busy
    <2>2. disturbed' \in BOOLEAN /\ rejected' \in BOOLEAN /\ cookie' \in OrNone
      BY <1>1, <1>7 DEF historyVars, BrowserTypes
    <2> QED
      BY <1>7, <2>1, <2>2, NewTabIsTab, TabStartsOver
  <1> QED
    BY <1>2, <1>4, <1>5, <1>6, <1>7 DEF Unauthorized

LEMMA TabStepWaits ==
  ASSUME BrowserIInv, NEW t \in Tabs, CoolDown(t) \/ Reload(t)
  PROVE  BrowserIInv'
  <1>1. BrowserTypes /\ Waits
    BY DEF BrowserIInv
  <1>2. CASE CoolDown(t)
    <2>1. PICK s : s = [tab[t] EXCEPT !.failed = "no"]
      OBVIOUS
    <2>2. s \in Tab /\ s.refresh = tab[t].refresh /\ s.isRefreshing = tab[t].isRefreshing
      BY <1>1, <2>1, TypesOfFaces DEF Tab
    <2>3. tab' = [tab EXCEPT ![t] = s] /\ UNCHANGED <<cookie, local, call, disturbed, rejected>>
      BY <1>2, <2>1 DEF CoolDown, historyVars
    <2>4. tab' \in [Tabs -> Tab] /\ tab'[t] = s /\ \A u \in Tabs \ {t} : tab'[u] = tab[u]
      BY <1>1, <2>2, <2>3 DEF BrowserTypes
    <2>5. BrowserTypes'
      BY <1>1, <2>3, <2>4 DEF BrowserTypes
    <2>6. \A u \in Tabs : tab'[u].refresh = tab[u].refresh /\ tab'[u].isRefreshing = tab[u].isRefreshing
      BY <2>2, <2>4
    <2>7. \A c \in Calls : Busy(c) => call[c].tab \in Tabs
      BY <1>1, CallFacts
    <2> QED
      BY <1>1, <2>3, <2>5, <2>6, <2>7 DEF BrowserIInv, Waits, Busy
  <1>3. CASE Reload(t)
    <2>1. /\ \A d \in Calls : call'[d] = Free \/ (call'[d] = call[d] /\ call[d].tab # t)
          /\ \A d \in Calls : Busy(d) /\ call[d].tab # t => call'[d] = call[d]
          /\ call' \in [Calls -> Call \cup {Free}]
      BY <1>1, <1>3 DEF Reload, Gone, BrowserTypes, Busy
    <2>2. /\ disturbed' \in BOOLEAN /\ rejected' \in BOOLEAN /\ cookie' \in OrNone
          /\ local' \in {"none", "fresh", "old"} /\ tab' = [tab EXCEPT ![t] = NewTab]
      BY <1>1, <1>3 DEF Reload, BrowserTypes
    <2> QED
      BY <2>1, <2>2, NewTabIsTab, TabStartsOver
  <1> QED
    BY <1>2, <1>3

LEMMA AccessAgesWaits ==
  ASSUME BrowserIInv, AccessAges
  PROVE  BrowserIInv'
  <1>1. BrowserTypes /\ Waits
    BY DEF BrowserIInv
  <1>2. /\ call' = [c \in Calls |-> IF call[c] # Free /\ call[c].token = "fresh"
                                      THEN [call[c] EXCEPT !.token = "old"] ELSE call[c]]
        /\ local' \in {"old", local} /\ UNCHANGED <<cookie, tab, disturbed, rejected>>
    BY DEF AccessAges, historyVars
  <1>3. ASSUME NEW c \in Calls
        PROVE  /\ call'[c] \in Call \cup {Free} /\ (Busy(c)' <=> Busy(c))
               /\ Busy(c) => call'[c].tab = call[c].tab /\ call'[c].at = call[c].at
    <2>1. CASE call[c] # Free /\ call[c].token = "fresh"
      <3>1. PICK x : x = [call[c] EXCEPT !.token = "old"]
        OBVIOUS
      <3>2. call'[c] = x
        BY <1>2, <2>1, <3>1
      <3> QED
        <4>1. call[c] \in Call
          BY <1>1, <2>1, CallFacts DEF Busy
        <4>2. x \in Call /\ x.tab = call[c].tab /\ x.at = call[c].at
          BY <3>1, <4>1 DEF Call
        <4> QED
          BY <2>1, <3>2, <4>2, CallAssumption DEF Busy
    <2>2. CASE ~(call[c] # Free /\ call[c].token = "fresh")
      <3>1. call'[c] = call[c]
        BY <1>2, <2>2
      <3> QED
        BY <1>1, <3>1, TypesOfFaces DEF Busy
    <2> QED
      BY <2>1, <2>2
  <1>4. call' \in [Calls -> Call \cup {Free}]
    BY <1>2, <1>3
  <1>5. BrowserTypes'
    BY <1>1, <1>2, <1>4 DEF BrowserTypes
  <1>6. ASSUME NEW t \in Tabs, tab'[t].isRefreshing
        PROVE  \E c \in Calls : Busy(c)' /\ call'[c].tab = t /\ call'[c].at = "leading"
    <2>1. PICK c \in Calls : Busy(c) /\ call[c].tab = t /\ call[c].at = "leading"
      BY <1>1, <1>2, <1>6 DEF Waits
    <2> QED
      BY <1>3, <2>1
  <1>7. Waits'
    <2>1. tab' = tab
      BY <1>2
    <2>2. \A c \in Calls : Busy(c)' => /\ Busy(c) /\ call'[c].tab = call[c].tab
                                       /\ call'[c].at = call[c].at
      BY <1>3
    <2>3. /\ \A c \in Calls : (Busy(c) /\ call[c].at = "queued")' => tab'[call'[c].tab].isRefreshing
          /\ \A c \in Calls : (Busy(c) /\ call[c].at \in {"waiting", "leading"})' =>
               tab'[call'[c].tab].refresh # "none"
      BY <1>1, <2>1, <2>2 DEF Waits
    <2> QED
      BY <1>6, <2>3 DEF Waits
  <1> QED
    BY <1>5, <1>7 DEF BrowserIInv

LEMMA LoadRefreshWaits ==
  ASSUME BrowserIInv, NEW w, NEW t \in Tabs, LoadRefresh(w, t)
  PROVE  BrowserIInv'
  <1>1. BrowserTypes /\ Waits
    BY DEF BrowserIInv
  <1>2. PICK s : s = [tab[t] EXCEPT !.refresh = "handled"]
    OBVIOUS
  <1>3. s \in Tab /\ s.refresh = "handled" /\ s.isRefreshing = tab[t].isRefreshing
    BY <1>1, <1>2, TypesOfFaces DEF Tab
  <1>4. tab' = [tab EXCEPT ![t] = s] /\ UNCHANGED <<cookie, local, call, disturbed, rejected>>
    BY <1>2 DEF LoadRefresh, historyVars
  <1>5. tab' \in [Tabs -> Tab] /\ tab'[t] = s /\ \A u \in Tabs \ {t} : tab'[u] = tab[u]
    BY <1>1, <1>3, <1>4 DEF BrowserTypes
  <1>6. BrowserTypes'
    BY <1>1, <1>4, <1>5 DEF BrowserTypes
  <1>7. \A u \in Tabs : /\ tab'[u].isRefreshing = tab[u].isRefreshing
                        /\ tab[u].refresh # "none" => tab'[u].refresh # "none"
    BY <1>3, <1>5
  <1>8. \A c \in Calls : Busy(c) => call[c].tab \in Tabs
    BY <1>1, CallFacts
  <1> QED
    BY <1>1, <1>4, <1>6, <1>7, <1>8 DEF BrowserIInv, Waits, Busy

\* A refresh ends, one way or the other.
LEMMA RefreshEndsWaits ==
  ASSUME BrowserIInv, NEW t \in Tabs,
         RefreshSucceeds(t) \/ RefreshFails(t, "refused") \/ RefreshFails(t, "other"),
         cookie' \in OrNone, disturbed' \in BOOLEAN, rejected' \in BOOLEAN
  PROVE  BrowserIInv'
  <1>1. BrowserTypes /\ Waits /\ local \in {"none", "fresh", "old"}
    BY DEF BrowserIInv, BrowserTypes
  <1>2. CASE RefreshSucceeds(t)
    <2>1. PICK refused \in SUBSET Of(t, {"queued", "leading"}) :
            call' = [c \in Calls |-> IF c \in refused THEN Free
                                     ELSE IF c \in Of(t, {"waiting", "queued", "leading"})
                                       THEN [call[c] EXCEPT !.at = "sent", !.token = "fresh"]
                                     ELSE call[c]]
      BY <1>2 DEF RefreshSucceeds
    <2>2. ASSUME NEW c \in Calls
          PROVE  /\ call'[c] \in Call \cup {Free}
                 /\ \/ call'[c] = Free
                    \/ call'[c] = call[c] /\ call[c].tab # t
                    \/ call'[c] = call[c] /\ call[c].at = "sent"
                    \/ call'[c].at = "sent"
                 /\ Busy(c) /\ call[c].tab # t => call'[c] = call[c]
      <3>1. CASE c \in refused
        BY <2>1, <3>1 DEF Of
      <3>2. CASE c \notin refused /\ c \in Of(t, {"waiting", "queued", "leading"})
        <4>1. PICK x : x = [call[c] EXCEPT !.at = "sent", !.token = "fresh"]
          OBVIOUS
        <4>2. call'[c] = x /\ Busy(c) /\ call[c].tab = t
          BY <2>1, <3>2, <4>1 DEF Of, Busy
        <4>3. call[c] \in Call
          BY <1>1, <4>2, CallFacts
        <4>4. x \in Call /\ x.at = "sent"
          BY <4>1, <4>3 DEF Call
        <4> QED
          BY <4>2, <4>4
      <3>3. CASE c \notin refused /\ c \notin Of(t, {"waiting", "queued", "leading"})
        <4>1. call'[c] = call[c] /\ call[c] \in Call \cup {Free}
          BY <1>1, <2>1, <3>3, TypesOfFaces
        <4>2. Busy(c) => call[c].at \in {"waiting", "sent", "queued", "leading"}
          BY <1>1, CallFacts DEF Call
        <4> QED
          BY <3>3, <4>1, <4>2 DEF Of, Busy
      <3> QED
        BY <3>1, <3>2, <3>3
    <2>3. call' \in [Calls -> Call \cup {Free}]
      BY <2>1, <2>2
    <2>4. local' = "fresh" /\ tab' = [tab EXCEPT ![t] = NewTab]
      BY <1>2 DEF RefreshSucceeds
    <2> QED
      BY <2>2, <2>3, <2>4, NewTabIsTab, TabStartsOver
  <1>3. ASSUME NEW why \in {"refused", "other"}, RefreshFails(t, why) PROVE BrowserIInv'
    <2>1. PICK leaves \in BOOLEAN :
            /\ tab' = [tab EXCEPT ![t] = IF leaves THEN NewTab ELSE [NewTab EXCEPT !.failed = why]]
            /\ call' = [c \in Calls |->
                   IF leaves /\ Gone(t, c) THEN Free
                   ELSE IF c \in Of(t, {"leading", "queued"}) THEN Free
                   ELSE IF c \in Of(t, {"waiting"})
                     THEN IF call[c].token = "none" THEN Free ELSE [call[c] EXCEPT !.at = "sent"]
                   ELSE call[c]]
            /\ local' \in {"none", local}
      <3>1. (why = "refused" /\ tab[t].isRefreshing) \in BOOLEAN
        OBVIOUS
      <3> QED
        BY <1>3, <3>1 DEF RefreshFails
    <2>2. ASSUME NEW c \in Calls
          PROVE  /\ call'[c] \in Call \cup {Free}
                 /\ \/ call'[c] = Free
                    \/ call'[c] = call[c] /\ call[c].tab # t
                    \/ call'[c] = call[c] /\ call[c].at = "sent"
                    \/ call'[c].at = "sent"
                 /\ Busy(c) /\ call[c].tab # t => call'[c] = call[c]
      <3>1. CASE leaves /\ Gone(t, c)
        BY <2>1, <3>1 DEF Gone, Busy
      <3>2. CASE ~(leaves /\ Gone(t, c)) /\ c \in Of(t, {"leading", "queued"})
        BY <2>1, <3>2 DEF Of, Busy
      <3>3. CASE ~(leaves /\ Gone(t, c)) /\ c \in Of(t, {"waiting"})
        <4>1. PICK x : x = [call[c] EXCEPT !.at = "sent"]
          OBVIOUS
        <4>2. Busy(c) /\ call[c].tab = t /\ c \notin Of(t, {"leading", "queued"})
          BY <3>3 DEF Of, Busy
        <4>3. call'[c] \in {Free, x}
          BY <2>1, <3>3, <4>1, <4>2
        <4> QED
          BY <1>1, <4>1, <4>2, <4>3, CallFacts
      <3>4. CASE /\ ~(leaves /\ Gone(t, c)) /\ c \notin Of(t, {"leading", "queued"})
                 /\ c \notin Of(t, {"waiting"})
        <4>1. call'[c] = call[c] /\ call[c] \in Call \cup {Free}
          BY <1>1, <2>1, <3>4, TypesOfFaces
        <4>2. Busy(c) => call[c].at \in {"waiting", "sent", "queued", "leading"}
          BY <1>1, CallFacts DEF Call
        <4> QED
          BY <3>4, <4>1, <4>2 DEF Of, Busy
      <3> QED
        BY <3>1, <3>2, <3>3, <3>4
    <2>3. call' \in [Calls -> Call \cup {Free}]
      BY <2>1, <2>2
    <2>4. PICK s \in Tab : s.isRefreshing = FALSE /\ tab' = [tab EXCEPT ![t] = s]
      BY <2>1, NewTabIsTab
    <2>5. local' \in {"none", "fresh", "old"}
      BY <1>1, <2>1
    <2> QED
      BY <2>2, <2>3, <2>4, <2>5, TabStartsOver
  <1> QED
    BY <1>2, <1>3

LEMMA AnswerWaits ==
  ASSUME BrowserIInv, AccountsTypeOK, NEW w \in HttpWorkers, AnswerRefresh(w) \/ LoseAnswer(w)
  PROVE  BrowserIInv'
  <1>1. request[w] # Free /\ request[w].client \in Tabs
    BY DEF AnswerRefresh, LoseAnswer, Awaited
  <1>2. request[w].reply.token \in OrNone
    BY <1>1, AccountRequestFacts DEF Reply
  <1>3. cookie' \in OrNone /\ disturbed' \in BOOLEAN /\ rejected' \in BOOLEAN
    <2>1. cookie \in OrNone /\ disturbed \in BOOLEAN /\ rejected \in BOOLEAN
      BY DEF BrowserIInv, BrowserTypes
    <2>2. CASE AnswerRefresh(w)
      <3>1. cookie' \in {cookie, request[w].reply.token} /\ disturbed' = disturbed
        BY <2>2 DEF AnswerRefresh
      <3>2. rejected' \in BOOLEAN
        BY <2>1, <2>2 DEF AnswerRefresh
      <3> QED
        BY <1>2, <2>1, <3>1, <3>2
    <2>3. CASE LoseAnswer(w)
      BY <2>1, <2>3 DEF LoseAnswer
    <2> QED
      BY <2>2, <2>3
  <1>4. \/ RefreshSucceeds(request[w].client)
        \/ RefreshFails(request[w].client, "refused") \/ RefreshFails(request[w].client, "other")
    BY DEF AnswerRefresh, LoseAnswer
  <1> QED
    BY <1>1, <1>3, <1>4, RefreshEndsWaits

LEMMA BrowserSame ==
  ASSUME BrowserIInv, UNCHANGED <<cookie, local, tab, call>>, disturbed' \in BOOLEAN, rejected' \in BOOLEAN
  PROVE  BrowserIInv'
  BY DEF BrowserIInv, BrowserTypes, Waits, Busy

LEMMA BrowserStep ==
  ASSUME BrowserIInv, AccountsIInv, [Next]_vars
  PROVE  BrowserIInv'
  <1>0. disturbed \in BOOLEAN /\ rejected \in BOOLEAN /\ AccountsTypeOK
    BY DEF BrowserIInv, BrowserTypes, AccountsIInv
  <1>1. ASSUME NEW c \in Calls, NEW t \in Tabs, NEW kind \in {"api", "me"}, StartCall(c, t, kind)
        PROVE  BrowserIInv'
    BY <1>1, StartCallWaits
  <1>2. ASSUME NEW c \in Calls, Succeed(c) \/ Error(c) \/ Unauthorized(c) PROVE BrowserIInv'
    BY <1>2, CallEndsWaits, UnauthorizedWaits
  <1>3. ASSUME NEW t \in Tabs, CoolDown(t) \/ Reload(t) PROVE BrowserIInv'
    BY <1>3, TabStepWaits
  <1>4. CASE AccessAges
    BY <1>4, AccessAgesWaits
  <1>5. ASSUME NEW w \in HttpWorkers, NEW t \in Tabs, LoadRefresh(w, t) PROVE BrowserIInv'
    BY <1>5, LoadRefreshWaits
  <1>6. ASSUME NEW w \in HttpWorkers, AnswerRefresh(w) \/ LoseAnswer(w) PROVE BrowserIInv'
    BY <1>0, <1>6, AnswerWaits
  <1>7. ASSUME NEW w \in HttpWorkers, SaveRow(w) \/ AnswerElsewhere(w) PROVE BrowserIInv'
    BY <1>0, <1>7, BrowserSame DEF SaveRow, AnswerElsewhere, browserVars, historyVars
  <1>8. ASSUME NEW w \in HttpWorkers, NEW op, NEW entered, AskElsewhere(w, op, entered) PROVE BrowserIInv'
    BY <1>0, <1>8, BrowserSame DEF AskElsewhere, browserVars
  <1>9. ASSUME NEW id, ExpireId(id) PROVE BrowserIInv'
    BY <1>0, <1>9, BrowserSame DEF ExpireId, browserVars
  <1>10. CASE UNCHANGED vars
    BY <1>0, <1>10, BrowserSame DEF vars, browserVars, historyVars
  <1> QED
    BY <1>1, <1>2, <1>3, <1>4, <1>5, <1>6, <1>7, <1>8, <1>9, <1>10 DEF Next

\* No call waits for a refresh that will not end, however calls, failures, reloads and
\* several tabs interleave (api.ts, isRefreshing, failedQueue and refreshPromise).
THEOREM CallsAreSeenOff == Spec => []NothingWaitsInVain
  <1>1. BrowserIInv => NothingWaitsInVain
    BY DEF BrowserIInv, Waits, NothingWaitsInVain, Of, Busy
  <1>2. Init => AccountsIInv /\ BrowserIInv
    BY AccountsInitIInv, BrowserInitIInv DEF Init
  <1> QED
    BY <1>1, <1>2, AccountStep, BrowserStep, PTL DEF Spec
-----------------------------------------------------------------------------
(* The session.                                                            *)

OfTab(w) == request[w] # Free /\ request[w].client \in Tabs

\* A tab's request gave it a new token, and has stored it or is about to.
Given(w) ==
  /\ request[w].op = "refreshToken" /\ tab[request[w].client].refresh = "handled"
  /\ request[w].reply.status = 200 /\ request[w].reply.token # NoId
  /\ request[w].reply.token \notin expired
  /\ \/ request[w].saves = <<>> /\ row.refreshToken = request[w].reply.token
     \/ /\ Len(request[w].saves) = 1 /\ request[w].saves[1].refreshToken = request[w].reply.token
        /\ row.refreshToken = cookie

\* While nothing else came between: one tab refreshes, with the cookie, which is what
\* the server stores or what its last refresh replaced.
Kept ==
  /\ ~rejected /\ cookie # NoId /\ cookie \notin expired
  /\ \A t, u \in Tabs : tab[t].refresh # "none" /\ tab[u].refresh # "none" => t = u
  /\ \A t \in Tabs : tab[t].refresh = "sent" => tab[t].sent = cookie
  /\ \A w \in HttpWorkers : OfTab(w) => Given(w)
  /\ \A v, w \in HttpWorkers : OfTab(v) /\ OfTab(w) => v = w
  /\ \/ row.refreshToken = cookie
     \/ \E w \in HttpWorkers : OfTab(w) /\ request[w].saves = <<>>

KeptUnlessDisturbed == ~disturbed => Kept

LEMMA KeptInit == Init => KeptUnlessDisturbed
  <1> SUFFICES ASSUME Init, ~disturbed PROVE Kept
    BY DEF KeptUnlessDisturbed
  <1>1. /\ request = [w \in HttpWorkers |-> Free] /\ tab = [t \in Tabs |-> NewTab] /\ expired = {}
        /\ cookie = row.refreshToken /\ cookie # NoId /\ ~rejected
    BY DEF Init, AccountsInit
  <1>2. (\A t \in Tabs : tab[t] = NewTab) /\ \A w \in HttpWorkers : ~OfTab(w)
    BY <1>1 DEF OfTab
  <1> QED
    BY <1>1, <1>2, NewTabIsTab DEF Kept

\* One tab changes: it stays idle, goes on with its refresh, or sends one while no
\* other tab does.
LEMMA TabKeeps ==
  ASSUME KeptUnlessDisturbed, NEW t \in Tabs, NEW s, tab \in [Tabs -> Tab], tab' = [tab EXCEPT ![t] = s],
         UNCHANGED <<cookie, row, request, expired, rejected>>,
         ~disturbed' =>
            /\ ~disturbed
            /\ \/ s.refresh = tab[t].refresh /\ s.sent = tab[t].sent
               \/ tab[t].refresh = "none" /\ s.refresh = "none"
               \/ /\ tab[t].refresh = "none" /\ s.refresh = "sent" /\ s.sent = cookie
                  /\ \A u \in Tabs \ {t} : tab[u].refresh = "none"
  PROVE  KeptUnlessDisturbed'
  <1> SUFFICES ASSUME ~disturbed' PROVE Kept'
    BY DEF KeptUnlessDisturbed
  <1>1. Kept
    BY DEF KeptUnlessDisturbed
  <1>2. tab'[t] = s /\ \A u \in Tabs \ {t} : tab'[u] = tab[u]
    OBVIOUS
  <1>3. \A w \in HttpWorkers : (OfTab(w)' <=> OfTab(w)) /\ (OfTab(w) => Given(w) /\ request[w].client \in Tabs)
    BY <1>1 DEF OfTab, Kept
  <1>4. \A u \in Tabs : tab[u].refresh = "handled" => tab'[u].refresh = "handled"
    BY <1>2
  <1>5. \A w \in HttpWorkers : OfTab(w)' => Given(w)'
    BY <1>3, <1>4 DEF Given
  <1>6. \A u, v \in Tabs : tab'[u].refresh # "none" /\ tab'[v].refresh # "none" => u = v
    BY <1>1, <1>2 DEF Kept
  <1>7. \A u \in Tabs : tab'[u].refresh = "sent" => tab'[u].sent = cookie
    BY <1>1, <1>2 DEF Kept
  <1> QED
    BY <1>1, <1>3, <1>5, <1>6, <1>7 DEF Kept

\* So when the tab asks for a refresh.
LEMMA AskKeeps ==
  ASSUME KeptUnlessDisturbed, BrowserTypes, NEW t \in Tabs, NEW r \in Tab,
         r.refresh = tab[t].refresh, r.sent = tab[t].sent,
         tab' = [tab EXCEPT ![t] = RefreshAccessToken(t, r)],
         disturbed' = (disturbed \/ Collides(t)),
         UNCHANGED <<cookie, row, request, expired, rejected>>
  PROVE  KeptUnlessDisturbed'
  <1>1. PICK s : s = RefreshAccessToken(t, r)
    OBVIOUS
  <1>2. /\ Sends(t) => s.refresh = "sent" /\ s.sent = cookie /\ tab[t].refresh = "none"
        /\ ~Sends(t) => s = r
    BY <1>1, RefreshShape DEF BrowserTypes, Sends, Joins
  <1>3. ~disturbed' => ~disturbed /\ ~Collides(t)
    BY DEF BrowserTypes
  <1>4. Sends(t) /\ ~Collides(t) => \A u \in Tabs \ {t} : tab[u].refresh = "none"
    BY DEF Collides
  <1>5. tab' = [tab EXCEPT ![t] = s] /\ tab \in [Tabs -> Tab]
    BY <1>1 DEF BrowserTypes
  <1> QED
    BY <1>2, <1>3, <1>4, <1>5, TabKeeps

\* Nothing that the session is about changes.
LEMMA KeptSame ==
  ASSUME KeptUnlessDisturbed, disturbed' = disturbed,
         UNCHANGED <<cookie, row, request, expired, rejected, tab>>
  PROVE  KeptUnlessDisturbed'
  BY DEF KeptUnlessDisturbed, Kept, OfTab, Given

LEMMA StartCallKeepsSession ==
  ASSUME KeptUnlessDisturbed, BrowserTypes, NEW c \in Calls, NEW t \in Tabs, NEW kind, StartCall(c, t, kind)
  PROVE  KeptUnlessDisturbed'
  <1>1. UNCHANGED <<cookie, row, request, expired, rejected>>
    BY DEF StartCall, accountVars
  <1>2. CASE tab' = [tab EXCEPT ![t] = RefreshAccessToken(t, @)] /\ disturbed' = (disturbed \/ Collides(t))
    <2>1. tab' = [tab EXCEPT ![t] = RefreshAccessToken(t, tab[t])] /\ tab[t] \in Tab
      BY <1>2 DEF BrowserTypes
    <2> QED
      BY <1>1, <1>2, <2>1, AskKeeps
  <1>3. CASE UNCHANGED <<tab, disturbed>>
    BY <1>1, <1>3, KeptSame
  <1> QED
    BY <1>2, <1>3 DEF StartCall

LEMMA CallsKeepSession ==
  ASSUME KeptUnlessDisturbed, BrowserTypes, NEW c \in Calls, Succeed(c) \/ Error(c) \/ Unauthorized(c)
  PROVE  KeptUnlessDisturbed'
  <1>1. UNCHANGED <<cookie, row, request, expired, rejected>>
    BY DEF Succeed, Error, Unauthorized, GiveUp, accountVars, historyVars
  <1>2. CASE UNCHANGED <<tab, disturbed>>
    BY <1>1, <1>2, KeptSame
  <1>3. CASE Unauthorized(c)
    <2>1. PICK t \in Tabs : t = call[c].tab
      BY <1>3, CallFacts DEF Unauthorized, Busy
    <2>2. CASE /\ tab' = [tab EXCEPT ![t] = RefreshAccessToken(t, [@ EXCEPT !.isRefreshing = TRUE])]
               /\ disturbed' = (disturbed \/ Collides(t))
      <3>1. PICK r : r = [tab[t] EXCEPT !.isRefreshing = TRUE]
        OBVIOUS
      <3>2. r \in Tab /\ r.refresh = tab[t].refresh /\ r.sent = tab[t].sent
        <4>1. tab[t] \in Tab
          BY DEF BrowserTypes
        <4> QED
          BY <3>1, <4>1 DEF Tab
      <3>3. tab' = [tab EXCEPT ![t] = RefreshAccessToken(t, r)]
        BY <2>2, <3>1 DEF BrowserTypes
      <3> QED
        BY <1>1, <2>2, <3>2, <3>3, AskKeeps
    <2>3. CASE Repeats(t) /\ tab' = [tab EXCEPT ![t] = NewTab] /\ disturbed' = disturbed
      <3>1. tab[t].refresh = "none" /\ NewTab.refresh = "none" /\ tab \in [Tabs -> Tab]
        BY <2>3, NewTabIsTab DEF Repeats, Joins, BrowserTypes
      <3> QED
        BY <1>1, <2>3, <3>1, TabKeeps
    <2> QED
      BY <1>2, <1>3, <2>1, <2>2, <2>3 DEF Unauthorized, GiveUp, historyVars
  <1>4. CASE Succeed(c) \/ Error(c)
    BY <1>2, <1>4 DEF Succeed, Error, GiveUp, historyVars
  <1> QED
    BY <1>3, <1>4

LEMMA TabStepKeepsSession ==
  ASSUME KeptUnlessDisturbed, BrowserTypes, NEW t \in Tabs, CoolDown(t) \/ Reload(t)
  PROVE  KeptUnlessDisturbed'
  <1>1. UNCHANGED <<cookie, row, request, expired, rejected>> /\ tab \in [Tabs -> Tab]
    BY DEF CoolDown, Reload, accountVars, historyVars, BrowserTypes
  <1>2. CASE CoolDown(t)
    <2>1. PICK s : s = [tab[t] EXCEPT !.failed = "no"]
      OBVIOUS
    <2>2. s.refresh = tab[t].refresh /\ s.sent = tab[t].sent
      <3>1. tab[t] \in Tab
        BY <1>1
      <3> QED
        BY <2>1, <3>1 DEF Tab
    <2>3. tab' = [tab EXCEPT ![t] = s] /\ disturbed' = disturbed
      BY <1>2, <2>1 DEF CoolDown, historyVars
    <2> QED
      BY <1>1, <2>2, <2>3, TabKeeps
  <1>3. CASE Reload(t)
    <2>1. /\ tab' = [tab EXCEPT ![t] = NewTab] /\ NewTab.refresh = "none"
          /\ ~disturbed' => ~disturbed /\ tab[t].refresh = "none"
      BY <1>3, NewTabIsTab DEF Reload
    <2> QED
      BY <1>1, <2>1, TabKeeps
  <1> QED
    BY <1>2, <1>3

\* The server takes the cookie and gives a new token for it.
LEMMA LoadRefreshKeepsSession ==
  ASSUME KeptUnlessDisturbed, BrowserTypes, AccountsIInv,
         NEW w \in HttpWorkers, NEW t \in Tabs, LoadRefresh(w, t)
  PROVE  KeptUnlessDisturbed'
  <1> SUFFICES ASSUME ~disturbed' PROVE Kept'
    BY DEF KeptUnlessDisturbed
  <1>1. /\ tab[t].refresh = "sent" /\ Load(w, t, "refreshToken", tab[t].sent)
        /\ tab' = [tab EXCEPT ![t].refresh = "handled"]
        /\ UNCHANGED <<cookie, disturbed, rejected>> /\ UNCHANGED <<row, expired>>
    BY DEF LoadRefresh, Load, historyVars
  <1>2. Kept
    BY <1>1 DEF KeptUnlessDisturbed
  <1>3. tab[t].sent = cookie /\ \A v \in HttpWorkers : ~OfTab(v)
    BY <1>1, <1>2 DEF Kept, Given, OfTab
  <1>4. row.refreshToken = cookie
    BY <1>2, <1>3 DEF Kept
  <1>5. AccountsTypeOK /\ Numbered /\ t \in Clients
    BY SessionAssumption DEF AccountsIInv
  <1>6. PICK o \in Outcomes("refreshToken", row, cookie, issued + 1) :
          Answered("refreshToken", row, issued + 1, o) /\ Loaded(w, t, "refreshToken", o)
    BY <1>1, <1>3, <1>5, LoadFacts DEF Operations
  <1>7. issued + 1 \in Ids /\ issued \in Nat /\ row \in Row
    BY <1>1, <1>3, <1>5, LoadFacts DEF Operations, AccountsTypeOK
  <1>8. o = Gives(row, issued + 1)
    BY <1>2, <1>4, <1>6 DEF Outcomes, RefreshToken, Kept
  <1>9. /\ o.reply.status = 200 /\ o.reply.token = issued + 1 /\ Len(o.saves) = 1
        /\ o.saves[1].refreshToken = issued + 1
    <2>1. [row EXCEPT !.refreshToken = issued + 1].refreshToken = issued + 1
      BY <1>7 DEF Row
    <2> QED
      BY <1>8, <2>1 DEF Gives, Outcome
  <1>10. issued + 1 # NoId /\ issued + 1 \notin expired
    BY <1>5, <1>7 DEF Numbered, NoId
  <1>11. /\ request'[w] # Free /\ request'[w].client = t /\ request'[w].op = "refreshToken"
         /\ request'[w].saves = o.saves /\ request'[w].reply = o.reply
         /\ \A v \in HttpWorkers \ {w} : request'[v] = request[v]
    BY <1>6 DEF Loaded
  <1>12. tab'[t].refresh = "handled" /\ \A u \in Tabs \ {t} : tab'[u] = tab[u]
    BY <1>1 DEF BrowserTypes, Tab
  <1>13. \A v \in HttpWorkers : OfTab(v)' => v = w
    BY <1>3, <1>11 DEF OfTab
  <1>14. Given(w)'
    BY <1>1, <1>4, <1>9, <1>10, <1>11, <1>12 DEF Given
  <1>15. /\ \A u, v \in Tabs : tab'[u].refresh # "none" /\ tab'[v].refresh # "none" => u = v
         /\ \A u \in Tabs : tab'[u].refresh = "sent" => tab'[u].sent = cookie
    BY <1>1, <1>2, <1>12 DEF Kept
  <1> QED
    BY <1>1, <1>2, <1>4, <1>13, <1>14, <1>15 DEF Kept

\* The tab takes the token that the server stores.
LEMMA AnswerKeepsSession ==
  ASSUME KeptUnlessDisturbed, BrowserTypes, AccountsTypeOK, NEW w \in HttpWorkers, AnswerRefresh(w)
  PROVE  KeptUnlessDisturbed'
  <1> SUFFICES ASSUME ~disturbed' PROVE Kept'
    BY DEF KeptUnlessDisturbed
  <1>1. /\ disturbed' = disturbed /\ OfTab(w) /\ Awaited(w) /\ Reply_(w)
        /\ UNCHANGED <<row, expired>> /\ request[w].saves = <<>>
        /\ request' = [request EXCEPT ![w] = Free]
    BY DEF AnswerRefresh, OfTab, Awaited, Reply_
  <1>2. Kept
    BY <1>1 DEF KeptUnlessDisturbed
  <1>3. PICK t \in Tabs : t = request[w].client
    BY <1>1 DEF OfTab
  <1>4. /\ Given(w) /\ row.refreshToken = request[w].reply.token /\ tab[t].refresh = "handled"
    <2>1. Given(w)
      BY <1>1, <1>2 DEF Kept
    <2>2. Len(<<>>) = 0
      OBVIOUS
    <2> QED
      BY <1>1, <1>3, <2>1, <2>2 DEF Given
  <1>5. cookie' = request[w].reply.token /\ rejected' = rejected /\ RefreshSucceeds(t)
    BY <1>3, <1>4 DEF AnswerRefresh, Given
  <1>6. request'[w] = Free /\ \A v \in HttpWorkers \ {w} : request'[v] = request[v]
    BY <1>1 DEF AccountsTypeOK
  <1>7. \A v \in HttpWorkers : ~OfTab(v)'
    BY <1>1, <1>2, <1>6 DEF Kept, OfTab
  <1>8. tab'[t] = NewTab /\ \A u \in Tabs \ {t} : tab'[u] = tab[u]
    BY <1>5 DEF RefreshSucceeds, BrowserTypes
  <1>9. \A u \in Tabs : tab'[u].refresh = "none"
    BY <1>2, <1>4, <1>8, NewTabIsTab DEF Kept
  <1> QED
    BY <1>1, <1>2, <1>4, <1>5, <1>7, <1>9 DEF Kept, Given

\* A save that changes the token is the tab's own, or disturbs.
LEMMA SaveKeepsSession ==
  ASSUME KeptUnlessDisturbed, BrowserTypes, AccountsTypeOK, NEW w \in HttpWorkers, SaveRow(w)
  PROVE  KeptUnlessDisturbed'
  <1> SUFFICES ASSUME ~disturbed' PROVE Kept'
    BY DEF KeptUnlessDisturbed
  <1>1. /\ ~disturbed /\ (request[w].client = Elsewhere => row'.refreshToken = row.refreshToken)
        /\ Save(w) /\ UNCHANGED <<cookie, tab, rejected, expired>>
    BY DEF SaveRow, Save, browserVars
  <1>2. Kept
    BY <1>1 DEF KeptUnlessDisturbed
  <1>3. request[w] # Free /\ Saved(w)
    BY <1>1, SaveFacts
  <1>4. \A v \in HttpWorkers : /\ OfTab(v)' <=> OfTab(v)
                               /\ OfTab(v) => /\ request'[v].client = request[v].client
                                              /\ request'[v].op = request[v].op
                                              /\ request'[v].reply = request[v].reply
                                              /\ v # w => request'[v].saves = request[v].saves
    BY <1>3 DEF Saved, OfTab
  <1>5. CASE OfTab(w)
    <2>1. Given(w) /\ \A v \in HttpWorkers : OfTab(v) => v = w
      BY <1>2, <1>5 DEF Kept
    <2>2. /\ Len(request[w].saves) = 1 /\ request[w].saves[1].refreshToken = request[w].reply.token
      <3>1. request[w].saves # <<>>
        BY <1>1 DEF Save
      <3> QED
        BY <2>1, <3>1 DEF Given
    <2>3. request'[w].saves = <<>>
      <3>1. PICK q : q = request'[w].saves
        OBVIOUS
      <3>2. q \in Seq(Row) /\ Len(q) = 0
        <4>1. request'[w] \in Request /\ Len(q) = 0
          BY <1>3, <2>2, <3>1 DEF Saved
        <4> QED
          BY <3>1, <4>1 DEF Request
      <3> QED
        BY <3>1, <3>2, EmptySeq
    <2>4. row'.refreshToken = request[w].reply.token
      BY <1>3, <2>2 DEF Saved
    <2>5. Given(w)'
      BY <1>1, <1>4, <1>5, <2>1, <2>3, <2>4 DEF Given
    <2> QED
      BY <1>1, <1>2, <1>4, <1>5, <2>1, <2>3, <2>5 DEF Kept
  <1>6. CASE ~OfTab(w)
    <2>1. row'.refreshToken = row.refreshToken
      <3>1. request[w].client = Elsewhere
        BY <1>3, <1>6, AccountRequestFacts, SessionAssumption DEF OfTab
      <3> QED
        BY <1>1, <3>1
    <2>2. \A v \in HttpWorkers : OfTab(v) => v # w /\ Given(v)
      BY <1>2, <1>6 DEF Kept
    <2>3. \A v \in HttpWorkers : OfTab(v)' => Given(v)'
      BY <1>1, <1>4, <2>1, <2>2 DEF Given
    <2> QED
      BY <1>1, <1>2, <1>4, <2>1, <2>2, <2>3 DEF Kept
  <1> QED
    BY <1>5, <1>6

LEMMA OthersKeepSession ==
  ASSUME KeptUnlessDisturbed, AccountsTypeOK, NEW w \in HttpWorkers, NEW op \in Operations, NEW entered,
         AnswerElsewhere(w) \/ AskElsewhere(w, op, entered)
  PROVE  KeptUnlessDisturbed'
  <1> SUFFICES ASSUME ~disturbed' PROVE Kept'
    BY DEF KeptUnlessDisturbed
  <1>1. /\ disturbed' = disturbed /\ UNCHANGED <<cookie, tab, rejected, row, expired>>
    BY DEF AnswerElsewhere, AskElsewhere, browserVars, historyVars, Reply_, Load
  <1>2. Kept
    BY <1>1 DEF KeptUnlessDisturbed
  <1>3. ~OfTab(w) /\ ~OfTab(w)' /\ \A v \in HttpWorkers \ {w} : request'[v] = request[v]
    <2>1. CASE AnswerElsewhere(w)
      <3>1. ~OfTab(w)
        BY <1>2, <2>1 DEF AnswerElsewhere, Awaited, Kept, Given, OfTab
      <3>2. request' = [request EXCEPT ![w] = Free]
        BY <2>1 DEF AnswerElsewhere, Reply_
      <3> QED
        BY <3>1, <3>2 DEF OfTab, AccountsTypeOK
    <2>2. CASE AskElsewhere(w, op, entered)
      <3>1. Load(w, Elsewhere, op, entered) /\ Elsewhere \in Clients /\ Elsewhere \notin Tabs
        BY <2>2, SessionAssumption DEF AskElsewhere
      <3>2. \E o \in Outcomes(op, row, entered, issued + 1) : Loaded(w, Elsewhere, op, o)
        BY <3>1, LoadFacts
      <3> QED
        BY <3>1, <3>2 DEF Loaded, OfTab, Load
    <2> QED
      BY <2>1, <2>2
  <1>4. \A v \in HttpWorkers : /\ OfTab(v)' <=> OfTab(v)
                               /\ OfTab(v) => request'[v] = request[v] /\ Given(v)
    BY <1>2, <1>3 DEF OfTab, Kept
  <1>5. \A v \in HttpWorkers : OfTab(v)' => Given(v)'
    BY <1>1, <1>4 DEF Given
  <1> QED
    BY <1>1, <1>2, <1>4, <1>5 DEF Kept

LEMMA ExpireKeepsSession ==
  ASSUME KeptUnlessDisturbed, BrowserTypes, NEW id, ExpireId(id)
  PROVE  KeptUnlessDisturbed'
  <1> SUFFICES ASSUME ~disturbed' PROVE Kept'
    BY DEF KeptUnlessDisturbed
  <1>1. /\ ~disturbed /\ id # cookie /\ expired' = expired \cup {id}
        /\ UNCHANGED <<cookie, tab, rejected, row, request>>
        /\ \A w \in HttpWorkers : ~OfTab(w)
    BY DEF ExpireId, Expire, browserVars, OfTab
  <1>2. Kept
    BY <1>1 DEF KeptUnlessDisturbed
  <1> QED
    BY <1>1, <1>2 DEF Kept, OfTab

LEMMA KeptStep ==
  ASSUME KeptUnlessDisturbed, BrowserIInv, AccountsIInv, [Next]_vars
  PROVE  KeptUnlessDisturbed'
  <1>0. BrowserTypes /\ AccountsTypeOK
    BY DEF BrowserIInv, AccountsIInv
  <1>1. ASSUME NEW c \in Calls, NEW t \in Tabs, NEW kind, StartCall(c, t, kind) PROVE KeptUnlessDisturbed'
    BY <1>0, <1>1, StartCallKeepsSession
  <1>2. ASSUME NEW c \in Calls, Succeed(c) \/ Error(c) \/ Unauthorized(c) PROVE KeptUnlessDisturbed'
    BY <1>0, <1>2, CallsKeepSession
  <1>3. ASSUME NEW t \in Tabs, CoolDown(t) \/ Reload(t) PROVE KeptUnlessDisturbed'
    BY <1>0, <1>3, TabStepKeepsSession
  <1>4. CASE AccessAges \/ UNCHANGED vars
    <2>1. disturbed' = disturbed /\ UNCHANGED <<cookie, row, request, expired, rejected, tab>>
      BY <1>4 DEF AccessAges, vars, accountVars, browserVars, historyVars
    <2> QED
      BY <2>1, KeptSame
  <1>5. ASSUME NEW w \in HttpWorkers, NEW t \in Tabs, LoadRefresh(w, t) PROVE KeptUnlessDisturbed'
    BY <1>0, <1>5, LoadRefreshKeepsSession
  <1>6. ASSUME NEW w \in HttpWorkers, AnswerRefresh(w) PROVE KeptUnlessDisturbed'
    BY <1>0, <1>6, AnswerKeepsSession
  <1>7. ASSUME NEW w \in HttpWorkers, LoseAnswer(w) PROVE KeptUnlessDisturbed'
    BY <1>7 DEF LoseAnswer, KeptUnlessDisturbed
  <1>8. ASSUME NEW w \in HttpWorkers, SaveRow(w) PROVE KeptUnlessDisturbed'
    BY <1>0, <1>8, SaveKeepsSession
  <1>9. ASSUME NEW w \in HttpWorkers, NEW op \in Operations, NEW entered,
               AnswerElsewhere(w) \/ AskElsewhere(w, op, entered)
        PROVE  KeptUnlessDisturbed'
    BY <1>0, <1>9, OthersKeepSession
  <1>10. ASSUME NEW w \in HttpWorkers, AnswerElsewhere(w) PROVE KeptUnlessDisturbed'
    <2>1. "login" \in Operations
      BY DEF Operations
    <2> QED
      BY <1>9, <1>10, <2>1
  <1>11. ASSUME NEW id, ExpireId(id) PROVE KeptUnlessDisturbed'
    BY <1>0, <1>11, ExpireKeepsSession
  <1> QED
    BY <1>1, <1>2, <1>3, <1>4, <1>5, <1>6, <1>7, <1>8, <1>9, <1>10, <1>11 DEF Next

\* A browser keeps its session: the server never refuses a refresh, for any number of
\* tabs, calls, workers and requests, unless another client, another tab, a lost answer,
\* an expiry or a save that undid another came between (api.ts, refreshAccessToken;
\* auth.controller.js, refreshToken).
THEOREM SessionsAreKept == Spec => []KeepsSession
  <1>1. BrowserIInv /\ KeptUnlessDisturbed => KeepsSession
    BY DEF BrowserIInv, BrowserTypes, KeptUnlessDisturbed, Kept, KeepsSession
  <1>2. Init => AccountsIInv /\ BrowserIInv /\ KeptUnlessDisturbed
    BY AccountsInitIInv, BrowserInitIInv, KeptInit DEF Init
  <1> QED
    BY <1>1, <1>2, AccountStep, BrowserStep, KeptStep, PTL DEF Spec
===============================================================================
