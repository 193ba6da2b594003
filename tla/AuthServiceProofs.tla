--------------------------- MODULE AuthServiceProofs ---------------------------
(***************************************************************************)
(* Theorems of AuthService, for every set of accounts, tokens and requests *)
(* and every lifetime.                                                     *)
(***************************************************************************)
EXTENDS AuthService, FiniteSetTheorems, TLAPS

(* The rows and the local state of a request, as the steps below need them. *)
LEMMA IdleIsRequest == Idle \in Request
  BY DEF Idle, Request, PC, Role

LEMMA NoRowIsNoRow == NoRow \notin UserRow /\ NoRow \notin RefreshRow /\ NoRow \notin OneTimeRow
  BY NoRowAssumption DEF UserRow, RefreshRow, OneTimeRow

LEMMA InitTypeOK == Init => TypeOK
  BY IdleIsRequest DEF Init, TypeOK, Typed, RequestNamesRows, TokensNameUsers, Exists, Idle

LEMMA WorkedTyped ==
  ASSUME Typed, NEW t \in Token, Worked(t)
  PROVE  late' \in [Token -> Nat]
  BY DEF Worked, Typed

(* Typed is preserved, action by action. *)
LEMMA TypedStep == TypeOK /\ [Next]_vars => Typed'
  <1> SUFFICES ASSUME TypeOK, [Next]_vars PROVE Typed'
    OBVIOUS
  <1> USE ConstantsAssumption, IdleIsRequest
  <1>1. CASE Tick
    BY <1>1 DEF Tick, TypeOK, Typed, history
  <1>2. ASSUME NEW p \in Proc, NEW e \in Email, NEW pw \in Password, Register(p, e, pw)
        PROVE  Typed'
    BY <1>2 DEF Register, CreateUser, BeginIssue, Goto, Starts, TypeOK, Typed,
                UserRow, Role, Request, PC, Idle
  <1>3. ASSUME NEW p \in Proc, NEW e \in Email, NEW pw \in Password, Login(p, e, pw)
        PROVE  Typed'
    BY <1>3 DEF Login, BeginIssue, Goto, TypeOK, Typed, Request, PC, Idle, history
  <1>4. ASSUME NEW p \in Proc, NEW t \in Token, RefreshCheck(p, t)
        PROVE  Typed'
    BY <1>4 DEF RefreshCheck, Refreshable, Goto, TypeOK, Typed, RefreshRow, Request, PC, Idle,
                history
  <1>5. ASSUME NEW p \in Proc, RefreshRevoke(p)
        PROVE  Typed'
    <2>1. req[p].token \in Token /\ refresh[req[p].token] \in RefreshRow
      BY <1>5 DEF RefreshRevoke, TypeOK, Typed, RequestNamesRows
    <2>2. refresh' \in [Token -> RefreshRow \union {NoRow}]
      BY <1>5, <2>1 DEF RefreshRevoke, RevokeRefreshToken, TypeOK, Typed, RefreshRow
    <2>3. req' \in [Proc -> Request]
      BY <1>5, <2>1 DEF RefreshRevoke, BeginIssue, Goto, TypeOK, Typed, Request, PC, Idle
    <2> QED
      BY <1>5, <2>2, <2>3 DEF RefreshRevoke, TypeOK, Typed, history
  <1>6. ASSUME NEW p \in Proc, IssueStamp(p)
        PROVE  Typed'
    BY <1>6 DEF IssueStamp, Goto, TypeOK, Typed, Request, PC, history
  <1>7. ASSUME NEW p \in Proc, IssueRead(p)
        PROVE  Typed'
    <2> DEFINE row == users[req[p].user]
    <2>1. row \in UserRow /\ row.role \in Role
      BY <1>7 DEF IssueRead, TypeOK, Typed, RequestNamesRows, Exists, UserRow
    <2>2. [req[p] EXCEPT !.pc = "save", !.role = row.role] \in Request
      BY <2>1 DEF TypeOK, Typed, Request, PC
    <2>3. req' \in [Proc -> Request]
      BY <1>7, <2>2 DEF IssueRead, Goto, TypeOK, Typed
    <2> QED
      BY <1>7, <2>3 DEF IssueRead, TypeOK, Typed, history
  <1>8. ASSUME NEW p \in Proc, IssueSave(p)
        PROVE  Typed'
    BY <1>8 DEF IssueSave, SaveRefreshToken, AccessExpiry, RefreshExpiry, Goto, TypeOK, Typed,
                RequestNamesRows, RefreshRow, AccessToken, Request, PC, history
  <1>9. ASSUME NEW p \in Proc, NEW e \in Email,
               RequestPasswordReset(p, e) \/ RequestEmailVerification(p, e)
        PROVE  Typed'
    <2>1. req' \in [Proc -> Request]
      <3>1. CASE RequestPasswordReset(p, e)
        BY <3>1 DEF RequestPasswordReset, Goto, TypeOK, Typed, Request, PC, Idle
      <3>2. CASE RequestEmailVerification(p, e)
        BY <3>2 DEF RequestEmailVerification, Goto, TypeOK, Typed, Request, PC, Idle
      <3> QED
        BY <1>9, <3>1, <3>2
    <2> QED
      BY <1>9, <2>1 DEF RequestPasswordReset, RequestEmailVerification, TypeOK, Typed, history
  <1>10. ASSUME NEW p \in Proc, NEW kind \in {"reset", "verify"}, NEW ttl \in Nat,
                SaveOneTime(p, kind, ttl)
         PROVE  Typed'
    <2>1. req[p] \in Request /\ req[p].user \in Email /\ now + ttl \in Nat
      BY <1>10 DEF SaveOneTime, TypeOK, Typed, RequestNamesRows
    <2>2. PICK t \in Token :
             /\ onetime' = SaveOneTimeToken(t, kind, req[p].user, now + ttl)
             /\ Goto(p, [req[p] EXCEPT !.pc = "mail", !.token = t])
      BY <1>10 DEF SaveOneTime
    <2>3. onetime' \in [Token -> OneTimeRow \union {NoRow}]
      BY <2>1, <2>2 DEF SaveOneTimeToken, TypeOK, Typed, OneTimeRow
    <2>4. req' \in [Proc -> Request]
      BY <2>1, <2>2 DEF Goto, TypeOK, Typed, Request, PC
    <2> QED
      BY <1>10, <2>3, <2>4 DEF SaveOneTime, TypeOK, Typed, history
  <1>11. ASSUME NEW p \in Proc, SendEmail(p)
         PROVE  Typed'
    BY <1>11 DEF SendEmail, Goto, TypeOK, Typed, RequestNamesRows, history
  <1>12. ASSUME NEW p \in Proc, NEW t \in Token, NEW pw \in Password, ConfirmPasswordReset(p, t, pw)
         PROVE  Typed'
    BY <1>12 DEF ConfirmPasswordReset, Redeemable, Goto, TypeOK, Typed, TokensNameUsers,
                 OneTimeRow, Request, PC, Idle, history
  <1>13. ASSUME NEW p \in Proc, SetPassword(p)
         PROVE  Typed'
    <2>1. /\ req[p].token \in Token
          /\ req[p].user \in Email
          /\ users[req[p].user] \in UserRow
          /\ req[p].password \in Password
      BY <1>13 DEF SetPassword, TypeOK, Typed, RequestNamesRows, Exists
    <2>2. users' \in [Email -> UserRow \union {NoRow}]
      BY <1>13, <2>1 DEF SetPassword, UpdateUserPassword, TypeOK, Typed, UserRow
    <2>3. req' \in [Proc -> Request]
      BY <1>13, <2>1 DEF SetPassword, Goto, TypeOK, Typed, Request, PC, Idle
    <2> QED
      BY <1>13, <2>1, <2>2, <2>3, WorkedTyped DEF SetPassword, TypeOK, Typed
  <1>14. ASSUME NEW p \in Proc, NEW t \in Token, VerifyEmail(p, t)
         PROVE  Typed'
    BY <1>14 DEF VerifyEmail, Redeemable, Goto, TypeOK, Typed, TokensNameUsers,
                 OneTimeRow, Request, PC, Idle, history
  <1>15. ASSUME NEW p \in Proc, MarkVerified(p)
         PROVE  Typed'
    <2>1. /\ req[p].token \in Token
          /\ req[p].user \in Email
          /\ users[req[p].user] \in UserRow
      BY <1>15 DEF MarkVerified, TypeOK, Typed, RequestNamesRows, Exists
    <2>2. users' \in [Email -> UserRow \union {NoRow}]
      BY <1>15, <2>1 DEF MarkVerified, MarkEmailVerified, TypeOK, Typed, UserRow
    <2>3. req' \in [Proc -> Request]
      BY <1>15, <2>1 DEF MarkVerified, Goto, TypeOK, Typed, Request, PC, Idle
    <2> QED
      BY <1>15, <2>1, <2>2, <2>3, WorkedTyped DEF MarkVerified, TypeOK, Typed
  <1>16. ASSUME NEW p \in Proc, UseToken(p)
         PROVE  Typed'
    <2>1. req[p].token \in Token /\ onetime[req[p].token] \in OneTimeRow
      BY <1>16 DEF UseToken, TypeOK, Typed, RequestNamesRows
    <2>2. onetime' \in [Token -> OneTimeRow \union {NoRow}]
      BY <1>16, <2>1 DEF UseToken, UseOneTimeToken, TypeOK, Typed, OneTimeRow
    <2> QED
      BY <1>16, <2>1, <2>2 DEF UseToken, Goto, TypeOK, Typed
  <1>17. ASSUME NEW p \in Proc, NEW e \in Email, NEW role \in Role, UpdateUserRole(p, e, role)
         PROVE  Typed'
    BY <1>17 DEF UpdateUserRole, RoleUpdated, Exists, TypeOK, Typed, UserRow
  <1>18. ASSUME NEW p \in Proc, NEW e \in Email, NEW b \in BOOLEAN, SetUserBlocked(p, e, b)
         PROVE  Typed'
    <2>1. users[e] \in UserRow /\ now \in Nat
      BY <1>18 DEF SetUserBlocked, Exists, TypeOK, Typed
    <2>2. users' \in [Email -> UserRow \union {NoRow}]
      BY <1>18, <2>1 DEF SetUserBlocked, BlockedUpdated, TypeOK, Typed, UserRow
    <2>3. req' \in [Proc -> Request]
      <3>1. [Idle EXCEPT !.pc = "revokeAll", !.user = e] \in Request
        BY DEF Request, PC, Idle, Role
      <3>2. \/ req' = [req EXCEPT ![p] = [Idle EXCEPT !.pc = "revokeAll", !.user = e]]
            \/ req' = req
        BY <1>18 DEF SetUserBlocked, Goto
      <3> QED
        BY <3>1, <3>2 DEF TypeOK, Typed
    <2> QED
      BY <1>18, <2>2, <2>3 DEF SetUserBlocked, TypeOK, Typed
  <1>19. ASSUME NEW p \in Proc, RevokeAll(p)
         PROVE  Typed'
    <2>1. req[p].user \in Email
      BY <1>19 DEF RevokeAll, TypeOK, RequestNamesRows
    <2>2. refresh' \in [Token -> RefreshRow \union {NoRow}]
      <3>1. ASSUME NEW t \in Token, refresh[t] # NoRow
            PROVE  [refresh[t] EXCEPT !.revoked = TRUE] \in RefreshRow
        BY <3>1 DEF TypeOK, Typed, RefreshRow
      <3> QED
        BY <1>19, <3>1 DEF RevokeAll, RevokeAllUserRefreshTokens, TypeOK, Typed
    <2> QED
      BY <1>19, <2>1, <2>2 DEF RevokeAll, Goto, TypeOK, Typed
  <1>20. ASSUME NEW p \in Proc, Abort(p)
         PROVE  Typed'
    BY <1>20 DEF Abort, Goto, TypeOK, Typed, history
  <1>21. CASE UNCHANGED vars
    BY <1>21 DEF vars, TypeOK, Typed
  <1> QED
    BY <1>1, <1>2, <1>3, <1>4, <1>5, <1>6, <1>7, <1>8, <1>9, <1>10, <1>11, <1>12, <1>13,
       <1>14, <1>15, <1>16, <1>17, <1>18, <1>19, <1>20, <1>21
    DEF Next, Serve, SavePasswordResetToken, SaveEmailVerificationToken

-----------------------------------------------------------------------------
(* The tables, one statement at a time: rows appear, are never removed, and
   keep their owner and kind. *)
LEMMA UsersPersist ==
  ASSUME TypeOK, [Next]_vars, NEW e \in Email, Exists(e)
  PROVE  Exists(e)'
  <1> USE NoRowIsNoRow DEF Exists, TypeOK, Typed
  <1>1. users[e] \in UserRow /\ now \in Nat
    OBVIOUS
  <1>2. CASE users' = users
    BY <1>2
  <1>3. ASSUME NEW p \in Proc, NEW f \in Email, NEW pw \in Password, Register(p, f, pw)
        PROVE  Exists(e)'
    BY <1>1, <1>3 DEF Register, CreateUser
  <1>4. ASSUME NEW p \in Proc, SetPassword(p)
        PROVE  Exists(e)'
    <2>1. req[p].password \in Password
      BY <1>4 DEF SetPassword, RequestNamesRows
    <2>2. [users[e] EXCEPT !.password = req[p].password] \in UserRow
      BY <1>1, <2>1 DEF UserRow
    <2>3. users'[e] \in {users[e], [users[e] EXCEPT !.password = req[p].password]}
      BY <1>4 DEF SetPassword, UpdateUserPassword
    <2> QED
      BY <1>1, <2>2, <2>3
  <1>5. ASSUME NEW p \in Proc, MarkVerified(p)
        PROVE  Exists(e)'
    <2>1. [users[e] EXCEPT !.verified = TRUE] \in UserRow
      BY <1>1 DEF UserRow
    <2>2. users'[e] \in {users[e], [users[e] EXCEPT !.verified = TRUE]}
      BY <1>5 DEF MarkVerified, MarkEmailVerified
    <2> QED
      BY <1>1, <2>1, <2>2
  <1>6. ASSUME NEW p \in Proc, NEW f \in Email, NEW role \in Role, UpdateUserRole(p, f, role)
        PROVE  Exists(e)'
    <2>1. [users[e] EXCEPT !.role = role] \in UserRow
      BY <1>1 DEF UserRow
    <2>2. users'[e] \in {users[e], [users[e] EXCEPT !.role = role]}
      BY <1>6 DEF UpdateUserRole, RoleUpdated
    <2> QED
      BY <1>1, <2>1, <2>2
  <1>7. ASSUME NEW p \in Proc, NEW f \in Email, NEW b \in BOOLEAN, SetUserBlocked(p, f, b)
        PROVE  Exists(e)'
    <2>1. users'[e] \in {users[e], [users[e] EXCEPT !.blocked = b]}
      BY <1>7 DEF SetUserBlocked, BlockedUpdated
    <2>2. [users[e] EXCEPT !.blocked = b] \in UserRow
      BY <1>1 DEF UserRow
    <2> QED
      BY <1>1, <2>1, <2>2
  <1>8. ASSUME NEW p \in Proc, Serve(p), users' # users
        PROVE  \/ \E f \in Email, pw \in Password : Register(p, f, pw)
               \/ SetPassword(p) \/ MarkVerified(p)
               \/ \E f \in Email, role \in Role : UpdateUserRole(p, f, role)
               \/ \E f \in Email, b \in BOOLEAN : SetUserBlocked(p, f, b)
    BY <1>8 DEF Serve, Login, RefreshCheck, RefreshRevoke, IssueStamp, IssueRead, IssueSave,
                RequestPasswordReset, RequestEmailVerification, SavePasswordResetToken,
                SaveEmailVerificationToken, SaveOneTime, SendEmail, ConfirmPasswordReset,
                VerifyEmail, UseToken, RevokeAll, Abort
  <1> QED
    BY <1>2, <1>3, <1>4, <1>5, <1>6, <1>7, <1>8 DEF Next, Tick, vars

LEMMA RefreshPersists ==
  ASSUME TypeOK, [Next]_vars, NEW t \in Token, refresh[t] # NoRow
  PROVE  /\ refresh'[t] # NoRow
         /\ refresh'[t].user = refresh[t].user
         /\ refresh'[t].exp = refresh[t].exp
         /\ refresh'[t].parent = refresh[t].parent
         /\ refresh[t].revoked => refresh'[t].revoked
  <1> USE NoRowIsNoRow DEF TypeOK, Typed
  <1>1. refresh[t] \in RefreshRow
    OBVIOUS
  <1>2. [refresh[t] EXCEPT !.revoked = TRUE] \in RefreshRow
    BY <1>1 DEF RefreshRow
  <1>3. CASE refresh' = refresh
    BY <1>1, <1>3
  <1>4. CASE refresh'[t] = [refresh[t] EXCEPT !.revoked = TRUE]
    BY <1>1, <1>2, <1>4 DEF RefreshRow
  <1>5. ASSUME NEW p \in Proc, RefreshRevoke(p)
        PROVE  refresh'[t] = refresh[t] \/ refresh'[t] = [refresh[t] EXCEPT !.revoked = TRUE]
    BY <1>1, <1>5 DEF RefreshRevoke, RevokeRefreshToken
  <1>6. ASSUME NEW p \in Proc, IssueSave(p)
        PROVE  refresh'[t] = refresh[t]
    BY <1>1, <1>6 DEF IssueSave, SaveRefreshToken, Fresh
  <1>7. ASSUME NEW p \in Proc, RevokeAll(p)
        PROVE  refresh'[t] = refresh[t] \/ refresh'[t] = [refresh[t] EXCEPT !.revoked = TRUE]
    BY <1>1, <1>7 DEF RevokeAll, RevokeAllUserRefreshTokens
  <1>8. ASSUME NEW p \in Proc, Serve(p), refresh' # refresh
        PROVE  RefreshRevoke(p) \/ IssueSave(p) \/ RevokeAll(p)
    BY <1>8 DEF Serve, Register, Login, RefreshCheck, IssueStamp, IssueRead,
                RequestPasswordReset, RequestEmailVerification, SavePasswordResetToken,
                SaveEmailVerificationToken, SaveOneTime, SendEmail, ConfirmPasswordReset,
                SetPassword, VerifyEmail, MarkVerified, UseToken, UpdateUserRole,
                SetUserBlocked, Abort
  <1>9. CASE refresh'[t] = refresh[t]
    BY <1>1, <1>9
  <1> QED
    BY <1>3, <1>4, <1>5, <1>6, <1>7, <1>8, <1>9 DEF Next, Tick, vars

LEMMA OneTimePersists ==
  ASSUME TypeOK, [Next]_vars, NEW t \in Token, onetime[t] # NoRow
  PROVE  /\ onetime'[t] # NoRow
         /\ onetime'[t].user = onetime[t].user
         /\ onetime'[t].kind = onetime[t].kind
         /\ onetime[t].used => onetime'[t].used
  <1> USE NoRowIsNoRow DEF TypeOK, Typed
  <1>1. onetime[t] \in OneTimeRow
    OBVIOUS
  <1>2. [onetime[t] EXCEPT !.used = TRUE] \in OneTimeRow
    BY <1>1 DEF OneTimeRow
  <1>3. CASE onetime'[t] = onetime[t]
    BY <1>1, <1>3
  <1>4. CASE onetime'[t] = [onetime[t] EXCEPT !.used = TRUE]
    BY <1>1, <1>2, <1>4 DEF OneTimeRow
  <1>5. ASSUME NEW p \in Proc, NEW kind, NEW ttl, SaveOneTime(p, kind, ttl)
        PROVE  onetime'[t] = onetime[t]
    BY <1>1, <1>5 DEF SaveOneTime, SaveOneTimeToken, Fresh
  <1>6. ASSUME NEW p \in Proc, UseToken(p)
        PROVE  onetime'[t] = onetime[t] \/ onetime'[t] = [onetime[t] EXCEPT !.used = TRUE]
    BY <1>1, <1>6 DEF UseToken, UseOneTimeToken
  <1>7. ASSUME NEW p \in Proc, Serve(p), onetime' # onetime
        PROVE  (\E kind, ttl : SaveOneTime(p, kind, ttl)) \/ UseToken(p)
    BY <1>7 DEF Serve, Register, Login, RefreshCheck, RefreshRevoke, IssueStamp, IssueRead,
                IssueSave, RequestPasswordReset, RequestEmailVerification,
                SavePasswordResetToken, SaveEmailVerificationToken, SendEmail,
                ConfirmPasswordReset, SetPassword, VerifyEmail, MarkVerified,
                UpdateUserRole, SetUserBlocked, RevokeAll, Abort
  <1> QED
    BY <1>3, <1>4, <1>5, <1>6, <1>7 DEF Next, Tick, vars

-----------------------------------------------------------------------------
(* A step of one request leaves the others where they are. *)
LEMMA OthersStay ==
  ASSUME TypeOK, NEW p \in Proc, NEW q \in Proc, q # p, Serve(p)
  PROVE  req'[q] = req[q]
  <1>1. req' = req \/ \E r : req' = [req EXCEPT ![p] = r]
    BY DEF Serve, Register, Login, RefreshCheck, RefreshRevoke, IssueStamp, IssueRead,
           IssueSave, RequestPasswordReset, RequestEmailVerification, SavePasswordResetToken,
           SaveEmailVerificationToken, SaveOneTime, SendEmail, ConfirmPasswordReset, SetPassword,
           VerifyEmail, MarkVerified, UseToken, UpdateUserRole, SetUserBlocked, RevokeAll,
           Abort, BeginIssue, Goto
  <1> QED
    BY <1>1 DEF TypeOK, Typed

LEMMA RequestsStep ==
  ASSUME TypeOK, [Next]_vars, NEW q \in Proc
  PROVE  RequestNamesRows(req[q])'
  <1> DEFINE r == req[q]
             s == req'[q]
  <1>1. /\ r \in Request
        /\ RequestNamesRows(r)
        /\ \A t \in Token : refresh[t] # NoRow => Exists(refresh[t].user) /\ refresh[t].user \in Email
        /\ \A t \in Token : onetime[t] # NoRow => Exists(onetime[t].user) /\ onetime[t].user \in Email
        /\ \A t \in mailed : t \in Token /\ onetime[t] # NoRow
    BY DEF TypeOK, Typed, TokensNameUsers, RefreshRow, OneTimeRow
  <1>2. /\ \A e \in Email : Exists(e) => Exists(e)'
        /\ \A t \in Token : refresh[t] # NoRow => refresh'[t] # NoRow
        /\ \A t \in Token : onetime[t] # NoRow => onetime'[t] # NoRow
    BY UsersPersist, RefreshPersists, OneTimePersists
  <1>3. CASE s = r
    BY <1>1, <1>2, <1>3 DEF RequestNamesRows
  <1>4. CASE s = Idle
    BY <1>4 DEF RequestNamesRows, Idle
  <1>5. ASSUME NEW e \in Email, NEW pw \in Password, Register(q, e, pw)
        PROVE  RequestNamesRows(req[q])'
    <2>1. users'[e] # NoRow
      <3> DEFINE row(role) == [password |-> pw, verified |-> FALSE, role |-> role,
                               blocked |-> FALSE]
      <3>1. row("admin") \in UserRow /\ row("user") \in UserRow
        BY DEF UserRow, Role
      <3>2. users'[e] = row("admin") \/ users'[e] = row("user")
        BY <1>5 DEF Register, CreateUser, TypeOK, Typed
      <3> HIDE DEF row
      <3> QED
        BY <3>1, <3>2, NoRowIsNoRow
    <2> QED
      BY <1>1, <1>5, <2>1 DEF Register, BeginIssue, Goto, TypeOK, Typed, RequestNamesRows,
                              Exists, Idle
  <1>6. ASSUME NEW e \in Email, NEW pw \in Password, Login(q, e, pw)
        PROVE  RequestNamesRows(req[q])'
    BY <1>1, <1>2, <1>6 DEF Login, BeginIssue, Goto, TypeOK, Typed, RequestNamesRows, Idle
  <1>7. ASSUME NEW t \in Token, RefreshCheck(q, t)
        PROVE  RequestNamesRows(req[q])'
    BY <1>1, <1>2, <1>7 DEF RefreshCheck, Refreshable, Goto, TypeOK, Typed, RequestNamesRows, Idle
  <1>8. ASSUME RefreshRevoke(q)
        PROVE  RequestNamesRows(req[q])'
    BY <1>1, <1>2, <1>8 DEF RefreshRevoke, BeginIssue, Goto, TypeOK, Typed, RequestNamesRows, Idle
  <1>9. ASSUME IssueStamp(q) \/ IssueRead(q)
        PROVE  RequestNamesRows(req[q])'
    <2>1. CASE IssueStamp(q)
      BY <1>1, <1>2, <2>1 DEF IssueStamp, Goto, TypeOK, Typed, RequestNamesRows, Request
    <2>2. CASE IssueRead(q)
      BY <1>1, <1>2, <2>2 DEF IssueRead, Goto, TypeOK, Typed, RequestNamesRows, Request, Idle
    <2> QED BY <1>9, <2>1, <2>2
  <1>10. ASSUME NEW e \in Email, RequestPasswordReset(q, e) \/ RequestEmailVerification(q, e)
         PROVE  RequestNamesRows(req[q])'
    <2>1. CASE RequestPasswordReset(q, e)
      BY <1>1, <1>2, <2>1 DEF RequestPasswordReset, Goto, TypeOK, Typed, RequestNamesRows, Idle
    <2>2. CASE RequestEmailVerification(q, e)
      BY <1>1, <1>2, <2>2 DEF RequestEmailVerification, Goto, TypeOK, Typed, RequestNamesRows, Idle
    <2> QED BY <1>10, <2>1, <2>2
  <1>11. ASSUME NEW kind \in {"reset", "verify"}, NEW ttl \in Nat, SaveOneTime(q, kind, ttl)
         PROVE  RequestNamesRows(req[q])'
    <2>1. req[q].user \in Email /\ Exists(req[q].user) /\ now + ttl \in Nat
      BY <1>1, <1>11 DEF SaveOneTime, RequestNamesRows, TypeOK, Typed
    <2>2. PICK t \in Token :
             /\ onetime' = SaveOneTimeToken(t, kind, req[q].user, now + ttl)
             /\ req' = [req EXCEPT ![q] = [req[q] EXCEPT !.pc = "mail", !.token = t]]
      BY <1>11 DEF SaveOneTime, Goto
    <2>3. onetime'[t] \in OneTimeRow
      BY <2>1, <2>2 DEF SaveOneTimeToken, TypeOK, Typed, OneTimeRow
    <2>4. s.pc = "mail" /\ s.token = t /\ s.user = req[q].user
      BY <1>1, <2>2 DEF TypeOK, Typed, Request
    <2> QED
      BY <1>2, <2>1, <2>3, <2>4, NoRowIsNoRow DEF RequestNamesRows
  <1>12. ASSUME NEW t \in Token, NEW pw \in Password, ConfirmPasswordReset(q, t, pw)
         PROVE  RequestNamesRows(req[q])'
    BY <1>1, <1>2, <1>12 DEF ConfirmPasswordReset, Redeemable, Goto, TypeOK, Typed,
                             RequestNamesRows, Idle
  <1>13. ASSUME NEW t \in Token, VerifyEmail(q, t)
         PROVE  RequestNamesRows(req[q])'
    BY <1>1, <1>2, <1>13 DEF VerifyEmail, Redeemable, Goto, TypeOK, Typed, RequestNamesRows, Idle
  <1>14. ASSUME SetPassword(q) \/ MarkVerified(q)
         PROVE  RequestNamesRows(req[q])'
    <2>1. s = [Idle EXCEPT !.pc = "useToken", !.token = r.token]
      BY <1>14 DEF SetPassword, MarkVerified, Goto, TypeOK, Typed
    <2>2. r.token \in Token /\ onetime[r.token] # NoRow
      BY <1>1, <1>14 DEF SetPassword, MarkVerified, RequestNamesRows
    <2> QED
      BY <1>2, <2>1, <2>2 DEF RequestNamesRows, Idle
  <1>15. ASSUME NEW e \in Email, NEW b \in BOOLEAN, SetUserBlocked(q, e, b)
         PROVE  RequestNamesRows(req[q])'
    <2>1. s = r \/ s = [Idle EXCEPT !.pc = "revokeAll", !.user = e]
      BY <1>15 DEF SetUserBlocked, Goto, TypeOK, Typed
    <2> QED
      BY <1>2, <1>3, <1>15, <2>1 DEF SetUserBlocked, RequestNamesRows, Idle
  <1>16. ASSUME SendEmail(q) \/ IssueSave(q) \/ UseToken(q) \/ RevokeAll(q) \/ Abort(q)
         PROVE  s = Idle
    BY <1>16 DEF SendEmail, IssueSave, UseToken, RevokeAll, Abort, Goto, TypeOK, Typed
  <1>17. ASSUME NEW e \in Email, NEW role \in Role, UpdateUserRole(q, e, role)
         PROVE  s = r
    BY <1>17 DEF UpdateUserRole
  <1>18. ASSUME Serve(q)
         PROVE  RequestNamesRows(req[q])'
    BY <1>3, <1>4, <1>5, <1>6, <1>7, <1>8, <1>9, <1>10, <1>11, <1>12, <1>13, <1>14, <1>15,
       <1>16, <1>17, <1>18, ConstantsAssumption
    DEF Serve, SavePasswordResetToken, SaveEmailVerificationToken
  <1> QED
    BY <1>3, <1>18, OthersStay DEF Next, Tick, vars

(* A new row of refresh_tokens comes from SaveRefreshToken alone. *)
LEMMA NewRefreshRow ==
  ASSUME TypeOK, [Next]_vars, NEW t \in Token, refresh[t] = NoRow, refresh'[t] # NoRow
  PROVE  \E p \in Proc : IssueSave(p)
  BY DEF Next, Serve, Tick, vars, Register, Login, RefreshCheck, RefreshRevoke,
         RevokeRefreshToken, IssueStamp, IssueRead, RequestPasswordReset,
         RequestEmailVerification, SavePasswordResetToken, SaveEmailVerificationToken,
         SaveOneTime, SendEmail, ConfirmPasswordReset, SetPassword, VerifyEmail, MarkVerified,
         UseToken, UpdateUserRole, SetUserBlocked, RevokeAll, RevokeAllUserRefreshTokens, Abort,
         TypeOK, Typed, RequestNamesRows

LEMMA TokensStep ==
  ASSUME TypeOK, [Next]_vars
  PROVE  TokensNameUsers'
  <1>1. Typed' /\ Typed
    BY TypedStep DEF TypeOK
  <1>2. ASSUME NEW e \in Email, Exists(e)
        PROVE  Exists(e)'
    BY <1>2, UsersPersist
  <1>3. ASSUME NEW t \in Token, refresh'[t] # NoRow
        PROVE  Exists(refresh[t].user)'
    <2>1. CASE refresh[t] # NoRow
      BY <1>1, <1>2, <2>1, RefreshPersists DEF TypeOK, TokensNameUsers, Typed, RefreshRow
    <2>2. CASE refresh[t] = NoRow
      <3>1. PICK p \in Proc : IssueSave(p)
        BY <1>3, <2>2, NewRefreshRow
      <3>2. req[p].user \in Email /\ Exists(req[p].user)
        BY <3>1 DEF IssueSave, TypeOK, RequestNamesRows
      <3>3. refresh'[t].user = req[p].user
        BY <1>1, <1>3, <2>2, <3>1 DEF IssueSave, SaveRefreshToken, Typed
      <3> QED
        BY <1>2, <3>2, <3>3
    <2> QED BY <2>1, <2>2
  <1>4. ASSUME NEW t \in Token, onetime'[t] # NoRow
        PROVE  Exists(onetime[t].user)'
    <2>1. CASE onetime[t] # NoRow
      BY <1>1, <1>2, <2>1, OneTimePersists DEF TypeOK, TokensNameUsers, Typed, OneTimeRow
    <2>2. CASE onetime[t] = NoRow
      <3>1. \E p \in Proc : \E kind, ttl : SaveOneTime(p, kind, ttl)
        BY <1>4, <2>2 DEF Next, Serve, Tick, vars, Register, Login, RefreshCheck, RefreshRevoke,
              IssueStamp, IssueRead, IssueSave,
              RequestPasswordReset, RequestEmailVerification, SavePasswordResetToken,
              SaveEmailVerificationToken, SendEmail, ConfirmPasswordReset,
              SetPassword, VerifyEmail, MarkVerified, UseToken, UseOneTimeToken, UpdateUserRole,
              SetUserBlocked, RevokeAll, Abort, TypeOK, Typed, RequestNamesRows
      <3>2. PICK p \in Proc : \E kind, ttl : SaveOneTime(p, kind, ttl)
        BY <3>1
      <3>3. req[p].user \in Email /\ Exists(req[p].user)
        BY <3>2 DEF SaveOneTime, TypeOK, RequestNamesRows
      <3>4. onetime'[t].user = req[p].user
        BY <1>1, <1>4, <2>2, <3>2 DEF SaveOneTime, SaveOneTimeToken, Typed
      <3> QED
        BY <1>2, <3>3, <3>4
    <2> QED BY <2>1, <2>2
  <1>5. ASSUME NEW t \in mailed'
        PROVE  onetime'[t] # NoRow
    <2>1. t \in mailed \/ \E p \in Proc : SendEmail(p) /\ t = req[p].token
      BY <1>5 DEF Next, Serve, Tick, vars, Register, Login, RefreshCheck, RefreshRevoke,
              IssueStamp, IssueRead, IssueSave,
              RequestPasswordReset, RequestEmailVerification, SavePasswordResetToken,
              SaveEmailVerificationToken, SaveOneTime, SendEmail, ConfirmPasswordReset,
              SetPassword, VerifyEmail, MarkVerified, UseToken, UpdateUserRole,
              SetUserBlocked, RevokeAll, Abort
    <2>2. t \in Token /\ onetime[t] # NoRow
      BY <1>1, <2>1 DEF SendEmail, TypeOK, Typed, RequestNamesRows, TokensNameUsers
    <2> QED
      BY <2>2, OneTimePersists
  <1>6. ASSUME NEW a \in access'
        PROVE  Exists(a.user)' /\ now' < a.exp
    <2>1. CASE a \in access /\ now' = now
      BY <1>1, <1>2, <2>1 DEF TypeOK, TokensNameUsers, Typed, AccessToken
    <2>2. CASE Tick
      BY <1>1, <1>2, <1>6, <2>2 DEF Tick, TypeOK, TokensNameUsers, Typed, AccessToken
    <2>3. ASSUME NEW p \in Proc, IssueSave(p), a \notin access
          PROVE  Exists(a.user)' /\ now' < a.exp
      <3>1. /\ now < a.exp
            /\ a.user = req[p].user
            /\ now' = now
        BY <1>6, <2>3 DEF IssueSave
      <3>2. req[p].user \in Email /\ Exists(req[p].user)
        BY <2>3 DEF IssueSave, TypeOK, RequestNamesRows
      <3> QED
        BY <1>2, <3>1, <3>2
    <2>4. ASSUME NEW p \in Proc, Serve(p)
          PROVE  now' = now /\ (IssueSave(p) \/ access' = access)
      BY <2>4 DEF Serve, Register, Login, RefreshCheck, RefreshRevoke, IssueStamp, IssueRead,
              IssueSave, RequestPasswordReset, RequestEmailVerification, SavePasswordResetToken,
              SaveEmailVerificationToken, SaveOneTime, SendEmail, ConfirmPasswordReset,
              SetPassword, VerifyEmail, MarkVerified, UseToken, UpdateUserRole,
              SetUserBlocked, RevokeAll, Abort
    <2> QED
      BY <1>6, <2>1, <2>2, <2>3, <2>4 DEF Next, vars
  <1> QED
    BY <1>3, <1>4, <1>5, <1>6 DEF TokensNameUsers

(* Every table, credential and request of a behaviour is well formed, and no
   token is ever left without its account. *)
THEOREM TypeCorrect == Spec => []TypeOK
  <1>1. TypeOK /\ [Next]_vars => TypeOK'
    BY TypedStep, RequestsStep, TokensStep DEF TypeOK
  <1> QED
    BY InitTypeOK, <1>1, PTL DEF Spec

-----------------------------------------------------------------------------
(* How a request comes to stand where it stands. *)
LEMMA RequestSteps ==
  ASSUME TypeOK, [Next]_vars, NEW q \in Proc, req'[q] # req[q]
  PROVE  /\ req'[q].pc = "issue" =>
               \/ /\ req'[q].token = NoToken
               \/ /\ RefreshRevoke(q)
                  /\ req'[q].token = req[q].token
         /\ req'[q].pc = "reread" =>
               IssueStamp(q) /\ req'[q] = [req[q] EXCEPT !.pc = "reread", !.stamp = now]
         /\ req'[q].pc = "save" =>
               /\ IssueRead(q)
               /\ req[q].pc = "reread"
               /\ ~users[req[q].user].blocked
               /\ req'[q] = [req[q] EXCEPT !.pc = "save", !.role = users[req[q].user].role]
         /\ req'[q].pc = "setPassword" =>
               req'[q].token \in mailed /\ onetime[req'[q].token].kind = "reset"
         /\ req'[q].pc = "markVerified" =>
               /\ req'[q].token \in mailed
               /\ onetime[req'[q].token].kind = "verify"
               /\ req'[q].user = onetime[req'[q].token].user
         /\ req'[q].pc = "useToken" =>
               (SetPassword(q) \/ MarkVerified(q)) /\ req'[q].token = req[q].token
         /\ (req'[q].pc = "revoke" => Refreshable(req'[q].token))
         /\ req'[q].pc \in {"setPassword", "markVerified"} => ~onetime[req'[q].token].used
  <1>1. PICK p \in Proc : Serve(p)
    BY DEF Next, Tick, vars
  <1>2. p = q
    BY <1>1, OthersStay
  <1>3. req[q] \in Request /\ req \in [Proc -> Request]
    BY DEF TypeOK, Typed
  <1>4. CASE req'[q] = Idle
    BY <1>4 DEF Idle
  <1>5. CASE \E e \in Email, pw \in Password : Register(q, e, pw) \/ Login(q, e, pw)
    <2>1. PICK e \in Email : req'[q] = [Idle EXCEPT !.pc = "issue", !.user = e, !.token = NoToken]
      BY <1>3, <1>5 DEF Register, Login, BeginIssue, Goto
    <2> QED
      BY <2>1 DEF Idle
  <1>6. CASE \E t \in Token : RefreshCheck(q, t)
    BY <1>3, <1>6 DEF RefreshCheck, Goto, Idle
  <1>7. CASE RefreshRevoke(q)
    BY <1>3, <1>7 DEF RefreshRevoke, BeginIssue, Goto, Idle
  <1>8. CASE IssueStamp(q)
    BY <1>3, <1>8 DEF IssueStamp, Goto, Request
  <1>9. CASE IssueRead(q)
    <2>1. CASE users[req[q].user].blocked
      BY <1>3, <1>4, <1>9, <2>1 DEF IssueRead, Goto
    <2>2. CASE ~users[req[q].user].blocked
      BY <1>3, <1>9, <2>2 DEF IssueRead, Goto, Request
    <2> QED BY <2>1, <2>2
  <1>10. CASE \E e \in Email : RequestPasswordReset(q, e) \/ RequestEmailVerification(q, e)
    <2>1. PICK e \in Email : RequestPasswordReset(q, e) \/ RequestEmailVerification(q, e)
      BY <1>10
    <2>2. CASE RequestPasswordReset(q, e)
      BY <1>3, <2>2 DEF RequestPasswordReset, Goto, Idle
    <2>3. CASE RequestEmailVerification(q, e)
      BY <1>3, <2>3 DEF RequestEmailVerification, Goto, Idle
    <2> QED
      BY <2>1, <2>2, <2>3
  <1>11. CASE \E kind, ttl : SaveOneTime(q, kind, ttl)
    <2>1. PICK t \in Token : req'[q] = [req[q] EXCEPT !.pc = "mail", !.token = t]
      BY <1>3, <1>11 DEF SaveOneTime, Goto
    <2> QED
      BY <1>3, <2>1 DEF Request
  <1>12. CASE \E t \in Token, pw \in Password : ConfirmPasswordReset(q, t, pw)
    BY <1>3, <1>12 DEF ConfirmPasswordReset, Redeemable, Goto, Idle
  <1>13. CASE \E t \in Token : VerifyEmail(q, t)
    BY <1>3, <1>13 DEF VerifyEmail, Redeemable, Goto, Idle
  <1>14. CASE SetPassword(q) \/ MarkVerified(q)
    BY <1>3, <1>14 DEF SetPassword, MarkVerified, Goto, Idle
  <1>15. CASE \E e \in Email, b \in BOOLEAN : SetUserBlocked(q, e, b)
    <2>1. PICK e \in Email : req'[q] = [Idle EXCEPT !.pc = "revokeAll", !.user = e]
      BY <1>3, <1>15 DEF SetUserBlocked, Goto
    <2> QED
      BY <2>1 DEF Idle
  <1>16. CASE IssueSave(q) \/ SendEmail(q) \/ UseToken(q) \/ RevokeAll(q) \/ Abort(q)
    <2>1. req'[q] = Idle
      BY <1>3, <1>16 DEF IssueSave, SendEmail, UseToken, RevokeAll, Abort, Goto
    <2> QED
      BY <1>4, <2>1
  <1>17. CASE \E e \in Email, role \in Role : UpdateUserRole(q, e, role)
    BY <1>17 DEF UpdateUserRole
  <1> QED
    BY <1>1, <1>2, <1>5, <1>6, <1>7, <1>8, <1>9, <1>10, <1>11, <1>12, <1>13, <1>14, <1>15,
       <1>16, <1>17
    DEF Serve, SavePasswordResetToken, SaveEmailVerificationToken

-----------------------------------------------------------------------------
(* Rotation.  The token a request is exchanging is revoked from the moment it
   has passed the UPDATE, and revocation is permanent. *)
RotationInv ==
    /\ \A p \in Proc :
          /\ req[p].pc \in {"issue", "reread", "save"}
          /\ req[p].token # NoToken
          => /\ req[p].token \in Token
             /\ refresh[req[p].token] # NoRow
             /\ refresh[req[p].token].revoked
    /\ \A t \in Token :
          refresh[t] # NoRow /\ refresh[t].parent # NoToken =>
              /\ refresh[t].parent \in Token
              /\ refresh[refresh[t].parent] # NoRow
              /\ refresh[refresh[t].parent].revoked

LEMMA RotationStep ==
  ASSUME TypeOK, [Next]_vars, RotationInv
  PROVE  RotationInv'
  <1> DEFINE Dead(t) == t \in Token /\ refresh[t] # NoRow /\ refresh[t].revoked
  <1>1. ASSUME NEW t, Dead(t)
        PROVE  Dead(t)'
    BY <1>1, RefreshPersists
  <1>2. ASSUME NEW q \in Proc, req'[q].pc \in {"issue", "reread", "save"},
               req'[q].token # NoToken
        PROVE  Dead(req[q].token)'
    <2>1. CASE req'[q] = req[q]
      BY <1>1, <1>2, <2>1 DEF RotationInv
    <2>2. CASE RefreshRevoke(q) /\ req'[q].token = req[q].token
      <3>1. req[q].token \in Token /\ refresh[req[q].token] \in RefreshRow
        BY <2>2 DEF RefreshRevoke, TypeOK, Typed, RequestNamesRows
      <3>2. refresh'[req[q].token] = [refresh[req[q].token] EXCEPT !.revoked = TRUE]
        BY <2>2, <3>1 DEF RefreshRevoke, RevokeRefreshToken, TypeOK, Typed
      <3> QED
        BY <2>2, <3>1, <3>2, RefreshPersists, NoRowIsNoRow DEF RefreshRow
    <2>3. CASE req[q].pc \in {"issue", "reread"} /\ req'[q].token = req[q].token
      BY <1>1, <1>2, <2>3 DEF RotationInv
    <2>4. req[q] \in Request
      BY DEF TypeOK, Typed
    <2> QED
      BY <1>2, <2>1, <2>2, <2>3, <2>4, RequestSteps DEF IssueStamp, Request
  <1>3. ASSUME NEW t \in Token, refresh'[t] # NoRow, refresh'[t].parent # NoToken
        PROVE  Dead(refresh[t].parent)'
    <2>1. CASE refresh[t] # NoRow
      <3>1. refresh'[t].parent = refresh[t].parent
        BY <2>1, RefreshPersists
      <3>2. Dead(refresh[t].parent)
        BY <1>3, <2>1, <3>1 DEF RotationInv
      <3> QED
        BY <1>1, <3>1, <3>2
    <2>2. ASSUME NEW p \in Proc, IssueSave(p), refresh[t] = NoRow
          PROVE  Dead(refresh[t].parent)'
      <3>1. refresh'[t].parent = req[p].token /\ req[p].pc = "save"
        BY <1>3, <2>2 DEF IssueSave, SaveRefreshToken, TypeOK, Typed
      <3> QED
        BY <1>1, <1>3, <3>1 DEF RotationInv
    <2>3. refresh[t] # NoRow \/ \E p \in Proc : IssueSave(p)
      BY <1>3, NewRefreshRow
    <2> QED
      BY <2>1, <2>2, <2>3
  <1> QED
    BY <1>2, <1>3 DEF RotationInv

(* A refresh token that was exchanged for another one is revoked, whatever
   requests interleave and wherever they are cut off. *)
THEOREM RotationCorrect == Spec => []SpentTokensAreRevoked
  <1>1. Init => RotationInv
    BY DEF Init, RotationInv, Idle
  <1>2. RotationInv => SpentTokensAreRevoked
    BY DEF RotationInv, SpentTokensAreRevoked
  <1> QED
    BY <1>1, <1>2, RotationStep, TypeCorrect, PTL DEF Spec

-----------------------------------------------------------------------------
(* How an account's row changes. *)
LEMMA UserSteps ==
  ASSUME TypeOK, [Next]_vars, NEW e \in Email, Exists(e)
  PROVE  /\ \/ users'[e].blocked = users[e].blocked /\ barredAt'[e] = barredAt[e]
            \/ barredAt'[e] = now
         /\ \/ users'[e].role = users[e].role /\ roleAt'[e] = roleAt[e]
            \/ roleAt'[e] = now
         /\ users[e].verified => users'[e].verified
         /\ now <= now'
  <1> DEFINE SameFlag == users'[e].blocked = users[e].blocked /\ barredAt'[e] = barredAt[e]
             SameRole == users'[e].role = users[e].role /\ roleAt'[e] = roleAt[e]
             Verified == users[e].verified => users'[e].verified
             Goal == /\ SameFlag \/ barredAt'[e] = now
                     /\ SameRole \/ roleAt'[e] = now
                     /\ Verified
                     /\ now <= now'
  <1>1. /\ users[e] \in UserRow /\ users \in [Email -> UserRow \union {NoRow}]
        /\ now \in Nat /\ roleAt \in [Email -> Nat] /\ barredAt \in [Email -> Nat]
    BY DEF TypeOK, Typed, Exists
  <1>2. CASE users' = users /\ roleAt' = roleAt /\ barredAt' = barredAt /\ now <= now'
    BY <1>2
  <1>3. ASSUME NEW p \in Proc, NEW f \in Email, NEW pw \in Password, Register(p, f, pw)
        PROVE  Goal
    <2>1. users'[e] = users[e] /\ roleAt'[e] = roleAt[e] /\ barredAt' = barredAt /\ now' = now
      BY <1>1, <1>3 DEF Register, CreateUser, Exists
    <2> QED BY <1>1, <2>1
  <1>4. ASSUME NEW p \in Proc, SetPassword(p)
        PROVE  Goal
    <2>1. users'[e] = users[e] \/ users'[e] = [users[e] EXCEPT !.password = req[p].password]
      BY <1>1, <1>4 DEF SetPassword, UpdateUserPassword
    <2>2. users'[e].blocked = users[e].blocked /\ users'[e].role = users[e].role /\ Verified
      BY <1>1, <2>1 DEF UserRow
    <2> QED BY <1>1, <1>4, <2>2 DEF SetPassword
  <1>5. ASSUME NEW p \in Proc, MarkVerified(p)
        PROVE  Goal
    <2>1. users'[e] = users[e] \/ users'[e] = [users[e] EXCEPT !.verified = TRUE]
      BY <1>1, <1>5 DEF MarkVerified, MarkEmailVerified
    <2>2. users'[e].blocked = users[e].blocked /\ users'[e].role = users[e].role /\ Verified
      BY <1>1, <2>1 DEF UserRow
    <2> QED BY <1>1, <1>5, <2>2 DEF MarkVerified
  <1>6. ASSUME NEW p \in Proc, NEW f \in Email, NEW role \in Role, UpdateUserRole(p, f, role)
        PROVE  Goal
    <2>1. \/ users'[e] = users[e] /\ roleAt'[e] = roleAt[e]
          \/ users'[e] = [users[e] EXCEPT !.role = role] /\ roleAt'[e] = now
          \/ /\ users'[e] = [users[e] EXCEPT !.role = role]
             /\ users[e].role = role /\ roleAt'[e] = roleAt[e]
      BY <1>1, <1>6 DEF UpdateUserRole, RoleUpdated
    <2>2. users'[e].blocked = users[e].blocked /\ (SameRole \/ roleAt'[e] = now) /\ Verified
      BY <1>1, <2>1 DEF UserRow
    <2> QED BY <1>1, <1>6, <2>2 DEF UpdateUserRole
  <1>7. ASSUME NEW p \in Proc, NEW f \in Email, NEW b \in BOOLEAN, SetUserBlocked(p, f, b)
        PROVE  Goal
    <2>1. \/ users'[e] = users[e] /\ barredAt'[e] = barredAt[e]
          \/ users'[e] = [users[e] EXCEPT !.blocked = b] /\ barredAt'[e] = now
          \/ /\ users'[e] = [users[e] EXCEPT !.blocked = b]
             /\ users[e].blocked = b /\ barredAt'[e] = barredAt[e]
      BY <1>1, <1>7 DEF SetUserBlocked, BlockedUpdated
    <2>2. users'[e].role = users[e].role /\ Verified
      BY <1>1, <2>1 DEF UserRow
    <2>3. SameFlag \/ barredAt'[e] = now
      BY <1>1, <2>1 DEF UserRow
    <2>4. roleAt' = roleAt /\ now' = now
      BY <1>7 DEF SetUserBlocked
    <2> QED BY <1>1, <2>2, <2>3, <2>4
  <1>8. ASSUME NEW p \in Proc, Serve(p)
        PROVE  \/ users' = users /\ roleAt' = roleAt /\ barredAt' = barredAt /\ now' = now
               \/ \E f \in Email, pw \in Password : Register(p, f, pw)
               \/ SetPassword(p) \/ MarkVerified(p)
               \/ \E f \in Email, role \in Role : UpdateUserRole(p, f, role)
               \/ \E f \in Email, b \in BOOLEAN : SetUserBlocked(p, f, b)
    BY <1>8 DEF Serve, Login, RefreshCheck, RefreshRevoke, IssueStamp, IssueRead, IssueSave,
                RequestPasswordReset, RequestEmailVerification, SavePasswordResetToken,
                SaveEmailVerificationToken, SaveOneTime, SendEmail, ConfirmPasswordReset,
                VerifyEmail, UseToken, RevokeAll, Abort, history
  <1>9. \/ users' = users /\ roleAt' = roleAt /\ barredAt' = barredAt /\ now <= now'
        \/ \E p \in Proc : Serve(p)
    BY <1>1 DEF Next, Tick, vars, history
  <1>10. now' = now => now <= now'
    BY <1>1
  <1> QED
    BY <1>2, <1>3, <1>4, <1>5, <1>6, <1>7, <1>8, <1>9, <1>10

-----------------------------------------------------------------------------
(* Lifetimes.  A request that is past its read of the user carries a stamp
   that no later block or change of role can precede, and whatever it saves
   expires a lifetime after that stamp. *)
StampsInv ==
    /\ \A a \in access : a.exp <= now + AccessTTL
    /\ \A t \in Token : refresh[t] # NoRow => refresh[t].exp <= now + RefreshTTL
    /\ \A p \in Proc : req[p].pc \in {"reread", "save"} => req[p].stamp <= now

ReadInv ==
    \A p \in Proc : req[p].pc = "save" =>
        LET u == users[req[p].user]
        IN  /\ u.blocked => req[p].stamp <= barredAt[req[p].user]
            /\ u.role # req[p].role => req[p].stamp <= roleAt[req[p].user]

RefreshOfBlocked ==
    \A t \in Token : refresh[t] # NoRow =>
        LET e == refresh[t].user
        IN  users[e].blocked => refresh[t].exp <= barredAt[e] + RefreshTTL

LifetimeInv == StampsInv /\ ReadInv /\ StaleAccessIsBounded /\ RefreshOfBlocked

(* The credentials that IssueSave adds. *)
LEMMA NewCredentials ==
  ASSUME TypeOK, [Next]_vars
  PROVE  /\ \A a \in access' : a \in access \/ \E p \in Proc :
               /\ IssueSave(p)
               /\ a = [user |-> req[p].user, role |-> req[p].role, exp |-> AccessExpiry(p)]
         /\ \A t \in Token : refresh'[t] # NoRow => refresh[t] # NoRow \/ \E p \in Proc :
               /\ IssueSave(p)
               /\ refresh'[t].user = req[p].user
               /\ refresh'[t].exp = RefreshExpiry(p)
  <1>1. ASSUME NEW a \in access', a \notin access
        PROVE  \E p \in Proc :
                 /\ IssueSave(p)
                 /\ a = [user |-> req[p].user, role |-> req[p].role, exp |-> AccessExpiry(p)]
    <2>1. \E p \in Proc : IssueSave(p)
      BY <1>1 DEF Next, Serve, Tick, vars, Register, Login, RefreshCheck, RefreshRevoke,
         IssueStamp, IssueRead, RequestPasswordReset,
         RequestEmailVerification, SavePasswordResetToken, SaveEmailVerificationToken,
         SaveOneTime, SendEmail, ConfirmPasswordReset, SetPassword, VerifyEmail, MarkVerified,
         UseToken, UpdateUserRole, SetUserBlocked, RevokeAll, Abort
    <2> QED
      BY <1>1, <2>1 DEF IssueSave
  <1>2. ASSUME NEW t \in Token, refresh'[t] # NoRow, refresh[t] = NoRow
        PROVE  \E p \in Proc :
                 /\ IssueSave(p)
                 /\ refresh'[t].user = req[p].user
                 /\ refresh'[t].exp = RefreshExpiry(p)
    <2>1. PICK p \in Proc : IssueSave(p)
      BY <1>2, NewRefreshRow
    <2>2. PICK t2 \in Token :
             refresh' = SaveRefreshToken(t2, req[p].user, RefreshExpiry(p), req[p].token)
      BY <2>1 DEF IssueSave
    <2>3. refresh \in [Token -> RefreshRow \union {NoRow}]
      BY DEF TypeOK, Typed
    <2>4. t = t2
      BY <1>2, <2>2, <2>3 DEF SaveRefreshToken
    <2>5. refresh'[t] = [user |-> req[p].user, exp |-> RefreshExpiry(p), revoked |-> FALSE,
                         parent |-> req[p].token]
      BY <2>2, <2>3, <2>4 DEF SaveRefreshToken
    <2> QED
      BY <2>1, <2>5
  <1> QED
    BY <1>1, <1>2

LEMMA StampsStep ==
  ASSUME TypeOK, [Next]_vars, StampsInv
  PROVE  StampsInv'
  <1> USE ConstantsAssumption
  <1>1. now \in Nat /\ now' \in Nat /\ now <= now'
    <2>1. now \in Nat
      BY DEF TypeOK, Typed
    <2>2. now' = now \/ now' = now + 1
      BY DEF Next, Tick, vars, Serve, Register, Login, RefreshCheck,
         RefreshRevoke, IssueStamp, IssueRead, IssueSave, RequestPasswordReset,
         RequestEmailVerification, SavePasswordResetToken, SaveEmailVerificationToken,
         SaveOneTime, SendEmail, ConfirmPasswordReset, SetPassword, VerifyEmail, MarkVerified,
         UseToken, UpdateUserRole, SetUserBlocked, RevokeAll, Abort
    <2> QED
      BY <2>1, <2>2
  <1>2. AccessTTL \in Nat /\ RefreshTTL \in Nat
    OBVIOUS
  <1>3. ASSUME NEW p \in Proc, IssueSave(p)
        PROVE  req[p].stamp \in Nat /\ req[p].stamp <= now
    BY <1>3 DEF IssueSave, StampsInv, TypeOK, Typed, Request
  <1>4. ASSUME NEW a \in access'
        PROVE  a.exp <= now' + AccessTTL
    <2>1. CASE a \in access
      BY <1>1, <1>2, <2>1 DEF StampsInv, TypeOK, Typed, AccessToken
    <2>2. ASSUME NEW p \in Proc, IssueSave(p), a.exp = AccessExpiry(p)
          PROVE  a.exp <= now' + AccessTTL
      BY <1>1, <1>2, <1>3, <2>2 DEF AccessExpiry
    <2> QED
      BY <2>1, <2>2, NewCredentials
  <1>5. ASSUME NEW t \in Token, refresh'[t] # NoRow
        PROVE  refresh'[t].exp <= now' + RefreshTTL
    <2>1. CASE refresh[t] # NoRow
      BY <1>1, <1>2, <2>1, RefreshPersists DEF StampsInv, TypeOK, Typed, RefreshRow
    <2>2. ASSUME NEW p \in Proc, IssueSave(p), refresh'[t].exp = RefreshExpiry(p)
          PROVE  refresh'[t].exp <= now' + RefreshTTL
      BY <1>1, <1>2, <1>3, <2>2 DEF RefreshExpiry
    <2> QED
      BY <1>5, <2>1, <2>2, NewCredentials
  <1>6. ASSUME NEW q \in Proc, req'[q].pc \in {"reread", "save"}
        PROVE  req'[q].stamp <= now'
    <2>1. req[q] \in Request
      BY DEF TypeOK, Typed
    <2>2. CASE req'[q] = req[q]
      BY <1>1, <1>6, <2>1, <2>2 DEF StampsInv, Request
    <2>3. CASE req'[q] = [req[q] EXCEPT !.pc = "reread", !.stamp = now]
      BY <1>1, <2>1, <2>3 DEF Request
    <2>4. CASE /\ req[q].pc = "reread"
               /\ req'[q] = [req[q] EXCEPT !.pc = "save", !.role = users[req[q].user].role]
      BY <1>1, <2>1, <2>4 DEF StampsInv, Request
    <2> QED
      BY <1>6, <2>2, <2>3, <2>4, RequestSteps
  <1> QED
    BY <1>4, <1>5, <1>6 DEF StampsInv

LEMMA ReadStep ==
  ASSUME TypeOK, [Next]_vars, StampsInv, ReadInv
  PROVE  ReadInv'
  <1> SUFFICES ASSUME NEW q \in Proc, req'[q].pc = "save"
               PROVE  /\ users'[req'[q].user].blocked =>
                             req'[q].stamp <= barredAt'[req'[q].user]
                      /\ users'[req'[q].user].role # req'[q].role =>
                             req'[q].stamp <= roleAt'[req'[q].user]
    BY DEF ReadInv
  <1>1. req[q] \in Request
    BY DEF TypeOK, Typed
  <1>2. CASE req'[q] = req[q]
    <2>1. req[q].user \in Email /\ Exists(req[q].user) /\ req[q].stamp <= now
      BY <1>2 DEF TypeOK, RequestNamesRows, StampsInv
    <2> QED
      BY <1>2, <2>1, UserSteps DEF ReadInv
  <1>3. CASE req'[q] # req[q]
    <2>1. /\ IssueRead(q) /\ ~users[req[q].user].blocked
          /\ req'[q] = [req[q] EXCEPT !.pc = "save", !.role = users[req[q].user].role]
      BY <1>3, RequestSteps
    <2>2. users' = users
      BY <2>1 DEF IssueRead
    <2>3. req'[q].user = req[q].user /\ req'[q].role = users[req[q].user].role
      BY <1>1, <2>1 DEF Request
    <2> QED
      BY <2>1, <2>2, <2>3
  <1> QED
    BY <1>2, <1>3

LEMMA StaleAccessStep ==
  ASSUME TypeOK, [Next]_vars, LifetimeInv
  PROVE  StaleAccessIsBounded'
  <1> SUFFICES ASSUME NEW a \in access'
               PROVE  /\ users'[a.user].role # a.role => a.exp <= roleAt'[a.user] + AccessTTL
                      /\ users'[a.user].blocked => a.exp <= barredAt'[a.user] + AccessTTL
    BY DEF StaleAccessIsBounded
  <1>1. CASE a \in access
    <2>1. a.user \in Email /\ Exists(a.user) /\ a.exp <= now + AccessTTL
      BY <1>1 DEF TypeOK, Typed, TokensNameUsers, AccessToken, LifetimeInv, StampsInv
    <2> QED
      BY <1>1, <2>1, UserSteps DEF LifetimeInv, StaleAccessIsBounded
  <1>2. ASSUME NEW p \in Proc, IssueSave(p),
               a = [user |-> req[p].user, role |-> req[p].role, exp |-> AccessExpiry(p)]
        PROVE  /\ users'[a.user].role # a.role => a.exp <= roleAt'[a.user] + AccessTTL
               /\ users'[a.user].blocked => a.exp <= barredAt'[a.user] + AccessTTL
    <2>1. users' = users /\ roleAt' = roleAt /\ barredAt' = barredAt /\ req[p].pc = "save"
      BY <1>2 DEF IssueSave, history
    <2>2. req[p].user \in Email /\ Exists(req[p].user) /\ req[p] \in Request
      BY <2>1 DEF TypeOK, Typed, RequestNamesRows
    <2>3. /\ req[p].stamp \in Nat /\ AccessTTL \in Nat
          /\ barredAt[req[p].user] \in Nat /\ roleAt[req[p].user] \in Nat
      BY <2>2, ConstantsAssumption DEF TypeOK, Typed, Exists, UserRow, Request
    <2>4. /\ users[req[p].user].blocked => req[p].stamp <= barredAt[req[p].user]
          /\ users[req[p].user].role # req[p].role => req[p].stamp <= roleAt[req[p].user]
      BY <2>1 DEF LifetimeInv, ReadInv
    <2> QED
      BY <1>2, <2>1, <2>3, <2>4 DEF AccessExpiry
  <1> QED
    BY <1>1, <1>2, NewCredentials

LEMMA RefreshOfBlockedStep ==
  ASSUME TypeOK, [Next]_vars, LifetimeInv
  PROVE  RefreshOfBlocked'
  <1> SUFFICES ASSUME NEW t \in Token, refresh'[t] # NoRow, users'[refresh'[t].user].blocked
               PROVE  refresh'[t].exp <= barredAt'[refresh'[t].user] + RefreshTTL
    BY DEF RefreshOfBlocked
  <1>1. CASE refresh[t] # NoRow
    <2>1. refresh[t].user \in Email /\ Exists(refresh[t].user) /\ refresh[t].exp <= now + RefreshTTL
      BY <1>1 DEF TypeOK, Typed, TokensNameUsers, RefreshRow, LifetimeInv, StampsInv
    <2>2. refresh'[t].user = refresh[t].user /\ refresh'[t].exp = refresh[t].exp
      BY <1>1, RefreshPersists
    <2> QED
      BY <1>1, <2>1, <2>2, UserSteps DEF LifetimeInv, RefreshOfBlocked
  <1>2. ASSUME NEW p \in Proc, IssueSave(p), refresh'[t].user = req[p].user,
               refresh'[t].exp = RefreshExpiry(p)
        PROVE  refresh'[t].exp <= barredAt'[refresh'[t].user] + RefreshTTL
    <2>1. users' = users /\ barredAt' = barredAt /\ req[p].pc = "save"
      BY <1>2 DEF IssueSave, history
    <2>2. req[p].user \in Email /\ Exists(req[p].user) /\ req[p] \in Request
      BY <2>1 DEF TypeOK, Typed, RequestNamesRows
    <2>3. /\ req[p].stamp \in Nat /\ RefreshTTL \in Nat
          /\ barredAt[req[p].user] \in Nat
      BY <2>2, ConstantsAssumption DEF TypeOK, Typed, Exists, UserRow, Request
    <2>4. req[p].stamp <= barredAt[req[p].user]
      BY <1>2, <2>1 DEF LifetimeInv, ReadInv
    <2> QED
      BY <1>2, <2>1, <2>3, <2>4 DEF RefreshExpiry
  <1> QED
    BY <1>1, <1>2, NewCredentials

LEMMA LifetimeCorrect == Spec => []LifetimeInv
  <1>1. Init => LifetimeInv
    BY DEF Init, LifetimeInv, StampsInv, ReadInv, StaleAccessIsBounded, RefreshOfBlocked, Idle
  <1>2. TypeOK /\ [Next]_vars /\ LifetimeInv => LifetimeInv'
    BY StampsStep, ReadStep, StaleAccessStep, RefreshOfBlockedStep DEF LifetimeInv
  <1> QED
    BY <1>1, <1>2, TypeCorrect, PTL DEF Spec

(* A demotion or a block takes effect on every access token within AccessTTL of
   the UPDATE that stored it. *)
THEOREM StaleAccessBounded == Spec => []StaleAccessIsBounded
  <1>1. LifetimeInv => StaleAccessIsBounded
    BY DEF LifetimeInv
  <1> QED
    BY <1>1, LifetimeCorrect, PTL

(* A blocked user's refresh tokens all expire within RefreshTTL of the UPDATE
   that set the flag: no request that starts after it gives the user another. *)
THEOREM BlockedRefreshBounded == Spec => []BlockedRefreshPredatesBlock
  <1>1. LifetimeInv => BlockedRefreshPredatesBlock
    BY DEF LifetimeInv, RefreshOfBlocked, BlockedRefreshPredatesBlock, Live
  <1> QED
    BY <1>1, LifetimeCorrect, PTL
-----------------------------------------------------------------------------
(* One-time tokens.  A request that redeems one carries it with its own kind
   and owner. *)
Redeeming ==
    \A p \in Proc :
        LET row == onetime[req[p].token]
        IN  /\ req[p].pc = "setPassword" => row.kind = "reset"
            /\ req[p].pc = "markVerified" => row.kind = "verify" /\ row.user = req[p].user
            /\ req[p].pc = "useToken" =>
                  /\ row.kind = "reset" => req[p].token \in applied
                  /\ row.kind = "verify" => users[row.user].verified

OneTimeInv ==
    /\ Redeeming
    /\ UsedResetTokenSetPassword
    /\ UsedTokenMeansVerified

LEMMA NewOneTimeRow ==
  ASSUME TypeOK, [Next]_vars, NEW t \in Token,
         onetime[t] = NoRow, onetime'[t] # NoRow
  PROVE  ~onetime'[t].used
  <1>1. PICK p \in Proc, kind \in {"reset", "verify"}, ttl \in {ResetTTL, VerifyTTL} :
           SaveOneTime(p, kind, ttl)
    BY DEF Next, Serve, Tick, vars, Register, Login, RefreshCheck, RefreshRevoke,
           IssueStamp, IssueRead, IssueSave, RequestPasswordReset,
           RequestEmailVerification, SavePasswordResetToken, SaveEmailVerificationToken,
           SendEmail, ConfirmPasswordReset, SetPassword, VerifyEmail, MarkVerified,
           UseToken, UseOneTimeToken, UpdateUserRole, SetUserBlocked, RevokeAll, Abort,
           TypeOK, Typed, RequestNamesRows
  <1>2. PICK t2 \in Token : Fresh(t2) /\ onetime' = SaveOneTimeToken(t2, kind, req[p].user, now + ttl)
    BY <1>1 DEF SaveOneTime
  <1>3. onetime \in [Token -> OneTimeRow \union {NoRow}]
    BY DEF TypeOK, Typed
  <1>4. t2 = t
    BY <1>2, <1>3 DEF SaveOneTimeToken
  <1> QED
    BY <1>2, <1>3, <1>4 DEF SaveOneTimeToken

LEMMA AppliedGrows ==
  ASSUME [Next]_vars
  PROVE  applied \subseteq applied'
  BY DEF Next, Serve, Tick, vars, Register, Login, RefreshCheck, RefreshRevoke,
         IssueStamp, IssueRead, IssueSave, RequestPasswordReset,
         RequestEmailVerification, SavePasswordResetToken, SaveEmailVerificationToken,
         SaveOneTime, SendEmail, ConfirmPasswordReset, SetPassword, VerifyEmail, MarkVerified,
         UseToken, UpdateUserRole, SetUserBlocked, RevokeAll, Abort, history

LEMMA NewlyUsed ==
  ASSUME TypeOK, [Next]_vars, NEW t \in Token, onetime[t] # NoRow,
         ~onetime[t].used, onetime'[t].used
  PROVE  \E p \in Proc : UseToken(p) /\ req[p].token = t
  <1>1. onetime \in [Token -> OneTimeRow \union {NoRow}]
    BY DEF TypeOK, Typed
  <1>2. ASSUME NEW p \in Proc, NEW kind, NEW ttl, SaveOneTime(p, kind, ttl)
        PROVE  onetime'[t] = onetime[t]
    BY <1>1, <1>2 DEF SaveOneTime, SaveOneTimeToken, Fresh
  <1>3. PICK p \in Proc : UseToken(p)
    BY <1>2 DEF Next, Serve, Tick, vars, Register, Login, RefreshCheck, RefreshRevoke, IssueStamp,
                IssueRead, IssueSave, RequestPasswordReset, RequestEmailVerification,
                SavePasswordResetToken, SaveEmailVerificationToken, SendEmail,
                ConfirmPasswordReset, SetPassword, VerifyEmail, MarkVerified,
                UpdateUserRole, SetUserBlocked, RevokeAll, Abort
  <1>4. req[p].token = t
    BY <1>1, <1>3 DEF UseToken, UseOneTimeToken
  <1> QED
    BY <1>3, <1>4

(* What the redemption of t has to have done before t may be marked used. *)
Done(t) ==
    /\ onetime[t].kind = "reset" => t \in applied
    /\ onetime[t].kind = "verify" => users[onetime[t].user].verified

LEMMA DoneStep ==
  ASSUME TypeOK, [Next]_vars, NEW t \in Token, onetime[t] # NoRow, Done(t)
  PROVE  Done(t)'
  <1>1. onetime[t].user \in Email /\ Exists(onetime[t].user)
    BY DEF TypeOK, Typed, TokensNameUsers, OneTimeRow
  <1> QED
    BY <1>1, OneTimePersists, AppliedGrows, UserSteps DEF Done

LEMMA RedeemingStep ==
  ASSUME TypeOK, [Next]_vars, Redeeming
  PROVE  Redeeming'
  <1> SUFFICES ASSUME NEW q \in Proc, NEW t, t = req'[q].token,
                      req'[q].pc \in {"setPassword", "markVerified", "useToken"}
               PROVE  /\ req'[q].pc = "setPassword" => onetime'[t].kind = "reset"
                      /\ req'[q].pc = "markVerified" =>
                            onetime'[t].kind = "verify" /\ onetime'[t].user = req'[q].user
                      /\ req'[q].pc = "useToken" => Done(t)'
    BY DEF Redeeming, Done
  <1>1. CASE req'[q] = req[q]
    <2>1. t \in Token /\ onetime[t] # NoRow
      BY <1>1 DEF TypeOK, RequestNamesRows
    <2>2. req[q].pc = "useToken" => Done(t)
      BY <1>1 DEF Redeeming, Done
    <2> QED
      BY <1>1, <2>1, <2>2, DoneStep, OneTimePersists DEF Redeeming
  <1>2. CASE req'[q] # req[q] /\ req'[q].pc # "useToken"
    <2>1. t \in Token /\ onetime[t] # NoRow
      BY <1>2, RequestSteps DEF TypeOK, Typed, TokensNameUsers
    <2> QED
      BY <1>2, <2>1, RequestSteps, OneTimePersists
  <1>3. CASE req'[q] # req[q] /\ req'[q].pc = "useToken"
    <2>1. (SetPassword(q) \/ MarkVerified(q)) /\ t = req[q].token
      BY <1>3, RequestSteps
    <2>2. t \in Token /\ onetime[t] # NoRow /\ req[q].user \in Email /\ Exists(req[q].user)
      BY <2>1 DEF SetPassword, MarkVerified, TypeOK, RequestNamesRows
    <2>3. CASE SetPassword(q)
      <3>1. onetime'[t].kind = "reset" /\ t \in applied'
        BY <2>1, <2>3 DEF SetPassword, Redeeming
      <3> QED
        BY <1>3, <3>1 DEF Done
    <2>4. CASE MarkVerified(q)
      <3>1. onetime' = onetime /\ onetime[t].kind = "verify" /\ onetime[t].user = req[q].user
        BY <2>1, <2>4 DEF MarkVerified, Redeeming
      <3>2. users[req[q].user] \in UserRow /\ users \in [Email -> UserRow \union {NoRow}]
        BY <2>2 DEF TypeOK, Typed, Exists
      <3>3. users'[req[q].user].verified
        BY <2>2, <2>4, <3>2 DEF MarkVerified, MarkEmailVerified, UserRow
      <3> QED
        BY <1>3, <3>1, <3>3 DEF Done
    <2> QED
      BY <2>1, <2>3, <2>4
  <1> QED
    BY <1>1, <1>2, <1>3

LEMMA UsedStep ==
  ASSUME TypeOK, [Next]_vars, OneTimeInv
  PROVE  UsedResetTokenSetPassword' /\ UsedTokenMeansVerified'
  <1> SUFFICES ASSUME NEW t \in Token, onetime'[t] # NoRow, onetime'[t].used
               PROVE  Done(t)'
    BY DEF UsedResetTokenSetPassword, UsedTokenMeansVerified, Done
  <1>1. onetime[t] # NoRow
    BY NewOneTimeRow
  <1>2. CASE onetime[t].used
    <2>1. Done(t)
      BY <1>1, <1>2 DEF OneTimeInv, UsedResetTokenSetPassword, UsedTokenMeansVerified, Done
    <2> QED
      BY <1>1, <2>1, DoneStep
  <1>3. CASE ~onetime[t].used
    <2>1. PICK p \in Proc : UseToken(p) /\ req[p].token = t
      BY <1>1, <1>3, NewlyUsed
    <2>2. Done(t)
      BY <2>1 DEF UseToken, OneTimeInv, Redeeming, Done
    <2> QED
      BY <1>1, <2>2, DoneStep
  <1> QED
    BY <1>2, <1>3

LEMMA OneTimeCorrect == Spec => []OneTimeInv
  <1>1. Init => OneTimeInv
    BY DEF Init, OneTimeInv, Redeeming, UsedResetTokenSetPassword,
           UsedTokenMeansVerified, Idle
  <1>2. TypeOK /\ [Next]_vars /\ OneTimeInv => OneTimeInv'
    BY RedeemingStep, UsedStep DEF OneTimeInv
  <1> QED
    BY <1>1, <1>2, TypeCorrect, PTL DEF Spec

(* A used reset token has changed the password: the token is given up last,
   whatever fails before. *)
THEOREM UsedResetTokensDidTheirWork == Spec => []UsedResetTokenSetPassword
  <1>1. OneTimeInv => UsedResetTokenSetPassword
    BY DEF OneTimeInv
  <1> QED
    BY <1>1, OneTimeCorrect, PTL

(* A used verification token has verified its owner, and nothing takes the
   verification back. *)
THEOREM UsedVerificationTokensDidTheirWork == Spec => []UsedTokenMeansVerified
  <1>1. OneTimeInv => UsedTokenMeansVerified
    BY DEF OneTimeInv
  <1> QED
    BY <1>1, OneTimeCorrect, PTL

-----------------------------------------------------------------------------
(* Stragglers.  After a block has revoked the tokens of a user, each live one
   was saved by a request that had read the user before; those requests and
   the tokens they have saved are no more than the requests were, without the
   one that blocked. *)
LiveOf(e) == {t \in Token : Live(t) /\ refresh[t].user = e}

Savers(e) == {p \in Proc : req[p].pc = "save" /\ req[p].user = e}

StragglersOf(e) ==
    /\ Exists(e) /\ users[e].blocked
    /\ IsFiniteSet(LiveOf(e))
    /\ Cardinality(LiveOf(e)) + Cardinality(Savers(e)) < Cardinality(Proc)

StragglerInv == \A e \in swept : StragglersOf(e)

LEMMA SaversFinite ==
  ASSUME NEW S \in SUBSET Proc
  PROVE  IsFiniteSet(S) /\ Cardinality(S) \in Nat /\ Cardinality(S) <= Cardinality(Proc)
         /\ Cardinality(Proc) \in Nat
  BY ProcAssumption, FS_Subset, FS_CardinalityType

(* Requests hand over tokens: as long as each token that joins A is matched by
   a request that leaves B, the two together do not grow. *)
LEMMA HandOver ==
  ASSUME NEW A, NEW B, NEW A2, NEW B2, IsFiniteSet(A), IsFiniteSet(B), B2 \subseteq B,
         \/ A2 \subseteq A
         \/ \E x, y : A2 \subseteq A \union {x} /\ y \in B /\ y \notin B2
  PROVE  /\ IsFiniteSet(A2)
         /\ {Cardinality(A), Cardinality(B), Cardinality(A2), Cardinality(B2)} \subseteq Nat
         /\ Cardinality(A2) + Cardinality(B2) <= Cardinality(A) + Cardinality(B)
  <1>1. Cardinality(A) \in Nat /\ Cardinality(B) \in Nat
    BY FS_CardinalityType
  <1>2. /\ Cardinality(B2) \in Nat /\ Cardinality(B2) <= Cardinality(B)
        /\ B2 # B => Cardinality(B2) # Cardinality(B)
    BY FS_Subset, FS_CardinalityType
  <1>3. CASE A2 \subseteq A
    <2>1. IsFiniteSet(A2) /\ Cardinality(A2) \in Nat /\ Cardinality(A2) <= Cardinality(A)
      BY <1>3, FS_Subset, FS_CardinalityType
    <2> QED
      BY <1>1, <1>2, <2>1
  <1>4. ASSUME NEW x, NEW y, A2 \subseteq A \union {x}, y \in B, y \notin B2
        PROVE  /\ IsFiniteSet(A2) /\ Cardinality(A2) \in Nat
               /\ Cardinality(A2) + Cardinality(B2) <= Cardinality(A) + Cardinality(B)
    <2>1. /\ IsFiniteSet(A \union {x})
          /\ Cardinality(A \union {x}) = IF x \in A THEN Cardinality(A) ELSE Cardinality(A) + 1
      BY FS_AddElement
    <2>2. /\ IsFiniteSet(A2) /\ Cardinality(A2) \in Nat
          /\ Cardinality(A2) <= Cardinality(A \union {x})
      BY <1>4, <2>1, FS_Subset, FS_CardinalityType
    <2>3. Cardinality(B2) # Cardinality(B)
      BY <1>2, <1>4
    <2> QED
      BY <1>1, <1>2, <2>1, <2>2, <2>3
  <1> QED
    BY <1>1, <1>2, <1>3, <1>4

(* How a user comes to be swept, and stays it. *)
LEMMA SweptSteps ==
  ASSUME TypeOK, [Next]_vars, NEW e \in swept'
  PROVE  \/ \E p \in Proc : RevokeAll(p) /\ req[p].user = e /\ users[e].blocked
         \/ e \in swept /\ (Exists(e) /\ users[e].blocked => users'[e].blocked)
  <1> USE DEF TypeOK, Typed
  <1>1. CASE swept' = swept /\ users' = users
    BY <1>1
  <1>2. ASSUME NEW p \in Proc, RevokeAll(p)
        PROVE  \/ RevokeAll(p) /\ req[p].user = e /\ users[e].blocked
               \/ e \in swept /\ users' = users
    BY <1>2 DEF RevokeAll
  <1>3. ASSUME NEW p \in Proc, NEW f \in Email, NEW b \in BOOLEAN, SetUserBlocked(p, f, b)
        PROVE  e \in swept /\ users'[e] = users[e]
    BY <1>3 DEF SetUserBlocked, BlockedUpdated
  <1>4. ASSUME NEW p \in Proc, NEW f \in Email, NEW pw \in Password, Register(p, f, pw)
        PROVE  e \in swept /\ (Exists(e) => users'[e] = users[e])
    BY <1>4 DEF Register, CreateUser, Exists
  <1>5. ASSUME NEW p \in Proc, SetPassword(p) \/ MarkVerified(p)
        PROVE  e \in swept /\ (Exists(e) /\ users[e].blocked => users'[e].blocked)
    <2>1. e \in swept
      BY <1>5 DEF SetPassword, MarkVerified, history
    <2>2. ASSUME Exists(e) PROVE users'[e].blocked = users[e].blocked
      <3>1. users[e] \in UserRow /\ e \in Email
        BY <2>1, <2>2 DEF Exists
      <3>2. \/ users'[e] = users[e]
            \/ users'[e] = [users[e] EXCEPT !.password = req[p].password]
            \/ users'[e] = [users[e] EXCEPT !.verified = TRUE]
        BY <1>5, <3>1 DEF SetPassword, UpdateUserPassword, MarkVerified, MarkEmailVerified
      <3> QED
        BY <3>1, <3>2 DEF UserRow
    <2> QED
      BY <2>1, <2>2
  <1>6. ASSUME NEW p \in Proc, NEW f \in Email, NEW role \in Role, UpdateUserRole(p, f, role)
        PROVE  e \in swept /\ (Exists(e) /\ users[e].blocked => users'[e].blocked)
    <2>1. e \in swept
      BY <1>6 DEF UpdateUserRole
    <2>2. ASSUME Exists(e) PROVE users'[e].blocked = users[e].blocked
      <3>1. users[e] \in UserRow /\ e \in Email
        BY <2>1, <2>2 DEF Exists
      <3>2. users'[e] = users[e] \/ users'[e] = [users[e] EXCEPT !.role = role]
        BY <1>6, <3>1 DEF UpdateUserRole, RoleUpdated
      <3> QED
        BY <3>1, <3>2 DEF UserRow
    <2> QED
      BY <2>1, <2>2
  <1>7. ASSUME NEW p \in Proc, Serve(p)
        PROVE  \/ swept' = swept /\ users' = users
               \/ RevokeAll(p) \/ SetPassword(p) \/ MarkVerified(p)
               \/ \E f \in Email, pw \in Password : Register(p, f, pw)
               \/ \E f \in Email, role \in Role : UpdateUserRole(p, f, role)
               \/ \E f \in Email, b \in BOOLEAN : SetUserBlocked(p, f, b)
    BY <1>7 DEF Serve, Login, RefreshCheck, RefreshRevoke, IssueStamp, IssueRead, IssueSave,
                RequestPasswordReset, RequestEmailVerification, SavePasswordResetToken,
                SaveEmailVerificationToken, SaveOneTime, SendEmail, ConfirmPasswordReset,
                VerifyEmail, UseToken, Abort, history
  <1> QED
    BY <1>1, <1>2, <1>3, <1>4, <1>5, <1>6, <1>7 DEF Next, Tick, vars, history

\* The sweep leaves the user no live token, and it is not the sweep that saves one.
LEMMA SweepClears ==
  ASSUME TypeOK, NEW p \in Proc, RevokeAll(p), NEW e, req[p].user = e, users[e].blocked
  PROVE  StragglersOf(e)'
  <1>1. /\ req[p].pc = "revokeAll" /\ req' = [req EXCEPT ![p] = Idle]
        /\ users' = users /\ refresh' = RevokeAllUserRefreshTokens(e)
    BY DEF RevokeAll, Goto
  <1>2. Exists(e)' /\ users'[e].blocked
    BY <1>1 DEF TypeOK, RequestNamesRows, Exists
  <1>3. ASSUME NEW t \in Token PROVE ~(Live(t)' /\ refresh'[t].user = e)
    <2>1. refresh[t] # NoRow => refresh[t] \in RefreshRow
      BY DEF TypeOK, Typed
    <2>2. refresh'[t] = IF refresh[t] # NoRow /\ refresh[t].user = e
                        THEN [refresh[t] EXCEPT !.revoked = TRUE] ELSE refresh[t]
      BY <1>1 DEF RevokeAllUserRefreshTokens
    <2> QED
      BY <2>1, <2>2 DEF Live, RefreshRow
  <1>4. LiveOf(e)' = {}
    BY <1>3 DEF LiveOf
  <1>5. p \notin Savers(e)' /\ Savers(e)' \in SUBSET Proc
    BY <1>1 DEF Savers, Idle, TypeOK, Typed
  <1>6. Cardinality(Savers(e)') # Cardinality(Proc)
    BY <1>5, ProcAssumption, FS_Subset
  <1>7. IsFiniteSet(LiveOf(e)') /\ Cardinality(LiveOf(e)') = 0
    BY <1>4, FS_EmptySet
  <1>8. /\ Cardinality(Savers(e)') \in Nat /\ Cardinality(Savers(e)') <= Cardinality(Proc)
        /\ Cardinality(Proc) \in Nat
    BY <1>5, SaversFinite
  <1>9. Cardinality(LiveOf(e)') + Cardinality(Savers(e)') < Cardinality(Proc)
    BY <1>6, <1>7, <1>8
  <1> QED
    BY <1>2, <1>7, <1>9 DEF StragglersOf

(* No request of a blocked user comes to save a token, and each that saves one
   is done. *)
LEMMA StragglersShrink ==
  ASSUME TypeOK, [Next]_vars, NEW e \in Email, Exists(e), users[e].blocked
  PROVE  /\ Savers(e)' \subseteq Savers(e)
         /\ \/ LiveOf(e)' \subseteq LiveOf(e)
            \/ \E t \in Token, p \in Savers(e) :
                  LiveOf(e)' \subseteq LiveOf(e) \union {t} /\ p \notin Savers(e)'
  <1>1. ASSUME NEW q \in Savers(e)' PROVE q \in Savers(e)
    <2>1. q \in Proc /\ req'[q].pc = "save" /\ req'[q].user = e /\ req[q] \in Request
      BY DEF Savers, TypeOK, Typed
    <2>2. CASE req'[q] = req[q]
      BY <2>1, <2>2 DEF Savers
    <2>3. CASE req'[q] # req[q]
      <3>1. /\ ~users[req[q].user].blocked
            /\ req'[q] = [req[q] EXCEPT !.pc = "save", !.role = users[req[q].user].role]
        BY <2>1, <2>3, RequestSteps
      <3>2. req[q].user = e
        BY <2>1, <3>1 DEF Request
      <3> QED
        BY <3>1, <3>2
    <2> QED
      BY <2>2, <2>3
  <1>2. ASSUME NEW t \in LiveOf(e)', refresh[t] # NoRow PROVE t \in LiveOf(e)
    <2>1. t \in Token /\ ~refresh'[t].revoked /\ refresh'[t].user = e
      BY DEF LiveOf, Live
    <2> QED
      BY <1>2, <2>1, RefreshPersists DEF LiveOf, Live
  <1>3. CASE \A t \in LiveOf(e)' : refresh[t] # NoRow
    BY <1>1, <1>2, <1>3
  <1>4. CASE \E t \in LiveOf(e)' : refresh[t] = NoRow
    <2>1. PICK t \in LiveOf(e)' : refresh[t] = NoRow
      BY <1>4
    <2>2. t \in Token /\ refresh'[t] # NoRow /\ refresh'[t].user = e
      BY DEF LiveOf, Live
    <2>3. PICK p \in Proc : IssueSave(p)
      BY <2>1, <2>2, NewRefreshRow
    <2>4. PICK t2 \in Token :
             refresh' = SaveRefreshToken(t2, req[p].user, RefreshExpiry(p), req[p].token)
      BY <2>3 DEF IssueSave
    <2>5. /\ \A t3 \in Token \ {t2} : refresh'[t3] = refresh[t3]
          /\ refresh'[t2].user = req[p].user
      BY <2>4 DEF SaveRefreshToken, TypeOK, Typed
    <2>6. t2 = t /\ req[p].user = e
      BY <2>1, <2>2, <2>5
    <2>7. p \in Savers(e) /\ p \notin Savers(e)'
      BY <2>3, <2>6 DEF IssueSave, Goto, Savers, Idle, TypeOK, Typed
    <2>8. LiveOf(e)' \subseteq LiveOf(e) \union {t}
      <3> SUFFICES ASSUME NEW t3 \in LiveOf(e)', t3 # t PROVE t3 \in LiveOf(e)
        OBVIOUS
      <3>1. refresh'[t3] = refresh[t3] /\ t3 \in Token
        BY <2>5, <2>6 DEF LiveOf
      <3> QED
        BY <3>1 DEF LiveOf, Live
    <2> QED
      BY <1>1, <2>2, <2>7, <2>8
  <1> QED
    BY <1>3, <1>4

LEMMA StragglersStay ==
  ASSUME TypeOK, [Next]_vars, NEW e \in Email, StragglersOf(e), users'[e].blocked
  PROVE  StragglersOf(e)'
  <1>1. /\ Exists(e) /\ users[e].blocked /\ IsFiniteSet(LiveOf(e)) /\ Exists(e)'
        /\ Cardinality(LiveOf(e)) + Cardinality(Savers(e)) < Cardinality(Proc)
    BY UsersPersist DEF StragglersOf
  <1>2. IsFiniteSet(Savers(e)) /\ Cardinality(Proc) \in Nat
    BY SaversFinite DEF Savers
  <1>3. /\ IsFiniteSet(LiveOf(e)')
        /\ {Cardinality(LiveOf(e)), Cardinality(Savers(e)),
            Cardinality(LiveOf(e)'), Cardinality(Savers(e)')} \subseteq Nat
        /\ Cardinality(LiveOf(e)') + Cardinality(Savers(e)')
             <= Cardinality(LiveOf(e)) + Cardinality(Savers(e))
    BY <1>1, <1>2, StragglersShrink, HandOver
  <1>4. Cardinality(LiveOf(e)') + Cardinality(Savers(e)') < Cardinality(Proc)
    BY <1>1, <1>2, <1>3
  <1> QED
    BY <1>1, <1>3, <1>4 DEF StragglersOf

LEMMA StragglerStep ==
  ASSUME TypeOK, [Next]_vars, StragglerInv
  PROVE  StragglerInv'
  <1> SUFFICES ASSUME NEW e \in swept' PROVE StragglersOf(e)'
    BY DEF StragglerInv
  <1>1. ASSUME NEW p \in Proc, RevokeAll(p), req[p].user = e, users[e].blocked
        PROVE  StragglersOf(e)'
    BY <1>1, SweepClears
  <1>2. CASE e \in swept /\ (Exists(e) /\ users[e].blocked => users'[e].blocked)
    <2>1. e \in Email /\ StragglersOf(e) /\ users'[e].blocked
      BY <1>2 DEF StragglerInv, StragglersOf, TypeOK, Typed
    <2> QED
      BY <2>1, StragglersStay
  <1> QED
    BY <1>1, <1>2, SweptSteps

(* A block ends every session of its user but for tokens that requests past
   their check were about to save: fewer than there are requests. *)
THEOREM StragglersBounded == Spec => []BlockLeavesOnlyStragglers
  <1>1. Init => StragglerInv
    BY DEF Init, StragglerInv
  <1>2. StragglerInv => BlockLeavesOnlyStragglers
    <2> SUFFICES ASSUME StragglerInv, NEW e \in swept
                 PROVE  Cardinality(LiveOf(e)) < Cardinality(Proc)
      BY DEF BlockLeavesOnlyStragglers, LiveOf
    <2>1. /\ Cardinality(LiveOf(e)) \in Nat
          /\ Cardinality(LiveOf(e)) + Cardinality(Savers(e)) < Cardinality(Proc)
      BY FS_CardinalityType DEF StragglerInv, StragglersOf
    <2>2. Cardinality(Savers(e)) \in Nat /\ Cardinality(Proc) \in Nat
      BY SaversFinite DEF Savers
    <2> QED
      BY <2>1, <2>2
  <1>3. TypeOK /\ [Next]_vars /\ StragglerInv => StragglerInv'
    BY StragglerStep
  <1> QED
    BY <1>1, <1>2, <1>3, TypeCorrect, PTL DEF Spec

-----------------------------------------------------------------------------
(* Exchanges.  Nobody begins to exchange a token once it is revoked, and before
   that nothing was issued for it. *)
ExchangesOf(t) ==
    /\ IsFiniteSet(Exchanged(t))
    /\ Cardinality(Exchanged(t)) + Cardinality(Exchangers(t)) <= Cardinality(Proc)

ExchangeInv == \A t \in Token : ExchangesOf(t)

\* Only a token that is not revoked yet gets a further request.
LEMMA NewExchanger ==
  ASSUME TypeOK, [Next]_vars, NEW t \in Token, NEW q \in Exchangers(t)', q \notin Exchangers(t)
  PROVE  Refreshable(t)
  <1>1. /\ q \in Proc /\ req'[q].token = t /\ req[q] \in Request
        /\ req'[q].pc \in {"revoke", "issue", "reread", "save"}
    BY DEF Exchangers, TypeOK, Typed
  <1>2. req'[q] # req[q]
    BY <1>1 DEF Exchangers
  <1>3. t # NoToken
    BY ConstantsAssumption
  <1>4. CASE req'[q].pc = "issue"
    <2>1. RefreshRevoke(q) /\ req[q].token = t
      BY <1>1, <1>2, <1>3, <1>4, RequestSteps
    <2> QED
      BY <1>1, <2>1 DEF RefreshRevoke, Exchangers
  <1>5. CASE req'[q].pc = "reread"
    <2>1. IssueStamp(q) /\ req[q].token = t
      BY <1>1, <1>2, <1>5, RequestSteps DEF Request
    <2> QED
      BY <1>1, <2>1 DEF IssueStamp, Exchangers
  <1>6. CASE req'[q].pc = "save"
    <2>1. req[q].pc = "reread" /\ req[q].token = t
      BY <1>1, <1>2, <1>6, RequestSteps DEF Request
    <2> QED
      BY <1>1, <2>1 DEF Exchangers
  <1> QED
    BY <1>1, <1>2, <1>4, <1>5, <1>6, RequestSteps

\* A further exchange is the work of one request, which is done with it.
LEMMA NewExchange ==
  ASSUME TypeOK, [Next]_vars, RotationInv, NEW t \in Token,
         ~(Exchanged(t)' \subseteq Exchanged(t))
  PROVE  \E u \in Token, p \in Exchangers(t) :
            /\ Exchanged(t)' \subseteq Exchanged(t) \union {u}
            /\ p \notin Exchangers(t)'
            /\ refresh[t] # NoRow /\ refresh[t].revoked
  <1>1. PICK u \in Token : refresh'[u] # NoRow /\ refresh'[u].parent = t /\ u \notin Exchanged(t)
    BY DEF Exchanged
  <1>2. refresh[u] = NoRow
    BY <1>1, RefreshPersists DEF Exchanged
  <1>3. PICK p \in Proc : IssueSave(p)
    BY <1>1, <1>2, NewRefreshRow
  <1>4. PICK u2 \in Token :
           refresh' = SaveRefreshToken(u2, req[p].user, RefreshExpiry(p), req[p].token)
    BY <1>3 DEF IssueSave
  <1>5. /\ \A u3 \in Token \ {u2} : refresh'[u3] = refresh[u3]
        /\ refresh'[u2].parent = req[p].token
    BY <1>4 DEF SaveRefreshToken, TypeOK, Typed
  <1>6. u2 = u /\ req[p].token = t
    BY <1>1, <1>2, <1>5
  <1>7. req[p].pc = "save" /\ req'[p] = Idle
    BY <1>3 DEF IssueSave, Goto, TypeOK, Typed
  <1>8. p \in Exchangers(t) /\ p \notin Exchangers(t)'
    BY <1>6, <1>7 DEF Exchangers, Idle
  <1>9. refresh[t] # NoRow /\ refresh[t].revoked
    BY <1>6, <1>7, ConstantsAssumption DEF RotationInv
  <1>10. Exchanged(t)' \subseteq Exchanged(t) \union {u}
    BY <1>5, <1>6 DEF Exchanged
  <1> QED
    BY <1>8, <1>9, <1>10

LEMMA ExchangesStep ==
  ASSUME TypeOK, [Next]_vars, RotationInv, NEW t \in Token, ExchangesOf(t)
  PROVE  ExchangesOf(t)'
  <1>1. IsFiniteSet(Exchangers(t)) /\ Cardinality(Proc) \in Nat
    BY SaversFinite DEF Exchangers
  <1>2. CASE Exchangers(t)' \subseteq Exchangers(t)
    <2>1. \/ Exchanged(t)' \subseteq Exchanged(t)
          \/ \E u, p : /\ Exchanged(t)' \subseteq Exchanged(t) \union {u}
                       /\ p \in Exchangers(t) /\ p \notin Exchangers(t)'
      BY NewExchange
    <2>2. /\ IsFiniteSet(Exchanged(t)')
          /\ {Cardinality(Exchanged(t)), Cardinality(Exchangers(t)),
              Cardinality(Exchanged(t)'), Cardinality(Exchangers(t)')} \subseteq Nat
          /\ Cardinality(Exchanged(t)') + Cardinality(Exchangers(t)')
               <= Cardinality(Exchanged(t)) + Cardinality(Exchangers(t))
      BY <1>1, <1>2, <2>1, HandOver DEF ExchangesOf
    <2> QED
      BY <1>1, <2>2 DEF ExchangesOf
  <1>3. CASE ~(Exchangers(t)' \subseteq Exchangers(t))
    <2>1. refresh[t] # NoRow /\ ~refresh[t].revoked
      BY <1>3, NewExchanger DEF Refreshable
    <2>2. Exchanged(t) = {}
      BY <2>1, ConstantsAssumption DEF RotationInv, Exchanged
    <2>3. Exchanged(t)' = {}
      BY <2>1, <2>2, NewExchange
    <2>4. /\ Cardinality(Exchangers(t)') \in Nat
          /\ Cardinality(Exchangers(t)') <= Cardinality(Proc)
      BY SaversFinite DEF Exchangers
    <2>5. IsFiniteSet(Exchanged(t)') /\ Cardinality(Exchanged(t)') = 0
      BY <2>3, FS_EmptySet
    <2>6. Cardinality(Exchanged(t)') + Cardinality(Exchangers(t)') <= Cardinality(Proc)
      BY <1>1, <2>4, <2>5
    <2> QED
      BY <2>5, <2>6 DEF ExchangesOf
  <1> QED
    BY <1>2, <1>3

(* However requests interleave and fail, a refresh token is exchanged for at
   most as many pairs as the server has requests. *)
THEOREM ExchangesBounded == Spec => []ExchangesNeedRequests
  <1>1. Init => ExchangeInv /\ RotationInv
    <2> SUFFICES ASSUME Init, NEW t \in Token PROVE ExchangesOf(t) /\ RotationInv
      BY DEF ExchangeInv, Init, RotationInv, Idle
    <2>1. RotationInv
      BY DEF Init, RotationInv, Idle
    <2>2. Exchanged(t) = {} /\ Exchangers(t) = {}
      BY DEF Init, Exchanged, Exchangers, Idle
    <2>3. IsFiniteSet({}) /\ Cardinality({}) = 0 /\ Cardinality(Proc) \in Nat
      BY FS_EmptySet, ProcAssumption, FS_CardinalityType
    <2> QED
      BY <2>1, <2>2, <2>3 DEF ExchangesOf
  <1>2. ExchangeInv => ExchangesNeedRequests
    BY DEF ExchangeInv, ExchangesOf, ExchangesNeedRequests
  <1>3. TypeOK /\ [Next]_vars /\ RotationInv /\ ExchangeInv => ExchangeInv'
    BY ExchangesStep DEF ExchangeInv
  <1>4. TypeOK /\ [Next]_vars /\ RotationInv => RotationInv'
    BY RotationStep
  <1> QED
    BY <1>1, <1>2, <1>3, <1>4, TypeCorrect, PTL DEF Spec

-----------------------------------------------------------------------------
(* Redemptions.  A token of an answered request is used, so nobody looks it up
   with success any more, and each time it works again one of the requests
   that had is done with it. *)
RedemptionsOf(t) ==
    /\ onetime[t] # NoRow /\ onetime[t].used
    /\ late[t] + Cardinality(Holders(t)) < Cardinality(Proc)

RedemptionInv ==
    /\ \A t \in redeemed : RedemptionsOf(t)
    /\ \A t \in Token \ redeemed : late[t] = 0

\* A used token is looked up in vain.
LEMMA HoldersShrink ==
  ASSUME TypeOK, [Next]_vars, NEW t \in Token, onetime[t] # NoRow, onetime[t].used
  PROVE  Holders(t)' \subseteq Holders(t)
  <1> SUFFICES ASSUME NEW q \in Proc, req'[q].token = t,
                      req'[q].pc \in {"setPassword", "markVerified"}
               PROVE  q \in Holders(t)
    BY DEF Holders
  <1>1. req'[q] = req[q]
    BY RequestSteps
  <1> QED
    BY <1>1 DEF Holders

\* Work after the answer is the work of one request, which is done with the token.
LEMMA LateSteps ==
  ASSUME TypeOK, [Next]_vars, NEW t \in Token
  PROVE  \/ late'[t] = late[t]
         \/ /\ t \in redeemed /\ late'[t] = late[t] + 1
            /\ \E p \in Holders(t) : p \notin Holders(t)'
  <1>1. late \in [Token -> Nat] /\ req \in [Proc -> Request]
    BY DEF TypeOK, Typed
  <1>2. ASSUME NEW p \in Proc, SetPassword(p) \/ MarkVerified(p), late'[t] # late[t]
        PROVE  /\ t \in redeemed /\ late'[t] = late[t] + 1
               /\ p \in Holders(t) /\ p \notin Holders(t)'
    <2>1. Worked(req[p].token) /\ req[p].pc \in {"setPassword", "markVerified"}
      BY <1>2 DEF SetPassword, MarkVerified
    <2>2. req[p].token = t /\ t \in redeemed /\ late'[t] = late[t] + 1
      BY <1>1, <1>2, <2>1 DEF Worked
    <2>3. req'[p].pc = "useToken"
      BY <1>1, <1>2 DEF SetPassword, MarkVerified, Goto, Idle
    <2> QED
      BY <2>1, <2>2, <2>3 DEF Holders
  <1>3. late' = late \/ \E p \in Proc : SetPassword(p) \/ MarkVerified(p)
    BY DEF Next, Serve, Tick, vars, Register, Login, RefreshCheck, RefreshRevoke, IssueStamp,
           IssueRead, IssueSave, RequestPasswordReset, RequestEmailVerification,
           SavePasswordResetToken, SaveEmailVerificationToken, SaveOneTime, SendEmail,
           ConfirmPasswordReset, VerifyEmail, UseToken, UpdateUserRole, SetUserBlocked,
           RevokeAll, Abort, history
  <1> QED
    BY <1>2, <1>3

LEMMA RedeemedSteps ==
  ASSUME [Next]_vars
  PROVE  \/ redeemed' = redeemed
         \/ \E p \in Proc : UseToken(p)
  BY DEF Next, Serve, Tick, vars, Register, Login, RefreshCheck, RefreshRevoke, IssueStamp,
         IssueRead, IssueSave, RequestPasswordReset, RequestEmailVerification,
         SavePasswordResetToken, SaveEmailVerificationToken, SaveOneTime, SendEmail,
         ConfirmPasswordReset, SetPassword, VerifyEmail, MarkVerified, UpdateUserRole,
         SetUserBlocked, RevokeAll, Abort, history

\* The answer marks the token, and the request that gets it no longer holds it.
LEMMA AnswerMarks ==
  ASSUME TypeOK, NEW p \in Proc, UseToken(p), NEW t \in Token, req[p].token = t, late[t] = 0
  PROVE  RedemptionsOf(t)'
  <1>1. onetime[t] \in OneTimeRow /\ onetime \in [Token -> OneTimeRow \union {NoRow}]
    BY DEF UseToken, TypeOK, Typed, RequestNamesRows
  <1>2. onetime'[t] = [onetime[t] EXCEPT !.used = TRUE]
    BY <1>1 DEF UseToken, UseOneTimeToken
  <1>3. onetime'[t] \in OneTimeRow /\ onetime'[t].used
    BY <1>1, <1>2 DEF OneTimeRow
  <1>4. req'[p] = Idle
    BY DEF UseToken, Goto, TypeOK, Typed
  <1>5. p \notin Holders(t)' /\ Holders(t)' \in SUBSET Proc
    BY <1>4 DEF Holders, Idle
  <1>6. Cardinality(Holders(t)') # Cardinality(Proc)
    BY <1>5, ProcAssumption, FS_Subset
  <1>7. /\ Cardinality(Holders(t)') \in Nat /\ Cardinality(Proc) \in Nat
        /\ Cardinality(Holders(t)') <= Cardinality(Proc)
    BY <1>5, SaversFinite
  <1>8. late'[t] = 0
    BY DEF UseToken
  <1>9. late'[t] + Cardinality(Holders(t)') < Cardinality(Proc)
    BY <1>6, <1>7, <1>8
  <1> QED
    BY <1>3, <1>9, NoRowIsNoRow DEF RedemptionsOf

LEMMA RedemptionStays ==
  ASSUME TypeOK, [Next]_vars, NEW t \in Token, RedemptionsOf(t)
  PROVE  RedemptionsOf(t)'
  <1>1. onetime'[t] # NoRow /\ onetime'[t].used
    BY OneTimePersists DEF RedemptionsOf
  <1>2. Holders(t)' \subseteq Holders(t)
    BY HoldersShrink DEF RedemptionsOf
  <1>3. /\ IsFiniteSet(Holders(t)) /\ Cardinality(Holders(t)) \in Nat
        /\ Cardinality(Proc) \in Nat /\ late[t] \in Nat
    BY SaversFinite DEF Holders, TypeOK, Typed
  <1>4. /\ Cardinality(Holders(t)') \in Nat
        /\ Cardinality(Holders(t)') <= Cardinality(Holders(t))
        /\ Holders(t)' # Holders(t) => Cardinality(Holders(t)') # Cardinality(Holders(t))
    BY <1>2, <1>3, FS_Subset, FS_CardinalityType
  <1>5. \/ late'[t] = late[t]
        \/ late'[t] = late[t] + 1 /\ Holders(t)' # Holders(t)
    BY LateSteps
  <1>6. late[t] + Cardinality(Holders(t)) < Cardinality(Proc)
    BY DEF RedemptionsOf
  <1>7. late'[t] + Cardinality(Holders(t)') < Cardinality(Proc)
    BY <1>3, <1>4, <1>5, <1>6
  <1> QED
    BY <1>1, <1>7 DEF RedemptionsOf

LEMMA RedemptionStep ==
  ASSUME TypeOK, [Next]_vars, RedemptionInv
  PROVE  RedemptionInv'
  <1>1. redeemed \subseteq Token
    BY DEF TypeOK, Typed
  <1>2. ASSUME NEW t \in redeemed
        PROVE  RedemptionsOf(t)'
    BY <1>1, <1>2, RedemptionStays DEF RedemptionInv
  <1>3. ASSUME NEW p \in Proc, UseToken(p)
        PROVE  RedemptionInv'
    <2>1. req[p].token \in Token
      BY <1>3 DEF UseToken, TypeOK, RequestNamesRows
    <2>2. redeemed' = redeemed \union {req[p].token} /\ late' = late
      BY <1>3 DEF UseToken
    <2>3. ASSUME NEW t \in redeemed', t \notin redeemed
          PROVE  RedemptionsOf(t)'
      <3>1. t \in Token /\ req[p].token = t /\ late[t] = 0
        BY <2>1, <2>2, <2>3 DEF RedemptionInv
      <3> QED
        BY <1>3, <3>1, AnswerMarks
    <2>4. \A t \in redeemed' : RedemptionsOf(t)'
      BY <1>2, <2>3
    <2>5. \A t \in Token \ redeemed' : late'[t] = 0
      BY <2>2 DEF RedemptionInv
    <2> QED
      BY <2>4, <2>5 DEF RedemptionInv
  <1>4. CASE redeemed' = redeemed
    <2>1. \A t \in Token \ redeemed : late'[t] = 0
      BY LateSteps DEF RedemptionInv
    <2> QED
      BY <1>2, <1>4, <2>1 DEF RedemptionInv
  <1> QED
    BY <1>3, <1>4, RedeemedSteps

(* Once a reset or a verification with a token was answered, the token does its
   work again fewer times than the server has requests under way, for good:
   from requests that had looked it up before and from no other. *)
THEOREM RedemptionsBounded == Spec => []RedemptionsFade
  <1>1. Init => RedemptionInv
    BY DEF Init, RedemptionInv
  <1>2. RedemptionInv => RedemptionsFade
    BY DEF RedemptionInv, RedemptionsOf, RedemptionsFade
  <1>3. TypeOK /\ [Next]_vars /\ RedemptionInv => RedemptionInv'
    BY RedemptionStep
  <1> QED
    BY <1>1, <1>2, <1>3, TypeCorrect, PTL DEF Spec

=============================================================================
