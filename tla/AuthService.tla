------------------------------ MODULE AuthService ------------------------------
(***************************************************************************)
(* auth-service: accounts, JWT pairs with rotating refresh tokens, and the *)
(* one-time tokens of password reset and e-mail verification.              *)
(*                                                                         *)
(* Every HTTP request is a process of Proc that runs the statements of one *)
(* service method (internal/service/auth.go).  A statement of the          *)
(* repository is atomic; no transaction spans two of them, so the          *)
(* statements of concurrent requests interleave, and a request may end     *)
(* between any two (a failing statement, a cancelled context, a crash).    *)
(* A request that is refused before its first write leaves no trace: it is *)
(* a stuttering step and has no action.                                    *)
(***************************************************************************)
EXTENDS Naturals, FiniteSets

CONSTANTS
    Email,       \* addresses; users.email is unique and rows are never deleted
    Admins,      \* the addresses of ADMIN_EMAILS
    Password,
    Token,       \* refresh, reset and verification tokens (random, never reused)
    Proc,        \* concurrent requests
    Ops,         \* the endpoints that clients call
    AccessTTL, RefreshTTL, ResetTTL, VerifyTTL,
    MaxTime,     \* bound on the clock
    NoRow, NoUser, NoToken, NoPassword

Endpoint == {"register", "login", "refresh", "reset", "verify", "role", "block"}
Role == {"user", "admin"}

ASSUME ConstantsAssumption ==
    /\ Admins \subseteq Email
    /\ Ops \subseteq Endpoint
    /\ {AccessTTL, RefreshTTL, ResetTTL, VerifyTTL, MaxTime} \subseteq Nat
    /\ NoUser \notin Email
    /\ NoToken \notin Token
    /\ NoPassword \notin Password

ASSUME NoRowAssumption ==
    /\ NoRow \notin [password: Password, verified: BOOLEAN, role: Role, blocked: BOOLEAN]
    /\ NoRow \notin [user: Email, exp: Nat, revoked: BOOLEAN,
                     parent: Token \union {NoToken}]
    /\ NoRow \notin [kind: {"reset", "verify"}, user: Email, exp: Nat, used: BOOLEAN]

\* The requests of a server are in flight in finite number.
ASSUME ProcAssumption == IsFiniteSet(Proc)

VARIABLES
    users,       \* table users
    refresh,     \* table refresh_tokens
    onetime,     \* tables password_reset_tokens and email_verification_tokens
    access,      \* the access tokens handed out and not yet expired
    mailed,      \* one-time tokens that reached their owner's mailbox
    req,         \* the local state of each request
    now,
    \* history, read by the properties only
    roleAt,      \* when the role of each user last changed
    barredAt,    \* when the block flag of each user last changed
    swept,       \* users whose latest block has also revoked their tokens
    applied,     \* reset tokens that have set a password
    redeemed,    \* one-time tokens of a request that was answered "ok"
    late         \* how often each did its work again after that answer

vars == <<users, refresh, onetime, access, mailed, req, now,
          roleAt, barredAt, swept, applied, redeemed, late>>
history == <<roleAt, barredAt, swept, applied, redeemed, late>>

\* blocked_at is NULL or not: its value, the clock of the service before it had
\* a connection for the UPDATE, is stored and read by nothing.
UserRow == [password: Password, verified: BOOLEAN, role: Role, blocked: BOOLEAN]
\* parent is the refresh token this one was exchanged for (not a column).
RefreshRow == [user: Email, exp: Nat, revoked: BOOLEAN,
               parent: Token \union {NoToken}]
OneTimeRow == [kind: {"reset", "verify"}, user: Email, exp: Nat, used: BOOLEAN]
AccessToken == [user: Email, role: Role, exp: Nat]

PC == {"idle", "revoke", "issue", "reread", "save",
       "saveReset", "saveVerify", "mail",
       "setPassword", "markVerified", "useToken", "revokeAll"}

Request == [pc: PC, user: Email \union {NoUser}, token: Token \union {NoToken},
            password: Password \union {NoPassword}, role: Role, stamp: Nat]

Idle == [pc |-> "idle", user |-> NoUser, token |-> NoToken,
         password |-> NoPassword, role |-> "user", stamp |-> 0]

Exists(e) == users[e] # NoRow
Fresh(t) == refresh[t] = NoRow /\ onetime[t] = NoRow

-----------------------------------------------------------------------------
(* The statements of internal/repository/auth_repository.go: each gives the
   next value of the table it writes. *)

CreateUser(e, pw, role) ==
    [users EXCEPT ![e] = [password |-> pw, verified |-> FALSE, role |-> role,
                          blocked |-> FALSE]]

RoleUpdated(e, role) == [users EXCEPT ![e].role = role]

UpdateUserPassword(e, pw) == [users EXCEPT ![e].password = pw]

MarkEmailVerified(e) == [users EXCEPT ![e].verified = TRUE]

BlockedUpdated(e, b) == [users EXCEPT ![e].blocked = b]

SaveRefreshToken(t, e, exp, parent) ==
    [refresh EXCEPT ![t] = [user |-> e, exp |-> exp, revoked |-> FALSE, parent |-> parent]]

RevokeRefreshToken(t) == [refresh EXCEPT ![t].revoked = TRUE]

(* Slip: the sweep reaches only tokens that came from a refresh. *)
RevokeAllRotatedTokens(e) ==
    [t \in Token |-> IF refresh[t] # NoRow /\ refresh[t].user = e /\ refresh[t].parent # NoToken
                     THEN [refresh[t] EXCEPT !.revoked = TRUE]
                     ELSE refresh[t]]

RevokeAllUserRefreshTokens(e) ==
    [t \in Token |-> IF refresh[t] # NoRow /\ refresh[t].user = e
                     THEN [refresh[t] EXCEPT !.revoked = TRUE]
                     ELSE refresh[t]]

SaveOneTimeToken(t, kind, e, exp) ==
    [onetime EXCEPT ![t] = [kind |-> kind, user |-> e, exp |-> exp, used |-> FALSE]]

UseOneTimeToken(t) == [onetime EXCEPT ![t].used = TRUE]

-----------------------------------------------------------------------------
Goto(p, r) == req' = [req EXCEPT ![p] = r]

Starts(p, op) == req[p].pc = "idle" /\ op \in Ops

(* The token pair is issued to user e; parent is the refresh token spent for
   it, or NoToken. *)
BeginIssue(p, e, parent) ==
    Goto(p, [Idle EXCEPT !.pc = "issue", !.user = e, !.token = parent])

(* Slip: a failed INSERT is taken for a success. *)
RegisterIgnoringInsertError(p, e, pw) ==
    /\ Starts(p, "register")
    /\ roleAt' = [roleAt EXCEPT ![e] = now]
    /\ BeginIssue(p, e, NoToken)
    /\ UNCHANGED <<users, refresh, onetime, access, mailed, now,
                   barredAt, swept, applied, redeemed, late>>

(* POST /register.  The INSERT itself decides whether the address is taken. *)
Register(p, e, pw) ==
    /\ Starts(p, "register")
    /\ ~Exists(e)
    /\ users' = CreateUser(e, pw, IF e \in Admins THEN "admin" ELSE "user")
    /\ roleAt' = [roleAt EXCEPT ![e] = now]
    /\ BeginIssue(p, e, NoToken)
    /\ UNCHANGED <<refresh, onetime, access, mailed, now,
                   barredAt, swept, applied, redeemed, late>>

(* POST /login: the row is read once for the password and the block flag. *)
Login(p, e, pw) ==
    /\ Starts(p, "login")
    /\ Exists(e)
    /\ users[e].password = pw
    /\ ~users[e].blocked
    /\ BeginIssue(p, e, NoToken)
    /\ UNCHANGED <<users, refresh, onetime, access, mailed, now, history>>

(* Slip: revoked_at is not looked at. *)
RefreshableEvenRevoked(t) == refresh[t] # NoRow /\ now < refresh[t].exp

(* POST /refresh, up to GetRefreshToken: signature and expiry of the JWT, then
   the stored row.  The JWT's own expiry is strict, the row's is not. *)
Refreshable(t) ==
    /\ refresh[t] # NoRow
    /\ ~refresh[t].revoked
    /\ now < refresh[t].exp

RefreshCheck(p, t) ==
    /\ Starts(p, "refresh")
    /\ Refreshable(t)
    /\ Goto(p, [Idle EXCEPT !.pc = "revoke", !.user = refresh[t].user, !.token = t])
    /\ UNCHANGED <<users, refresh, onetime, access, mailed, now, history>>

(* Slip: the old token is left alone. *)
RefreshWithoutRevoke(p) ==
    /\ req[p].pc = "revoke"
    /\ BeginIssue(p, req[p].user, req[p].token)
    /\ UNCHANGED <<users, refresh, onetime, access, mailed, now, history>>

(* The UPDATE that revokes the token; how many rows it changed is not looked
   at.  The user read that follows only tells whether the row exists. *)
RefreshRevoke(p) ==
    /\ req[p].pc = "revoke"
    /\ refresh' = RevokeRefreshToken(req[p].token)
    /\ BeginIssue(p, req[p].user, req[p].token)
    /\ UNCHANGED <<users, onetime, access, mailed, now, history>>

-----------------------------------------------------------------------------
(* issueTokenPair: time.Now(), then the user is read again, then both tokens
   are signed and the refresh token is stored. *)
IssueStamp(p) ==
    /\ req[p].pc = "issue"
    /\ Goto(p, [req[p] EXCEPT !.pc = "reread", !.stamp = now])
    /\ UNCHANGED <<users, refresh, onetime, access, mailed, now, history>>

(* Slip: the block flag is checked by Login only. *)
IssueReadUnchecked(p) ==
    /\ req[p].pc = "reread"
    /\ Goto(p, [req[p] EXCEPT !.pc = "save", !.role = users[req[p].user].role])
    /\ UNCHANGED <<users, refresh, onetime, access, mailed, now, history>>

IssueRead(p) ==
    /\ req[p].pc = "reread"
    /\ LET row == users[req[p].user]
       IN  Goto(p, IF row.blocked THEN Idle
                   ELSE [req[p] EXCEPT !.pc = "save", !.role = row.role])
    /\ UNCHANGED <<users, refresh, onetime, access, mailed, now, history>>

(* Slip: the clock is read again when the access token is signed. *)
AccessExpiryLate(p) == now + AccessTTL

AccessExpiry(p) == req[p].stamp + AccessTTL
RefreshExpiry(p) == req[p].stamp + RefreshTTL

IssueSave(p) ==
    /\ req[p].pc = "save"
    /\ \E t \in Token :
          /\ Fresh(t)
          /\ refresh' = SaveRefreshToken(t, req[p].user, RefreshExpiry(p), req[p].token)
    /\ access' = access \union
          {a \in {[user |-> req[p].user, role |-> req[p].role, exp |-> AccessExpiry(p)]} :
              now < a.exp}
    /\ Goto(p, Idle)
    /\ UNCHANGED <<users, onetime, mailed, now, history>>

-----------------------------------------------------------------------------
(* POST /password/reset/request and POST /email/verify {email}: read the user,
   store a token, send it.  A verified address gets no further token. *)
RequestPasswordReset(p, e) ==
    /\ Starts(p, "reset")
    /\ Exists(e)
    /\ Goto(p, [Idle EXCEPT !.pc = "saveReset", !.user = e])
    /\ UNCHANGED <<users, refresh, onetime, access, mailed, now, history>>

RequestEmailVerification(p, e) ==
    /\ Starts(p, "verify")
    /\ Exists(e)
    /\ ~users[e].verified
    /\ Goto(p, [Idle EXCEPT !.pc = "saveVerify", !.user = e])
    /\ UNCHANGED <<users, refresh, onetime, access, mailed, now, history>>

SaveOneTime(p, kind, ttl) ==
    /\ req[p].pc = IF kind = "reset" THEN "saveReset" ELSE "saveVerify"
    /\ \E t \in Token :
          /\ Fresh(t)
          /\ onetime' = SaveOneTimeToken(t, kind, req[p].user, now + ttl)
          /\ Goto(p, [req[p] EXCEPT !.pc = "mail", !.token = t])
    /\ UNCHANGED <<users, refresh, access, mailed, now, history>>

SavePasswordResetToken(p) == SaveOneTime(p, "reset", ResetTTL)
SaveEmailVerificationToken(p) == SaveOneTime(p, "verify", VerifyTTL)

(* notification-service delivers; whether the call then reports success or an
   error, the token is out.  A call that delivers nothing is Abort. *)
SendEmail(p) ==
    /\ req[p].pc = "mail"
    /\ mailed' = mailed \union {req[p].token}
    /\ Goto(p, Idle)
    /\ UNCHANGED <<users, refresh, onetime, access, now, history>>

-----------------------------------------------------------------------------
(* A one-time token may be redeemed: known to the client, unused, unexpired. *)
Redeemable(t, kind) ==
    /\ t \in mailed
    /\ onetime[t].kind = kind
    /\ ~onetime[t].used
    /\ now <= onetime[t].exp

(* Slip: the token is marked used before the password is set. *)
ConfirmResetUsingFirst(p, t, pw) ==
    /\ Starts(p, "reset")
    /\ Redeemable(t, "reset")
    /\ onetime' = UseOneTimeToken(t)
    /\ Goto(p, [Idle EXCEPT !.pc = "setPassword", !.user = onetime[t].user,
                            !.token = t, !.password = pw])
    /\ UNCHANGED <<users, refresh, access, mailed, now, history>>

(* POST /password/reset/confirm: look the token up, set the password, then
   mark the token used. *)
ConfirmPasswordReset(p, t, pw) ==
    /\ Starts(p, "reset")
    /\ Redeemable(t, "reset")
    /\ Goto(p, [Idle EXCEPT !.pc = "setPassword", !.user = onetime[t].user,
                            !.token = t, !.password = pw])
    /\ UNCHANGED <<users, refresh, onetime, access, mailed, now, history>>

\* The work of token t is done, once more if a request was answered before.
Worked(t) == late' = IF t \in redeemed THEN [late EXCEPT ![t] = @ + 1] ELSE late

SetPassword(p) ==
    /\ req[p].pc = "setPassword"
    /\ users' = UpdateUserPassword(req[p].user, req[p].password)
    /\ applied' = applied \union {req[p].token}
    /\ Worked(req[p].token)
    /\ Goto(p, [Idle EXCEPT !.pc = "useToken", !.token = req[p].token])
    /\ UNCHANGED <<refresh, onetime, access, mailed, now, roleAt, barredAt, swept, redeemed>>

(* Slip: the token is marked used before the address is verified. *)
VerifyEmailUsingFirst(p, t) ==
    /\ Starts(p, "verify")
    /\ Redeemable(t, "verify")
    /\ onetime' = UseOneTimeToken(t)
    /\ Goto(p, [Idle EXCEPT !.pc = "markVerified", !.user = onetime[t].user, !.token = t])
    /\ UNCHANGED <<users, refresh, access, mailed, now, history>>

(* POST /email/verify {token}: look the token up, mark the address verified,
   then mark the token used. *)
VerifyEmail(p, t) ==
    /\ Starts(p, "verify")
    /\ Redeemable(t, "verify")
    /\ Goto(p, [Idle EXCEPT !.pc = "markVerified", !.user = onetime[t].user, !.token = t])
    /\ UNCHANGED <<users, refresh, onetime, access, mailed, now, history>>

MarkVerified(p) ==
    /\ req[p].pc = "markVerified"
    /\ users' = MarkEmailVerified(req[p].user)
    /\ Worked(req[p].token)
    /\ Goto(p, [Idle EXCEPT !.pc = "useToken", !.token = req[p].token])
    /\ UNCHANGED <<refresh, onetime, access, mailed, now,
                   roleAt, barredAt, swept, applied, redeemed>>

(* Slip: the answer goes out, the token stays as it is. *)
UseTokenUnmarked(p) ==
    /\ req[p].pc = "useToken"
    /\ redeemed' = redeemed \union {req[p].token}
    /\ Goto(p, Idle)
    /\ UNCHANGED <<users, refresh, onetime, access, mailed, now,
                   roleAt, barredAt, swept, applied, late>>

(* The token is marked used and the request is answered. *)
UseToken(p) ==
    /\ req[p].pc = "useToken"
    /\ onetime' = UseOneTimeToken(req[p].token)
    /\ redeemed' = redeemed \union {req[p].token}
    /\ Goto(p, Idle)
    /\ UNCHANGED <<users, refresh, access, mailed, now,
                   roleAt, barredAt, swept, applied, late>>

-----------------------------------------------------------------------------
(* PUT /admin/users/:id/role *)
UpdateUserRole(p, e, role) ==
    /\ Starts(p, "role")
    /\ Exists(e)
    /\ users' = RoleUpdated(e, role)
    /\ roleAt' = IF users[e].role = role THEN roleAt ELSE [roleAt EXCEPT ![e] = now]
    /\ UNCHANGED <<refresh, onetime, access, mailed, req, now,
                   barredAt, swept, applied, redeemed, late>>

(* PUT /admin/users/:id/blocked: the flag, then, when it is set, the tokens. *)
SetUserBlocked(p, e, b) ==
    /\ Starts(p, "block")
    /\ Exists(e)
    /\ users' = BlockedUpdated(e, b)
    /\ barredAt' = IF users[e].blocked = b THEN barredAt ELSE [barredAt EXCEPT ![e] = now]
    /\ swept' = swept \ {e}
    /\ IF b THEN Goto(p, [Idle EXCEPT !.pc = "revokeAll", !.user = e])
            ELSE UNCHANGED req
    /\ UNCHANGED <<refresh, onetime, access, mailed, now, roleAt, applied, redeemed, late>>

RevokeAll(p) ==
    /\ req[p].pc = "revokeAll"
    /\ refresh' = RevokeAllUserRefreshTokens(req[p].user)
    /\ swept' = IF users[req[p].user].blocked THEN swept \union {req[p].user} ELSE swept
    /\ Goto(p, Idle)
    /\ UNCHANGED <<users, onetime, access, mailed, now,
                   roleAt, barredAt, applied, redeemed, late>>

-----------------------------------------------------------------------------
(* A statement or a call fails, the client goes away, or the process dies. *)
Abort(p) ==
    /\ req[p].pc # "idle"
    /\ Goto(p, Idle)
    /\ UNCHANGED <<users, refresh, onetime, access, mailed, now, history>>

Tick ==
    /\ now < MaxTime
    /\ now' = now + 1
    /\ access' = {a \in access : now' < a.exp}
    /\ UNCHANGED <<users, refresh, onetime, mailed, req, history>>

Init ==
    /\ users = [e \in Email |-> NoRow]
    /\ refresh = [t \in Token |-> NoRow]
    /\ onetime = [t \in Token |-> NoRow]
    /\ access = {}
    /\ mailed = {}
    /\ req = [p \in Proc |-> Idle]
    /\ now = 0
    /\ roleAt = [e \in Email |-> 0]
    /\ barredAt = [e \in Email |-> 0]
    /\ swept = {}
    /\ applied = {}
    /\ redeemed = {}
    /\ late = [t \in Token |-> 0]

(* One statement of request p. *)
Serve(p) ==
    \/ \E e \in Email, pw \in Password : Register(p, e, pw) \/ Login(p, e, pw)
    \/ \E t \in Token : RefreshCheck(p, t)
    \/ RefreshRevoke(p)
    \/ IssueStamp(p)
    \/ IssueRead(p)
    \/ IssueSave(p)
    \/ \E e \in Email : RequestPasswordReset(p, e) \/ RequestEmailVerification(p, e)
    \/ SavePasswordResetToken(p)
    \/ SaveEmailVerificationToken(p)
    \/ SendEmail(p)
    \/ \E t \in Token, pw \in Password : ConfirmPasswordReset(p, t, pw)
    \/ SetPassword(p)
    \/ \E t \in Token : VerifyEmail(p, t)
    \/ MarkVerified(p)
    \/ UseToken(p)
    \/ \E e \in Email, role \in Role : UpdateUserRole(p, e, role)
    \/ \E e \in Email, b \in BOOLEAN : SetUserBlocked(p, e, b)
    \/ RevokeAll(p)
    \/ Abort(p)

Next == Tick \/ \E p \in Proc : Serve(p)

Spec == Init /\ [][Next]_vars

-----------------------------------------------------------------------------
(* Every variable has its type. *)
Typed ==
    /\ users \in [Email -> UserRow \union {NoRow}]
    /\ refresh \in [Token -> RefreshRow \union {NoRow}]
    /\ onetime \in [Token -> OneTimeRow \union {NoRow}]
    /\ access \subseteq AccessToken
    /\ mailed \subseteq Token
    /\ req \in [Proc -> Request]
    /\ now \in Nat
    /\ roleAt \in [Email -> Nat]
    /\ barredAt \in [Email -> Nat]
    /\ swept \subseteq Email
    /\ applied \subseteq Token
    /\ redeemed \subseteq Token
    /\ late \in [Token -> Nat]

(* What a request past its first statement carries names an existing row. *)
RequestNamesRows(r) ==
    /\ r.pc \notin {"idle", "useToken"} => r.user \in Email /\ Exists(r.user)
    /\ r.pc \in {"mail", "setPassword", "markVerified", "useToken"} =>
          r.token \in Token /\ onetime[r.token] # NoRow
    /\ r.pc = "revoke" => r.token \in Token /\ refresh[r.token] # NoRow
    /\ r.pc = "setPassword" => r.password \in Password

(* Every stored, sent or handed-out token belongs to an account. *)
TokensNameUsers ==
    /\ \A t \in Token : refresh[t] # NoRow => Exists(refresh[t].user)
    /\ \A t \in Token : onetime[t] # NoRow => Exists(onetime[t].user)
    /\ \A t \in mailed : onetime[t] # NoRow
    /\ \A a \in access : Exists(a.user) /\ now < a.exp

(* Types, and the references the tables do not enforce: no foreign key ties a
   token to its user, only the order of the statements does. *)
TypeOK ==
    /\ Typed
    /\ \A p \in Proc : RequestNamesRows(req[p])
    /\ TokensNameUsers

(* Rotation: whatever a refresh token was exchanged for, the token itself is
   revoked, so a chain of refreshes never leaves two usable links.  Refresh
   relies on revoking before it issues, with any failure in between. *)
SpentTokensAreRevoked ==
    \A t \in Token :
        refresh[t] # NoRow /\ refresh[t].parent # NoToken =>
            refresh[refresh[t].parent].revoked

(* Access tokens carry a role and are never looked up, so a demotion or a
   block works only once they expire.  The wait is at most AccessTTL from the
   UPDATE that made the change, for issuances in flight during it too:
   issueTokenPair takes its clock before it reads the user.  From the UPDATE,
   not from blocked_at: SetUserBlocked reads that clock before it has a
   connection, and a login in between is later than it. *)
StaleAccessIsBounded ==
    \A a \in access :
        LET u == users[a.user]
        IN  /\ u.role # a.role => a.exp <= roleAt[a.user] + AccessTTL
            /\ u.blocked => a.exp <= barredAt[a.user] + AccessTTL

Live(t) == refresh[t] # NoRow /\ ~refresh[t].revoked

(* A refresh token a blocked user still holds was begun before the UPDATE that
   set the flag: no login or refresh that starts after it leaves the user a
   live token, and a second block of a blocked user moves nothing. *)
BlockedRefreshPredatesBlock ==
    \A t \in Token : Live(t) =>
        LET e == refresh[t].user
        IN  users[e].blocked => refresh[t].exp <= barredAt[e] + RefreshTTL

(* Once blocking a user has also revoked its tokens, the live ones were saved
   by requests already past their read of the user: at most one for each
   request other than the one that blocked. *)
BlockLeavesOnlyStragglers ==
    \A e \in swept :
        Cardinality({t \in Token : Live(t) /\ refresh[t].user = e}) < Cardinality(Proc)

\* The requests that have looked token t up and not done its work yet.
Holders(t) ==
    {p \in Proc : req[p].token = t /\ req[p].pc \in {"setPassword", "markVerified"}}

(* A reset and a verification look their token up, do their work and mark the
   token last, so requests with one token overlap and a late one sets the
   password again after another was answered.  That fades: what a token did
   after the first answer and the requests that may still use it are together
   fewer than the requests a server has under way, whenever the token is tried
   again and wherever one of them is cut off. *)
RedemptionsFade ==
    \A t \in redeemed : late[t] + Cardinality(Holders(t)) < Cardinality(Proc)

(* A reset token is marked used only after the password was changed with it: a
   request cut off in between costs the user nothing but a retry. *)
UsedResetTokenSetPassword ==
    \A t \in Token :
        onetime[t] # NoRow /\ onetime[t].kind = "reset" /\ onetime[t].used => t \in applied

(* The same for verification: a used token's owner is verified. *)
UsedTokenMeansVerified ==
    \A t \in Token :
        onetime[t] # NoRow /\ onetime[t].kind = "verify" /\ onetime[t].used =>
            users[onetime[t].user].verified

Exchanged(t) == {t2 \in Token : refresh[t2] # NoRow /\ refresh[t2].parent = t}

\* A request exchanges a token from its check of the token to the row of the new one.
Exchangers(t) ==
    {p \in Proc : req[p].token = t /\ req[p].pc \in {"revoke", "issue", "reread", "save"}}

(* Two refreshes may both read a token before either revokes it, and then each
   issues a pair for it.  It ends there: what a token was exchanged for and the
   requests that still exchange it are together no more than the requests the
   server may serve at a time, however long the token lives and however often
   its holder, or whoever copied it, comes back with it. *)
ExchangesNeedRequests ==
    \A t \in Token :
        Cardinality(Exchanged(t)) + Cardinality(Exchangers(t)) <= Cardinality(Proc)

(* What the integration test asserts of a refresh token that was used: a
   second Refresh with it is refused, so it is exchanged at most once. *)
RefreshTokenSpentOnce ==
    \A t1, t2 \in Token :
        /\ refresh[t1] # NoRow /\ refresh[t2] # NoRow
        /\ refresh[t1].parent # NoToken
        /\ refresh[t1].parent = refresh[t2].parent
        => t1 = t2

=============================================================================
