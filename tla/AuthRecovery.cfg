SPECIFICATION Spec
CONSTANTS
    Email = {e1, e2}
    Admins = {e1}
    Password = {pw1}
    Token = {t1, t2, t3}
    Proc = {p1, p2}
    Ops <- RecoveryOps
    AccessTTL = 1
    RefreshTTL = 2
    ResetTTL = 0
    VerifyTTL = 0
    MaxTime = 1
    NoRow = NoRow
    NoUser = NoUser
    NoToken = NoToken
    NoPassword = NoPassword
SYMMETRY Symmetry
INVARIANTS
    UsedResetTokenSetPassword
    UsedTokenMeansVerified
    RedemptionsFade
