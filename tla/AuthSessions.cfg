SPECIFICATION Spec
CONSTANTS
    Email = {e1}
    Admins = {}
    Password = {pw1}
    Token = {t1, t2, t3}
    Proc = {p1, p2}
    Ops <- SessionOps
    AccessTTL = 1
    RefreshTTL = 2
    ResetTTL = 1
    VerifyTTL = 1
    MaxTime = 2
    NoRow = NoRow
    NoUser = NoUser
    NoToken = NoToken
    NoPassword = NoPassword
SYMMETRY Symmetry
INVARIANTS
    TypeOK
    SpentTokensAreRevoked
    StaleAccessIsBounded
    BlockedRefreshPredatesBlock
    BlockLeavesOnlyStragglers
    ExchangesNeedRequests
