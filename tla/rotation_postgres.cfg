SPECIFICATION Spec
CONSTANTS
    Users = {u1, u2}
    Tokens = {t1, t2, t3}
    SessionIds = {s1, s2}
    Requests = {r1, r2}
    Keys = {k1}
    LogoutReasons = {"admin_force_logout"}
    Backend = "postgres"
    Faults = {"refused", "reply_lost", "audit_refused", "restart"}
    NoUser = NoUser
    NoToken = NoToken
    NoSession = NoSession
    NoHash = NoHash
    NoKey = NoKey
    NotRevoked = NotRevoked
    Absent = Absent
SYMMETRY Symmetry
INVARIANTS
    IInv
    SuccessorReplacesPredecessor
    DeliveredCurrentTokenIsStored
    RevokeAllIsComplete
    AccusationIsFounded
    SessionsStayWithTheirUser
PROPERTIES
    ImplementsContract
