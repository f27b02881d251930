SPECIFICATION Spec
CONSTANTS
    Users = {u1}
    Tokens = {t1, t2, t3}
    SessionIds = {s1, s2}
    Requests = {r1, r2}
    Keys = {k1}
    LogoutReasons = {"admin_force_logout"}
    Backend = "redis"
    Faults = {"refused", "reply_lost", "pipeline_error", "restart"}
    NoUser = NoUser
    NoToken = NoToken
    NoSession = NoSession
    NoHash = NoHash
    NoKey = NoKey
    NotRevoked = NotRevoked
    Absent = Absent
SYMMETRY Symmetry
INVARIANTS
    IInv
    DeliveredCurrentTokenIsStored
    LogoutIsFinal
    RevokeAllIsComplete
PROPERTIES
    ImplementsContract
