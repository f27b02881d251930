SPECIFICATION Spec
CONSTANTS
    Users = {u1}
    Tokens = {t1, t2, t3}
    SessionIds = {s1}
    Requests = {r1}
    Keys = {k1, k2}
    LogoutReasons = {"admin_force_logout"}
    Backend = "memory"
    Faults = {}
    NoUser = NoUser
    NoToken = NoToken
    NoSession = NoSession
    NoHash = NoHash
    NoKey = NoKey
    NotRevoked = NotRevoked
    Absent = Absent
PROPERTIES
    CurrentTokenIsAccepted
