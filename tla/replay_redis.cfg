SPECIFICATION Spec
CONSTANTS
    Users = {u1}
    Tokens = {t1, t2, t3}
    SessionIds = {s1}
    Requests = {r1}
    Keys = {k1}
    LogoutReasons = {"admin_force_logout"}
    Backend = "redis"
    Faults = {}
    NoUser = NoUser
    NoToken = NoToken
    NoSession = NoSession
    NoHash = NoHash
    NoKey = NoKey
    NotRevoked = NotRevoked
    Absent = Absent
PROPERTIES
    ReplayRevokesSession
