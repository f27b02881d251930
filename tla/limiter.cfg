SPECIFICATION Spec
CONSTANTS
    Ips = {i1}
    Accounts = {a1}
    Requests = {r1, r2}
    Backends = {"redis", "memory"}
    Faults = {"refused", "reply_lost"}
    IpLimit = 2
    AcctLimit = 1
    IpWindow = 4
    AcctWindow = 4
    Second = 3
    MaxDelay = 2
    MaxTime = 5
    MaxArrivals = 4
    NoKey = NoKey
SYMMETRY Symmetry
INVARIANTS
    TypeOK
    SpanIsBounded
PROPERTIES
    RefusalIsFounded
