SPECIFICATION Spec
CONSTANTS
    Ips = {i1}
    Accounts = {a1}
    Requests = {r1, r2}
    Backends = {"redis"}
    Faults = {}
    IpLimit = 2
    AcctLimit = 1
    IpWindow = 3
    AcctWindow = 2
    Second = 1
    MaxDelay = 0
    MaxTime = 4
    MaxArrivals = 4
    NoKey = NoKey
SYMMETRY Symmetry
INVARIANTS
    LimitHolds
