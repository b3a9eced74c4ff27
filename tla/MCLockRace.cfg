SPECIFICATION Spec
CONSTANTS
    c1 = c1
    c2 = c2
    c3 = c3
    h1 = h1
    h2 = h2
    Clients = {c1, c2}
    Hosts = {h1}
    Home <- OneHost
    Local = {h1}
    Nobody = Nobody
    Timeout = 8
    Period = 6
    MaxAcquire = 1
    MaxRelease = 1
    Leftover <- StaleLeftover
    Faults = {}
INVARIANTS
    MutualExclusion
CHECK_DEADLOCK FALSE
