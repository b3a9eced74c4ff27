CONSTANTS
    Tenants = {t1, t2, t3}
    Pools = {p1, p2}
    Nodes = {n1, f}
    Foreign = {f}
    MaxRequests = 1
SYMMETRY Symmetry
SPECIFICATION Spec
INVARIANTS
    RefsCountUsers
    ListTellsDevice
    UpdatesFit
