CONSTANTS
    Tasks = {t1, t2}
    Clients = {c1, c2}
    Conns = {k1, k2}
    Reusing = {c1}
    MaxIdle = 1
    MaxUses = 2
    NodeDials = 1
    GlobalDials = 1
    MaxGen = 1
    NoConn = NoConn
SPECIFICATION Spec
SYMMETRY Symmetry
INVARIANTS NoConnectionShared PoolBounded SessionOnCurrentNetwork PermitsConserved
CHECK_DEADLOCK FALSE
