CONSTANTS
    Tasks = {t1, t2}
    Clients = {c1}
    Conns = {k1, k2}
    Reusing = {c1}
    MaxIdle = 1
    MaxUses = 2
    NodeDials = 1
    GlobalDials = 1
    MaxGen = 0
    NoConn = NoConn
SPECIFICATION Spec
PROPERTIES UdpCloseResolves
CHECK_DEADLOCK FALSE
