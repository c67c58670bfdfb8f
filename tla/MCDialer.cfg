CONSTANTS
    Tasks = {k1, k2}
    Hosts = {"h", "p"}
    PrivateHosts = {"h"}
    Nobody = Nobody
    CacheTtl = 2
    QueryAttempts = 2
    Pinned = FALSE
    MaxGen = 2
    Selections <- MCSelections
    Candidates = {x4, y4, x6, y6}
    Ipv6 = {x6, y6}
    NoPreferred = NoPreferred
    MaxAddresses = 4
    r1 = r1
    Dials = {d1, d2}
    Roots = {r1, r2}
    NoDial = NoDial
    MaxKeys = 3
    MaxEnv = 2
    n1 = n1
    p1 = p1
    Names = {n1, n2}
    Profiles = {p1, p2, p3}
    Bad = {p3}
    MaxNodes = 2
    Conns = {k3}
    MaxChanges = 2
SPECIFICATION DialerSpec
INVARIANTS
    AddressesOfOwnNetwork
    EveryAddressTried
    TrustSound
    RoutesClean
PROPERTIES
    NoWastedQuery
    EchRetriesStop
    PortKeepsNode
    MapConverges
CHECK_DEADLOCK FALSE
