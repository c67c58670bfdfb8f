CONSTANTS
    Conns = {k1, k2, k3}
    Limits = {1, 2}
    FirstLimit = 1
    MaxReloads = 2
    Assocs = {a1, a2}
    PortCount = 3
    UsizeWrap = 8
    Addrs = {d1, d2, d3}
    ControlAddrs = {d1, d2}
    Nobody = Nobody
    PerMilli = 2
    IdleTimeout = 4
    MaxTime = 14
    Heads <- MCHeads
    Streams <- MCStreams
    Credentials = {"good"}
    ChunkLineLimit = 6
    TrailerLimit = 6
    BodyBatch = 2
    Radix = 2
    DigitValues <- MCDigitValues
    MaxSizeDigits = 2
    Numerals <- MCNumerals
    LengthLimit = 4
    OriginWidth = 4
    MaxPayload = 3
    BatchLimit = 5
    FrameBudget = 4
    Digits = 3
    Base = 2
    Psks = {"psk", "other"}
    MaxContent = 5
    MaxSeals = 7
    A = A
    Accounts = {A, B}
    Requests <- MCRacing
    Reqs = {q1, q2}
    NodeHosts = {h1}
    Filtered = {h1}
    Concurrency = 1
    None = None
    MaxJobs = 3
SPECIFICATION ListenersSpec
INVARIANTS
    NoLostWakeup
    FreePortFound
    OnePeer
    OriginAgrees
    RecordsArrive
    RawDocumentAllowed
    AnswersNotStale
PROPERTIES
    AdmitWithinLimit
    ExpiresOnTime
CHECK_DEADLOCK FALSE
