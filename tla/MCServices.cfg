CONSTANTS
    a4 = a4  b4 = b4  a6 = a6  b6 = b6  t4 = t4
    NoIp = NoIp
    Unreadable = Unreadable
    Callers = {c1, c2}
    MaxChanges = 2
    Kind <- MCKind
    OsStates <- MCOsStates
    PinnedChoices <- MCPinned
    V6 <- MCV6
    A = A
    Parts = {"monitor", "provider", "control", "api"}
    Accounts = {A, B}
    Requests <- MCRequests
    Reqs = {q1, q2}
    NodeHosts = {h1, h2}
    Filtered = {h1}
    Concurrency = 1
    None = None
    MaxJobs = 1
    Services = {s1, s2, s3}
    Inodes = {1, 2}
    MaxStarts = 3
    MaxUrls = 4
    Timeout = 10
    MaxLate = 3
SPECIFICATION ServicesSpec
INVARIANTS
    SourceAsConfigured
    SoleService
    CallSound
PROPERTIES
    MonitorImplementsEgress
    EgressSettles
    RequestsAnswered
CHECK_DEADLOCK FALSE
