CONSTANTS
    Http = {}
    Control = {c1}
    p1 = p1
    p2 = p2
    Catalogs <- AllCatalogs
    Configs <- MCConfigs
    Invalid = Invalid
    QueueLimit = 1
    MaxVersion = 1
    MaxEdits = 1
    MaxCrashes = 1
    MaxRejections = 0
    Nobody = Nobody
SPECIFICATION Spec
SYMMETRY Symmetry
INVARIANTS OneAccount ClientsServed FailureKeepsCatalog
CHECK_DEADLOCK FALSE
