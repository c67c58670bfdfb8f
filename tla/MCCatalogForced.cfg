CONSTANTS
    Http = {h1, h2}
    Control = {}
    p1 = p1
    p2 = p2
    Catalogs <- TwoCatalogs
    Configs <- OneConfig
    Invalid = Invalid
    QueueLimit = 1
    MaxVersion = 1
    MaxEdits = 0
    MaxCrashes = 0
    MaxRejections = 1
    Nobody = Nobody
SPECIFICATION Spec
INVARIANTS ForcedAllOrNothing
PROPERTIES LoopServesAll
CHECK_DEADLOCK FALSE
