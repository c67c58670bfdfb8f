CONSTANTS
    MaxSessions = 2
    MaxData = 2
SPECIFICATION Spec
INVARIANTS ResponseIntact ServerInStep
PROPERTIES SessionEnds
CHECK_DEADLOCK FALSE
