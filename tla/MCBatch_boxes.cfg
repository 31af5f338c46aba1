SPECIFICATION BatchSpec
CONSTANTS
    InitialShape <- WithBox
    NewShapes <- OneOrBoxed
    MaxNodes = 7
    MaxMarks = 2
    Operations <- OpsBoxed
    MaxOps = 2
    MaxCalls = 2
    LogLimit = 2
CHECK_DEADLOCK FALSE
INVARIANTS
    ManifestSound
    StaleOnlyInBoxes
PROPERTIES
    NeverReused
