SPECIFICATION BatchSpec
CONSTANTS
    InitialShape <- Plain2
    NewShapes <- OneItem
    MaxNodes = 5
    MaxMarks = 2
    Operations <- Ops3
    MaxOps = 1
    MaxCalls = 2
    LogLimit = 3
PROPERTY RollbackIsExact
