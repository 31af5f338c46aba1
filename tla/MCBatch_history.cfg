SPECIFICATION FairBatchSpec
CONSTANTS
    InitialShape <- Plain2
    NewShapes <- OneItem
    MaxNodes = 5
    MaxMarks = 2
    Operations <- Ops3
    MaxOps = 2
    MaxCalls = 2
    LogLimit = 3
INVARIANTS
    IndexFresh
PROPERTIES
    RollbackRestores
    LogRecordsCommit
    BatchEnds
