SPECIFICATION BatchSpec
CONSTANTS
    InitialShape <- Plain2
    NewShapes <- OneItem
    MaxNodes = 8
    MaxMarks = 3
    Operations <- Ops2Long
    MaxOps = 3
    MaxCalls = 1
    LogLimit = 3
INVARIANTS
    LoopsAsWritten
    PlanPassesChecks
PROPERTIES
    CommitIsDeclared
    ResultsNameNewParagraphs
    SurvivorsKeepAnchors
