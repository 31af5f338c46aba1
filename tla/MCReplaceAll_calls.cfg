SPECIFICATION Spec
CONSTANTS
    Documents <- Mixed
    Patterns <- Matched
    Replacements <- Texts
    MaxCalls = 2
INVARIANTS
    NothingLeft
    CountExplained
PROPERTIES
    OnlyMatchesChange
    RetryChangesNothing
CHECK_DEADLOCK FALSE
