SPECIFICATION Spec
CONSTANTS
    Texts <- AllTexts
    Classes = {"cjk", "latin", "mark", "dot", "space", "nl", "tick", "at", "url"}
    Length = 5
CHECK_DEADLOCK FALSE
INVARIANTS
    Stable
    TokensKept
    Spaced
