SPECIFICATION Spec
CONSTANTS
    Paragraphs <- File
    Texts <- TextsOf
    MaxCalls <- CallsOf
    MaxText = 14
INVARIANTS
    TextIsAString
    BuiltReadsBack
    ReadsBack
CHECK_DEADLOCK FALSE
