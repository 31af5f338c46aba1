SPECIFICATION Spec
CONSTANTS
    Paragraphs <- All
    MaxEdits = 2
    MaxText = 4
CHECK_DEADLOCK FALSE
PROPERTIES
    EditIsDeclared
    PointsInPlace
