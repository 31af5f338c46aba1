SPECIFICATION Spec
CONSTANTS
    Documents <- Files
    Wordings <- WordingsOf
    Patterns <- Needles
    Limits = {1, 3}
INVARIANTS
    PlacesInOrder
    NestingKeepsPlaces
    PagesShowAll
    NodesAreWhereTheTextIs
CHECK_DEADLOCK FALSE
