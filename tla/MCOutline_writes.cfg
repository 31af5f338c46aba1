SPECIFICATION Spec
CONSTANTS
    Outlines <- Small
    MaxItems = 2
    MaxIds = 6
INVARIANTS
    OutlineNests
PROPERTIES
    TextKeepsOutline
    SectionsCopyWhole
CHECK_DEADLOCK FALSE
