SPECIFICATION Spec
CONSTANTS
    in = in
    out = out
    Files = {in, out}
    Inside = {in}
    Batches <- Submitted
    MaxWrites = 2
CHECK_DEADLOCK FALSE
INVARIANTS
    OneSnapshot
    Fresh
    AllOrNothing
    TouchedOnce
PROPERTIES
    CallEnds
