CONSTANTS
    Graphs <- QueryGraphs
    Limit = 1
    SourceFails = FALSE
    BatchValues = 2
SPECIFICATION Spec
INVARIANTS
    AnnouncedOffer
    Sorted
PROPERTIES
    Refines
    PullReturns
    NoLeak
CHECK_DEADLOCK FALSE
