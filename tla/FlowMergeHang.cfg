CONSTANTS
    Graphs <- Shifted
    Limit = 1
    SourceFails = FALSE
    BatchValues = 2
SPECIFICATION Spec
PROPERTY PullReturns
CHECK_DEADLOCK FALSE
