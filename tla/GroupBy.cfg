CONSTANTS
    Inputs <- Queries
    Missing = 4
    BatchLen = 1
SPECIFICATION Spec
INVARIANT OutputSorted
PROPERTIES
    GroupsExact
    Ends
CHECK_DEADLOCK FALSE
