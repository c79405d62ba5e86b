SPECIFICATION Spec
CHECK_DEADLOCK FALSE
CONSTANTS
    Queries <- MCQueries
    Spaces = {1, 2}
    Labels = {7}
    DefaultLimit = 2
    MaxRows = 3
INVARIANTS PagesMissNothing SpaceIsKept
