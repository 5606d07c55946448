SPECIFICATION Spec
CONSTANTS
    MaxRows = 4
    Columns = 2
    Sizes = {1, 4}
    Groupings <- MCGroupings
    TargetTokens = 9
    MaxTokens = 11
    RowOverlap = 2
INVARIANTS
    DeclaredOverlapIsShared
CHECK_DEADLOCK FALSE
