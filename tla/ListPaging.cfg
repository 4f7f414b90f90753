SPECIFICATION PagingSpec
CONSTANTS
    MaxRows = 4
    MaxSize = 22
    Budgets = {0, 2, 3, 4, 5, 6, 8, 10, 13, 17, 21}
    LargestRow = 4
    RowSizes = {1, 4}
    PageSizes = {1, 2, 3, 5}
    MaxPageSize = 5
INVARIANTS PagingTypeOK LargestPrefix NoteHonest NoSilentGap AdviceSuffices
PROPERTY WalkEnds
CHECK_DEADLOCK FALSE
