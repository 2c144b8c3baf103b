\* One walk, two changes, one failure.
CONSTANTS
    a = a  b = b  c = c
    None = None
    WordMax = 8
    DefaultLimit = 1
    Rows = {a, b, c}
    Keys = {1, 2, 3}
    Lists <- MCLists
    PageParams <- MCPageParams
    LimitParams <- MCLimitParams
    InitialTables <- MCInitialTables
    MaxChanges = 2
    MaxFailures = 1
SPECIFICATION Spec
INVARIANTS
    ListingTypeOK
    PageAsCounted
    SkippedOnlyByChange
    RepeatedOnlyByChange
PROPERTIES
    WalkEnds
CHECK_DEADLOCK FALSE
