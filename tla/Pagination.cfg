SPECIFICATION FairSpec
CONSTANTS
    LastId = 6
    PageSize = 2
    Rejoining = FALSE
INVARIANT AbsenceIsReal
PROPERTY FetchEnds
CHECK_DEADLOCK FALSE
