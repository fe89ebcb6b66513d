SPECIFICATION Spec
CONSTANTS
    LastId = 5
    PageSize = 2
    Rejoining = TRUE
INVARIANT AbsenceIsReal
CHECK_DEADLOCK FALSE
