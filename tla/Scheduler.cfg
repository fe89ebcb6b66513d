SPECIFICATION FairSpec
CONSTANTS
    Worker = {w1, w2}
    Delay = 12
    None = None
    SpawnMayFail = TRUE
INVARIANTS
    TypeOK
    SleepsUntilDeadline
    OneWorker
    DeadlineIsEarliest
PROPERTY FlushFollowsOrStranded
