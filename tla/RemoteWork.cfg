SPECIFICATION Spec
CONSTANTS
    Thread = {t1, t2, t3}
    NoThread = NoThread
    Feed = {f}
    GateTicks = 1
    IconTicks = 1
    RequestTicks = 4
    MaxNow = 2
CHECK_DEADLOCK FALSE
INVARIANTS
    RequestsKeepDeadline
    NoLostWakeup
    OneLoad
    WaitersGetTheIcon
PROPERTY EveryCallReturns
