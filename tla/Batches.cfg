SPECIFICATION Spec
CONSTANTS
    e1 = e1
    e2 = e2
    t1 = t1
    t2 = t2
    NoCaller = NoCaller
    NoCell = NoCell
    Entry <- TwoEntries
    Caller <- OneCaller
    Selections <- UnreadViews
    UserCells <- ReadColumn
    OtherCells <- Nothing
    MaxRevision = 2
    MaxBatch = 2
    MaxLate = 0
    NamesUnknown = FALSE
INVARIANTS
    UndoIntact
    InSync
