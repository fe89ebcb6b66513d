SPECIFICATION FairSpec
CONSTANTS
    e1 = e1
    e2 = e2
    t1 = t1
    t2 = t2
    NoCaller = NoCaller
    NoCell = NoCell
    Entry <- OneEntry
    Caller <- OneCaller
    Selections <- OnlyAll
    UserCells <- AllCells
    OtherCells <- StarColumn
    MaxRevision = 2
    MaxBatch = 0
    MaxLate = 0
    NamesUnknown = FALSE
PROPERTY WishesConfirmed
