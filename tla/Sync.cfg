SPECIFICATION Spec
CONSTANTS
    e1 = e1
    e2 = e2
    t1 = t1
    t2 = t2
    NoCaller = NoCaller
    NoCell = NoCell
    Entry <- OneEntry
    Caller <- TwoCallers
    Selections <- UnreadAndStarred
    UserCells <- AllCells
    OtherCells <- StarColumn
    MaxRevision = 2
    MaxBatch = 1
    MaxLate = 1
    NamesUnknown = FALSE
SYMMETRY CallerSymmetry
INVARIANTS
    TypeOK
    Agreement
    InSync
PROPERTIES
    WishesStand
    KeepsPromise
