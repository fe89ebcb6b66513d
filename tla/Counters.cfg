SPECIFICATION MCSpec
CONSTANTS
    e1 = e1
    e2 = e2
    t1 = t1
    f1 = f1
    f2 = f2
    NoCaller = NoCaller
    NoCell = NoCell
    Entry <- TwoEntries
    Caller <- OneCaller
    Feed <- TwoFeeds
    FeedOf <- OneFeedEach
    Selections <- Views
    UserCells <- FirstReadSecondStarred
    OtherCells <- FirstRead
    MaxRevision = 2
    MaxBatch = 0
    MaxLate = 0
    MaxCount = 3
    NamesUnknown = FALSE
INVARIANTS
    CountsExact
    TotalsExact
