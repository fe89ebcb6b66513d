SPECIFICATION Spec
CONSTANTS
    e1 = e1
    e2 = e2
    inbox = inbox
    feed = feed
    s1 = s1
    s2 = s2
    Article <- TwoArticles
    View <- TwoViews
    ArticlesOf <- OneIsEmpty
    FirstView = inbox
    MinUndo = 2
    Slot <- TwoSlots
    MaxEvents = 2
INVARIANTS
    ShowsWhatIsWanted
    ReceiptsAccounted
PROPERTY MutationsKeepRows
SYMMETRY Symmetry
