SPECIFICATION RulesSpec
CONSTANTS
    Ids <- SomeIds
    FeedIds <- SomeFeedIds
    Titles <- SomeTitles
    UnreadCounters <- SomeCounters
    MaxCategories = 2
    MaxFeeds = 3
    MaxTokens = 6
    TextNodes <- SomeTextNodes
    MaxNodes = 4
    Limits <- SomeLimits
    Elements <- SomeElements
    MaxElements = 3
    MaxEnclosures = 1
    Sides <- SomeSides
    IconSizes <- SomeSizes
    Rows <- SomeRows
    RowSelections <- SomeRowSelections
    MaxRows = 3
    RowLimits <- SomeRowLimits
INVARIANTS
    SelectionsAgree
    ListStandsStill
    NavigationCounts
    TemplateFilled
    PreviewIsFaithful
    FirstImageTaken
    IconFits
