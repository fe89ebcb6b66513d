SPECIFICATION ApiSpec
CONSTANTS
    a = a
    b = b
    NoAccount = NoAccount
    NoEngine = NoEngine
    NoThread = NoThread
    Worker = Worker
    Caller = {c1, c2}
    Account <- TwoAccounts
    Engine = {s1, s2, s3}
    Generation <- TwoGenerations
    Texts <- AllTexts
    AccountAt <- Servers
INVARIANTS
    TypeOK
    OneService
    SessionIsLatest
    WishesHaveAWorker
PROPERTIES
    BoundaryIsRuntime
    EveryCallAnswered
CHECK_DEADLOCK FALSE
