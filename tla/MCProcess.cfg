CONSTANTS
    t1 = t1
    t2 = t2
    Threads <- MCThreads
    NoThread = NoThread
    NoPool = NoPool
    NoCallback = NoCallback
    Unset = Unset
    Chars <- MCChars
    Keys <- MCKeys
    Base <- MCBase
    Routes <- MCRoutes
    Cores = 2
    Configs <- MCConfigs

SPECIFICATION Spec

INVARIANTS
    TypeOK
    ParsedAsWritten
    WaitsForSense
    HeadersRead
    RoutedRight
    AnswerFramed
    BuiltOnce
    BuiltBeforeUse
    FreedOnce
    UsedAlive

PROPERTY
    HandlerReturns

\* The process ends.
CHECK_DEADLOCK FALSE
