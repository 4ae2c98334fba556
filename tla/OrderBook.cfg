SPECIFICATION PartsSpec
CONSTANTS
    OrderIds = {o1, o2}
    Amounts = {0, 1, 2, 3, 4}
    NoQuantity = NoQuantity
    WireTexts <- TwoTexts
    Noise <- SomeNoise
    ReadSize = 10
    MaxWrites = 2
    FixClients = {"D1", "D2", "user"}
    Users = {"user"}
    Workers = {"D1", "D2"}
    OrderRequests = {"D1", "D2"}
    ReportsOf <- SomeReports
    RawRequests = {"R1"}
    Asks <- WhoAsks
    MaxConnections = 2
    MaxSends = 2
    RetryLimit <- WhoRetries
    MaxConcurrencies = {1, 2}
INVARIANTS
    TypeOK
    FillAccounting
    HistoryExplainsState
    ConnectionsKeptApart
    AnswersBelong
    GivenOnce
    BatchAccounted
PROPERTIES
    OrdersOnlyAdvance
    FailuresAreHarmless
    ImplementsLedger
    ImplementsStream
    NothingWrittenIsLost
    BatchEnds
CHECK_DEADLOCK FALSE
