SPECIFICATION AuditSpec
CONSTANTS
    Sessions = {s1}
    Timers = {}
    Stopper = stopper
    Requests <- OneOrderAndRejected
    MaxRequests = 3
    CustomPlans <- NoPlans
    FillStrategies = {"resting", "partial_then_full"}
    ChaosModes = {{"drop", "duplicate"}, {"duplicate", "reorder"}}
    Faults = {}
    Nothing = Nothing
    Recorders = {"t1", "t2"}
    Records <- TwoSessionsRecords
    LastTime = 3
    Originals <- TwoMessages
    StrayBytes = {1, 32, 48, 49, 57, 61, 95, 128}
    Prices <- MinusSixToSix
    Quantities = {1, 2}
    Ticks = {1, 2, 3, 4}
    AverageLimit = 1000
    WorkingLimit = 100
    PowersOfTen = {1, 10, 100, 1000, 10000}
    MaxFills = 2
    WindowMs = 2
    MinActions = 2
    ThresholdNum = 1
    ThresholdDen = 2
    MaxEvents = 5
    LastEventMs = 4
    Keys = {k1, k2}
    SpoofWindowMs = 2
    CancelThresholdMs = 1
    TimelineLength = 4
    TimelineMs = 3
    Latencies = {10, 13}
    MaxOrders = 3
    RegressionNum = 1
    RegressionDen = 5
    MaxChecks = 3
    Duration = 6
    SampleInterval = 2
    RequestGap = 2
    BurstGap = 1
    BurstPercent = 34
    LongestNap = 1
    Overrun = 1
    LongestCall = 3
INVARIANTS
    AuditMatchesBook
    AuditIsComplete
    OwnOrdersRebuilt
    AlarmsHaveACause
    OnlyTheIntactAccepted
    MoneyIsKept
    AlertsAreTheSuspicious
    SpoofsAreTheRapidUnfilled
    PercentilesSplitTheSamples
    ComparedWithAWholeBaseline
    AttemptsAddUp
    WindowsPartition
    OpenOrdersBounded
PROPERTY
    SoakEnds
CHECK_DEADLOCK FALSE
