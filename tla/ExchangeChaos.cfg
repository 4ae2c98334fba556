SPECIFICATION Spec
CONSTANTS
    Sessions = {s1}
    Timers = {t1}
    Stopper = stopper
    Requests <- OneOrderAndMalformed
    MaxRequests = 3
    CustomPlans <- OddPlans
    FillStrategies = {"resting", "callable"}
    ChaosModes = {{"drop", "reorder"}}
    Faults = {}
    Nothing = Nothing
INVARIANTS
    EveryEventIsReported
PROPERTIES
    RetryChangesNothing
CHECK_DEADLOCK FALSE
