SPECIFICATION Spec
CONSTANTS
    Sessions = {s1, s2}
    Timers = {}
    Stopper = stopper
    Requests <- OneOrder
    MaxRequests = 2
    CustomPlans <- NoPlans
    FillStrategies = {"resting"}
    ChaosModes = {{}}
    Faults = {}
    Nothing = Nothing
INVARIANTS
    AcceptedNeverRejected
CHECK_DEADLOCK FALSE
