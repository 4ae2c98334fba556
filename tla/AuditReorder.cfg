SPECIFICATION Spec
CONSTANTS
    Sessions = {s1}
    Timers = {t1}
    Stopper = stopper
    Requests <- OneOrder
    MaxRequests = 1
    CustomPlans <- NoPlans
    FillStrategies = {"full"}
    ChaosModes = {{"drop", "reorder"}}
    Faults = {}
    Nothing = Nothing
INVARIANTS
    AuditMatchesBook
CHECK_DEADLOCK FALSE
