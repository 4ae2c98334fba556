SPECIFICATION Spec
CONSTANTS
    Sessions = {s1, s2}
    Timers = {t1}
    Stopper = stopper
    Requests <- TwoOrdersAndCancel
    MaxRequests = 3
    CustomPlans <- NoPlans
    FillStrategies = {"resting"}
    ChaosModes = {{"drop", "reorder"}}
    Faults = {}
    Nothing = Nothing
INVARIANTS
    EveryEventIsReported
PROPERTIES
    ImplementsLedger
CHECK_DEADLOCK FALSE
