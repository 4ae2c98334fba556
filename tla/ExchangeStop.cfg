SPECIFICATION FairSpec
CONSTANTS
    Sessions = {s1, s2}
    Timers = {t1}
    Stopper = stopper
    Requests <- JustOrder
    MaxRequests = 2
    CustomPlans <- NoPlans
    FillStrategies = {"resting"}
    ChaosModes = {{"reorder"}}
    Faults = {"hangup", "stop"}
    Nothing = Nothing
PROPERTIES
    EverythingSettles
    StopCompletes
