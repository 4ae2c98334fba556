SPECIFICATION FairGatewaySpec
CONSTANTS
    Sessions = {s1}
    Timers = {}
    Stopper = stopper
    Requests <- OneOrder
    MaxRequests = 99
    CustomPlans <- NoPlans
    FillStrategies = {"resting"}
    ChaosModes = {{"drop", "reorder"}}
    Faults = {"stop"}
    Nothing = Nothing
    Clients = {"A"}
    Portfolio <- EachItsOwn
    MaxCalls = 2
    MaxRetries = 1
INVARIANTS
    ClientNeverAhead
PROPERTIES
    CallsEnd
CHECK_DEADLOCK FALSE
