SPECIFICATION GatewaySpec
CONSTANTS
    Sessions = {s1}
    Timers = {}
    Stopper = stopper
    Requests <- OneOrder
    MaxRequests = 99
    CustomPlans <- NoPlans
    FillStrategies = {"resting"}
    ChaosModes = {{"drop"}}
    Faults = {}
    Nothing = Nothing
    Clients = {"A"}
    Portfolio <- EachItsOwn
    MaxCalls = 2
    MaxRetries = 1
INVARIANTS
    CancelRetryIsIdempotent
CHECK_DEADLOCK FALSE
