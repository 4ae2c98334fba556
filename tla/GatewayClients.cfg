SPECIFICATION GatewaySpec
CONSTANTS
    Sessions = {s1, s2}
    Timers = {t1}
    Stopper = stopper
    Requests <- TwoOrders
    MaxRequests = 99
    CustomPlans <- NoPlans
    FillStrategies = {"full"}
    ChaosModes = {{"reorder"}}
    Faults = {}
    Nothing = Nothing
    Clients = {"A", "B"}
    Portfolio <- EachItsOwn
    MaxCalls = 2
    MaxRetries = 0
INVARIANTS
    ClientAgrees
CHECK_DEADLOCK FALSE
