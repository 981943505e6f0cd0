SPECIFICATION Spec
CONSTANTS
    Worker = {"w1", "w2"}
    Stream = {"acme"}
    Request <- MCRequest
    Wanted <- MCWanted
    Durable = FALSE
    Capacity = 2
    RefillTime = 1
    QueueSize = 1
    MaxRequests <- MCMaxRequests
    MaxClock = 1
INVARIANTS LimiterBound StreamIsComplete ReachedAlertsFire
PROPERTIES DeadClientsLeave
CHECK_DEADLOCK FALSE
