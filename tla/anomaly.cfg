SPECIFICATION AnomalySpec
CONSTANTS
    Customers = {"c1"}
    Orders = {"o1"}
    Items = {"i1"}
    NoLine = NoLine
    Strict = FALSE
    Tolerance = 0
    Partitions = {"b"}
    Log <- RerunLog
    None = None
    MetricsEnabled = FALSE
    FaultKinds <- AnyFault
    MaxFaults = 1
    ReplayTopics = {"b"}
    MaxMessages = 5
    IdleTimeout = 1
    Payments = "b"
    History <- OneBefore
    Cleanup = TRUE
    AnomalyIds = {"over", "pend", "old"}
INVARIANTS
    AnomalyTypeOK
    PassMeansHandled
    FailureHasCause
CHECK_DEADLOCK FALSE
