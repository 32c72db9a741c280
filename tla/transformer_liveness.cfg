SPECIFICATION FairSpec
CONSTANTS
    Customers = {"c1"}
    Orders = {"o1"}
    Items = {"i1"}
    NoLine = NoLine
    Strict = FALSE
    Tolerance = 0
    Partitions = {"a", "b"}
    Workers = {w1, w2}
    Log <- DeliveryLog
    None = None
    MetricsEnabled = FALSE
    FaultKinds <- AllFaultKinds
    MaxFaults = 1
PROPERTY EventuallySettled
