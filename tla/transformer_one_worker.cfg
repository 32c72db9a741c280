SPECIFICATION FairSpec
CONSTANTS
    Customers = {"c1"}
    Orders = {"o1"}
    Items = {"i1", "i2"}
    NoLine = NoLine
    Strict = TRUE
    Tolerance = 0
    Partitions = {"a", "b"}
    None = None
    Workers = {w1}
    Log <- VersionLog
    MetricsEnabled = FALSE
    FaultKinds = {"crash", "rebalance", "write_lost", "commit", "dlq_lost", "dlq_raises"}
    MaxFaults = 2
INVARIANT TotalsAddUp
PROPERTIES
    DimensionsNeverRegress
    CommittedNeverRewinds
    NoOverpaymentStored
    EventuallyCommitted
