SPECIFICATION FairSpec
CONSTANTS
    Customers = {"c1"}
    Orders = {"o1"}
    Items = {"i1"}
    NoLine = NoLine
    Strict = FALSE
    Tolerance = 0
    Partitions = {"a", "b"}
    Log <- ReplayLog
    None = None
    MetricsEnabled = FALSE
    FaultKinds <- AnyFault
    MaxFaults = 1
    ReplayTopics = {"a", "b"}
    MaxMessages = 4
    IdleTimeout = 1
INVARIANT
    CompleteReplayRebuilds
PROPERTIES
    ReplayEnds
    ReplayDelivers
