SPECIFICATION Spec
CONSTANTS
    Customers = {"c1"}
    Orders = {"o1"}
    Items = {"i1"}
    NoLine = NoLine
    Strict = FALSE
    Tolerance = 0
    Partitions = {"a"}
    Workers = {w1}
    Log <- TicketLog
    None = None
    MetricsEnabled = FALSE
    FaultKinds = {}
    MaxFaults = 0
INVARIANT FactVersionsKept
