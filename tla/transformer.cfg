SPECIFICATION Spec
CONSTANTS
    Customers = {"c1"}
    Orders = {"o1"}
    Items = {"i1"}
    NoLine = NoLine
    Strict = TRUE
    Tolerance = 0
    Partitions = {"a", "b"}
    None = None
    Workers = {w1, w2}
    Log <- OrderLog
    MetricsEnabled = TRUE
    FaultKinds <- AllFaultKinds
    MaxFaults = 2
INVARIANTS
    TypeOK
    CommittedSettled
    TableReflectsWrites
    EveryFactKept
    MemoryBacked
    StrictReferences
    MetricsNeverOverReport
PROPERTY ImplementsDelivery
SYMMETRY SymmetricWorkers
