SPECIFICATION MCFairSpec
CONSTANTS
    CommandLines <- MCCommandLines
    InventorySource = "postgres-fallback"
    Quantities = {1}
    Prices = {500}
    FlowIds = {1, 2}
    MaxTime = 2
    NoLine = NoLine
INVARIANTS
    TypeOK
    References
    RefundsCovered
    PaymentsAdmitted
PROPERTIES
    Terminates
CHECK_DEADLOCK FALSE
