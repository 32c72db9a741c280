SPECIFICATION MCSpec
CONSTANTS
    ConnectorNames <- TwoConnectors
    Topics = {"payments", "refunds"}
    Refusing = {"connect", "transformer"}
    Hanging = {"dashboard"}
    JolokiaConfigured = TRUE
    Window = 2
    Changing = {"health", "connectors", "quality", "dlq"}
    MaxChanges = 3
    CallTimeout = 8
    ScrapeTimeout = 10
INVARIANTS
    LastingTroubleFires
    AlertsHaveCause
    DlqGrowthFires
