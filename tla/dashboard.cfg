SPECIFICATION MCSpec
CONSTANTS
    Failed = Failed
    DlqMax = 0
    QuarantineMax = 0
    FreshnessWindow = 1
    WarningChecks = {"serving_enum_values_known", "dlq_quarantine_thresholds"}
    AllowWarnings = FALSE
    MaxSnapshotAge = 1
    Streams <- AllStreams
    Loads = {"first", "second"}
    Gates = {"gate"}
    MaxTime = 4
    MaxDlq = 1
    MaxFaults = 2
INVARIANTS
    TypeOK
    OverpaidOrdersReported
    KnownDefectsStopTheGate
    SoundBooksPass
PROPERTIES
    PassMeansFresh
    PageCatchesUp
CHECK_DEADLOCK FALSE
