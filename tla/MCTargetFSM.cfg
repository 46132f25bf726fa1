SPECIFICATION Spec
CONSTANTS
    Targets = {t1}
    DownThreshold = 2
    RecoveryThreshold = 2
    FlapWindow = 3
    FlapThreshold = 3
    DegradedLatencyMs = 5
    DegradedLossPct = 10
    Outcomes <- MCOutcomes
    TargetConfigs <- MCConfigs
    MaxTime = 7
INVARIANTS
    TypeOK
    ReportedIsCurrent
    FlappingHasEvidence
    HistoryIsOneWindow
    EventRateBounded
PROPERTIES
    NoEventWhileMuted
    OutageHasEvidence
    ImplementsLifecycle
