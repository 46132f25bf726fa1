SPECIFICATION Spec
CONSTANTS
    web = web
    Targets <- MCTargets
    DownThreshold = 1
    RecoveryThreshold = 1
    FlapWindow = 5
    FlapThreshold = 4
    DegradedLatencyMs = 5
    DegradedLossPct = 10
    Monitors <- MCMonitors
    NewTargets <- MCNewTargets
    Changes <- MCChanges
    Outcomes <- MCOutcomes
    MaxTime = 4
    MaxChanges = 3
    MaxRestarts = 1
CHECK_DEADLOCK FALSE
INVARIANTS
    TypeOK
    SavedEventsChain
    PushedIsCurrent
    LogAgreesWithPush
    GhostsHaveCause
PROPERTIES
    ResultIsHandled
