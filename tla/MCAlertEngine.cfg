SPECIFICATION Spec
CONSTANTS
    Targets <- MCTargets
    Workers = {w1, w2}
    Configs <- MCConfigs
    Notifiers <- MCNotifiers
    Transitions <- MCTransitions
    MaxEvents = 2
    MaxTime = 3
CHECK_DEADLOCK FALSE
INVARIANTS
    TypeOK
    ThrottleSpacing
    SuppressedHasReason
    MatchesAreAnswered
PROPERTIES
    PassedIsTried
