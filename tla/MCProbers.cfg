SPECIFICATION Spec
CONSTANTS
    Configs <- MCConfigs
    Timeout = 3
INVARIANTS
    TypeOK
    VerdictIsJustified
    NothingStaysOpen
PROPERTIES
    ProbeReturns
