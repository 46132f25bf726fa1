SPECIFICATION Spec
CONSTANTS
    web = web
    ping = ping
    Targets <- MCTargets
    Specs <- MCSpecs
    Chains = {c1, c2, c3}
INVARIANTS
    TypeOK
    NoTargetIsLost
    OneChainUnlessOverlapped
PROPERTIES
    StopLeavesOnlyProbesInFlight
    RegisteredIsProbed
    RemovedFallsQuiet
