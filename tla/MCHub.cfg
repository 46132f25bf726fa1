SPECIFICATION Spec
CONSTANTS
    Senders = {s1, s2}
    Clients = {c1, c2}
    Capacity = 2
    MaxVersion <- MCMaxVersion
    s1 = s1
    s2 = s2
INVARIANTS
    TypeOK
    NoSendOnClosedChannel
    ReadersAreCurrent
PROPERTIES
    ViewGoesBackOnlyFromQuiet
    BroadcastCompletes
