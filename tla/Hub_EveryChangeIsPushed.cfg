SPECIFICATION Spec
CONSTANTS
    Senders = {s1}
    Clients = {c1}
    Capacity = 2
    MaxVersion <- MCMaxVersion
    s1 = s1
    s2 = s2
INVARIANT EveryChangeIsPushed
