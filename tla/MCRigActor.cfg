CONSTANTS
    poller = poller
    listener = listener
    Clients <- MCClients
    Kinds <- MCKinds
    ChannelCapacity = 1
    MaxLate = 1
    MaxLines = 2
    None = None
SPECIFICATION FairSpec
INVARIANTS
    TypeOK
    Positional
    OneCommandPerCaller
PROPERTIES
    RecoveryNeedsAnswer
    EveryCallAnswered
    ActorEnds
CHECK_DEADLOCK FALSE
