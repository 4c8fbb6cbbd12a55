CONSTANTS
    one = one
    two = two
    Daemons <- TwoDaemons
    CommandLines <- FourLines
    Inputs <- ManyInputs
    Multicast <- Group
SPECIFICATION FairSpec
INVARIANTS
    TypeOK
    OneWriter
    OneInCharge
    TopLayerWins
    AcceptedWorks
PROPERTIES
    ShutdownEnds
