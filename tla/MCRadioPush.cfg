CONSTANTS
    f1 = f1
    f2 = f2
    m1 = m1
    m2 = m2
    Freqs <- TwoFreqs
    Modes <- TwoModes
    MaxLost = 1
    None = None
SPECIFICATION FairSpec
INVARIANTS
    TypeOK
    ShownUnlessLost
PROPERTIES
    Converges
    ShutdownEnds
