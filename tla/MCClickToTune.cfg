CONSTANTS
    f1 = f1
    f2 = f2
    Freqs <- TwoFreqs
    Segments <- ThreeModes
    Overrides <- DefaultOverrides
    ChannelRoom = 2
    MaxUnread = 2
SPECIFICATION Spec
INVARIANTS
    OkMeansTuned
