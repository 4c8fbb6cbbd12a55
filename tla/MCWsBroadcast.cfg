CONSTANTS
    bandmap = bandmap
    dashboard = dashboard
    cw = cw
    ft8 = ft8
    Clients <- TwoClients
    States <- TwoStates
    ChannelCapacity = 2
    Numbers = 3
    NoFrame = NoFrame
SPECIFICATION FairSpec
PROPERTIES
    Consecutive
    PagesFollow
