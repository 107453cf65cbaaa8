SPECIFICATION Spec
CONSTANTS
    Depth = 1
    Followed <- AllFeeds
    Prices <- TwoPrices
    Sizes <- TwoSizes
    Stamps <- OneStamp
    FirstBook <- BestOnly
    MaxEvents = 3
    MaxWire = 1
INVARIANT TypeOK
INVARIANT LocalBookExact
INVARIANT ShownIsReal
INVARIANT OncePerTrade
INVARIANT EveryTradeKept
INVARIANT SideIsTakers
INVARIANT GrownFrameReadsSame
INVARIANT CutFrameIsLost
PROPERTY ImplementsView
