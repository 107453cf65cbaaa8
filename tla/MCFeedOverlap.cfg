SPECIFICATION Spec
CONSTANTS
    Depth = 1
    Followed <- OnlyMexc
    Prices <- TwoPrices
    Sizes <- TwoSizes
    Stamps <- OneStamp
    FirstBook <- BestOnly
    MaxEvents = 3
    MaxWire = 1
INVARIANT OncePerTradeAlways
