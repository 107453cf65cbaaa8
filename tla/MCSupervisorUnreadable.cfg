SPECIFICATION FairSpec
CONSTANTS
    sym = sym
    sym2 = sym2
    main1 = main1
    alt = alt
    Symbols <- OneSymbol
    Endpoints <- OneEndpoint
    DefaultEndpoint = main1
    Transports <- OnlyAuto
    SupportsWs = TRUE
    PickFastest = TRUE
    Relatency = FALSE
    BackoffMin = 1
    BackoffMax = 2
    FailuresBeforeRest = 2
    FallbackFor = 2
    StaleAfter = 2
    TradeSilence = 0
    CollectTrades = FALSE
PROPERTY UnreadableFallsBack
