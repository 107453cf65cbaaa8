SPECIFICATION FairSpec
CONSTANTS
    sym = sym
    sym2 = sym2
    main1 = main1
    alt = alt
    Symbols <- OneSymbol
    Endpoints <- TwoEndpoints
    DefaultEndpoint = main1
    Transports <- AllTransports
    SupportsWs = TRUE
    PickFastest = TRUE
    Relatency = TRUE
    BackoffMin = 1
    BackoffMax = 2
    FailuresBeforeRest = 2
    FallbackFor = 2
    StaleAfter = 2
    TradeSilence = 1
    CollectTrades = TRUE
INVARIANT TypeOK
INVARIANT OneFeeder
INVARIANT RowsTagged
INVARIANT NothingOutlivesRun
PROPERTY NothingStartsAfterStop
PROPERTY TradeWarningEarned
PROPERTY StopEnds
PROPERTY ImplementsLink
PROPERTY WindowIsBounded
PROPERTY SafetyNet
PROPERTY SilenceReported
