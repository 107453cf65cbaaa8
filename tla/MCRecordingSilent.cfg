SPECIFICATION Spec
CONSTANTS
    good = good
    thin = thin
    Levels <- MCLevels
    Imperfect <- MCImperfect
    Modes <- Stream
    SkipUnchanged = TRUE
    Heartbeat = 3
    StaleAfter = 2
    RecordStale = TRUE
    Lossy = FALSE
    Slack = 1
INVARIANT RowEveryHeartbeat
