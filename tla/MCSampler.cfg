SPECIFICATION GridSpec
CONSTANTS
    good = good
    thin = thin
    Levels <- MCLevels
    Imperfect <- MCImperfect
    Modes <- Both
    SkipUnchanged = TRUE
    Heartbeat = 3
    StaleAfter = 2
    RecordStale = TRUE
    Lossy = TRUE
    Slack = 6
    Interval = 2
    MaxLate = 3
INVARIANT ForwardFills
INVARIANT HeartbeatKept
INVARIANT OnGrid
INVARIANT NextInstant
INVARIANT RowsKeepComing
PROPERTY RepeatsOnlyOnHeartbeat
