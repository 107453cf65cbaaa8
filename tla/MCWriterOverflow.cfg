SPECIFICATION LifeSpec
CONSTANTS
    sup = sup
    sampler = sampler
    Supervisors <- OneSupervisor
    Sampler = sampler
    Rows <- MCRows
    Untracked <- MCUntracked
    Overflowing <- MCOverflowing
    StoredBefore <- MCNone
    QueueMaxsize = 2
    BatchSize = 2
    MaxSubmit = 4
INVARIANT DrainSurvives
CHECK_DEADLOCK FALSE
