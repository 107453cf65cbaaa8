SPECIFICATION FairLifeSpec
CONSTANTS
    sup = sup
    sampler = sampler
    Supervisors <- OneSupervisor
    Sampler = sampler
    Rows <- MCRows
    Untracked <- MCUntracked
    Overflowing <- MCOverflowing
    StoredBefore <- MCBefore
    QueueMaxsize = 2
    BatchSize = 2
    MaxSubmit = 4
INVARIANT TypeOK
INVARIANT Accounted
INVARIANT WrittenIsStored
INVARIANT CloseLosesNothing
INVARIANT MemoryBounded
PROPERTY BatchAtomic
PROPERTY KeepsContract
PROPERTY StopExits
PROPERTY RowsLeaveMemory
CHECK_DEADLOCK FALSE
