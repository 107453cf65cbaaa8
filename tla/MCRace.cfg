SPECIFICATION FairSteering
CONSTANTS
    main = main
    alt = alt
    Candidates <- TwoCandidates
    Handshakes <- OneHandshake
    Bases <- TwoBases
    Jitter = 2
    Rounds = 2
    MaxChanges = 1
    FailureLimit = 2
    ImprovePct = 25
INVARIANT SteeringTypeOK
INVARIANT NoFlapping
PROPERTY SwitchTakesEffect
PROPERTY DeadIsLeft
PROPERTY BeatenIsLeft
