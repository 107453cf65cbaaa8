SPECIFICATION SteeringSpec
CONSTANTS
    main = main
    alt = alt
    Candidates <- TwoCandidates
    Handshakes <- OneHandshake
    Bases <- TwoBases
    Jitter = 2
    Rounds = 2
    MaxChanges = 1
    FailureLimit = 2
    ImprovePct = 25
PROPERTY DeliversIfAnyDoes
