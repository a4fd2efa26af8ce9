SPECIFICATION FairSpec
CONSTANTS
    read = read
    run = run
    i1 = i1
    Sigs <- TwoTools
    Direct <- Workflow
    Ids <- TwoIds
    NoId = NoId
    NoSig = NoSig
    User = User
    MaxIterations = 3
    MaxIdentical = 2
    MaxSkips = 3
    MaxRotations = 1
    MaxRetries = 2
    MaxCalls = 2
    MaxInterjections = 1
    MaxOthers = 1
INVARIANTS EveryRequestIsPaired RequestsArePaidFor RepeatsAreCutOff
PROPERTIES NoBodyAfterStop TurnEnds
