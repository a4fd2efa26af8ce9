SPECIFICATION FairSpec
CONSTANTS
    h1 = h1
    h2 = h2
    web = web
    NMsgs = 3
    Direct <- FirstIsDirect
    Handlers <- TwoHandlers
    Others <- Web
    Session = session
    NoTask = NoTask
    MaxIterations = 1
    MaxStops = 1
    MaxSwitches = 1
CHECK_DEADLOCK FALSE
INVARIANTS OnePlace SavedOnce InjectionIsPaidFor StopReachesTheTurn
PROPERTIES TurnsComeAndGo
