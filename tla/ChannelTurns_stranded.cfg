SPECIFICATION FairSpec
CONSTANTS
    h1 = h1
    h2 = h2
    web = web
    NMsgs = 2
    Direct <- None
    Handlers <- TwoHandlers
    Others <- None
    Session = session
    NoTask = NoTask
    MaxIterations = 1
    MaxStops = 0
    MaxSwitches = 0
CHECK_DEADLOCK FALSE
PROPERTIES InboxIsServed
