SPECIFICATION FairSpec
CONSTANTS
    a = a
    b = b
    Callers = {a, b}
    NoOwner = NoOwner
    NoCaller = NoCaller
    MaxAttempts = 2
    MaxOwners = 3
    MaxOps = 3
CHECK_DEADLOCK FALSE
INVARIANTS MarkedIsDown OwnersAreReachable
PROPERTIES StopTakesEffect StopsEnd
