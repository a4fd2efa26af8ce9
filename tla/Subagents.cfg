SPECIFICATION FairSpec
CONSTANTS
    k1 = k1
    k2 = k2
    t1 = t1
    Tasks = {k1, k2}
    Spawned = {k1}
    Turns = {t1}
    Turn <- MCTurn
    MaxConcurrent = 1
CHECK_DEADLOCK FALSE
INVARIANTS NoGhosts DoneIsReadable
PROPERTIES ChildrenKeepToThePool ReportsStayTrue ChildrenEnd
