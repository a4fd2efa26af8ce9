SPECIFICATION FairSpec
CONSTANTS
    Tasks = {t1, t2, t3}
    Sessions = {s1, s2}
    Locks = {l1, l2}
    NoLock = NoLock
    NoSession = NoSession
    NoTask = NoTask
    MaxWaiters = 4
INVARIANTS
    OneTurnPerSession
    NoSessionIsStuck
PROPERTIES
    GrantsAreFifo
    EveryRequestIsServed
CHECK_DEADLOCK FALSE
