SPECIFICATION FairSpec
CONSTANTS
    o1 = o1
    o2 = o2
    i1 = i1
    i2 = i2
    c1 = c1
    c2 = c2
    Ops <- TwoOps
    Invocations <- TwoInvocations
    Callers <- TwoCallers
    NoOp = NoOp
    MaxCompleted = 1
    MaxAttempts = 2
INVARIANTS OneBodyPerOperation NoUnsafeRepeat OneInvocation
PROPERTIES ExecutedAtMostOnce ExecutionsEnd
