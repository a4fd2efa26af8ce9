SPECIFICATION Spec
CONSTANTS
    a = a
    b = b
    Callers = {a, b}
    NoOwner = NoOwner
    NoCaller = NoCaller
    MaxAttempts = 2
    MaxOwners = 2
    MaxOps = 2
CHECK_DEADLOCK FALSE
INVARIANT AwaitedIsReported
