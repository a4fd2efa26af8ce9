SPECIFICATION Spec
CONSTANTS
    c1 = c1
    c2 = c2
    m1 = m1
    m2 = m2
    s1 = s1
    x1 = x1
    Conns = {c1, c2}
    Messages = {m1, m2}
    Streams = {}
    ToolCalls = {}
    NoConn = NoConn
    Nil = Nil
    MaxTokens = 2
    MaxDelays = 1
CHECK_DEADLOCK FALSE
INVARIANT RunningTurnCanBeStopped
