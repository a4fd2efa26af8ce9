SPECIFICATION FairSpec
CONSTANTS
    NSlots = 3
    Pool = 2
    Conditional <- MCConditional
CHECK_DEADLOCK FALSE
INVARIANTS OnlyCyclesAreRejected SuccessIsComplete ResultsComeLast
PROPERTY WorkflowsEnd
