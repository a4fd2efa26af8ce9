SPECIFICATION FairSpec
CONSTANTS
    j1 = j1
    Jobs = {j1}
    NoTimer = NoTimer
    MaxConcurrent = 2
    MaxRetries <- MCMaxRetries
    Claimable = {j1}
    NTimers = 2
    Runs <- MCRuns
CHECK_DEADLOCK FALSE
INVARIANTS OneLiveTimer OverlapsNeedAManualRun ClaimsAreReleased
PROPERTY DueJobsRun
