\* The docstring of force_chain_reorg, which the code does not keep: a request
\* accepted while a reorg runs is cleared with it.
SPECIFICATION Spec
CONSTANTS
    Blocks <- StillBlocks
    FirstTip <- c4
    StartTips <- StillStartTips
    CacheBlocks = 2
    FetchBlocks = 2
    ForcedCounts = {1}
    MaxForces = 2
CHECK_DEADLOCK FALSE
INVARIANTS
    QueuedReorgRuns
