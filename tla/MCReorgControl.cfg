SPECIFICATION Spec
CONSTANTS
    Blocks <- MCBlocks
    FirstTip <- MCFirstTip
    StartTips <- MCStartTips
    CacheBlocks = 2
    FetchBlocks = 2
    ForcedCounts = {1, 2}
    MaxForces = 2
INVARIANTS
    TypeOK
    PrefetchContiguous
    NoSpuriousReorg
    ReorgExact
PROPERTY
    Converges
