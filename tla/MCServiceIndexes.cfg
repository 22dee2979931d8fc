SPECIFICATION Spec
CONSTANTS
    BlockTxs <- MCBlockTxs
    MintOf <- MCMintOf
    RefOrder <- MCRefOrder
    ReorgLimit = 2
    WaveChars <- MCWaveChars
    MaxName = 3
    Genesis <- MCGenesis
    Addresses = {"A", "B", "C"}
    HotLimit = 1
    RealmIds = {"glade", "moor"}
    RealmKinds = {"forest"}
    BalanceBuckets <- MCBalanceBuckets
    AgeBuckets <- MCAgeBuckets
    BlocksPerDay = 2
    ChunkSize = 3
    Blocks <- MCBlocks
    FirstTip <- MCFirstTip
    HotNames <- MCHotNames
    MaxTroubles = 2
    LastBackfill = 1
INVARIANTS
    NamesFollowChain
    RecordsFollowChain
    BalancesFollowOutputs
