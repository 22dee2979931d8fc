SPECIFICATION Spec
CONSTANTS
    BlockTxs <- MCBlockTxs
    MintOf <- MCMintOf
    RefOrder <- MCRefOrder
    Denied = {"F"}
    MaxSupply = 1000
    Blocks <- MCBlocks
    FirstTip <- MCFirstTip
    Reveals <- MCReveals
    Denial = {"D"}
    MaxBackups = 2
    ReorgLimit = 2
INVARIANTS
    TypeOK
    BookFollowsChain
    TablesAgree
    TokensAsResynced
    BalancesFollowChain
    RowsAgree
    PagesCoverList
    QueriesAgree
    MineableFollowsChain
    ListingFollowsIndex
    SummariesFresh
