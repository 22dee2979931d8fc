SPECIFICATION Spec
CONSTANTS
    BlockTxs <- MCBlockTxs
    MintOf <- MCMintOf
    RefOrder <- MCRefOrder
    Denied = {"F"}
    MaxSupply = 1000
    Blocks <- ClosingBlocks
    FirstTip <- MCFirstTip
    Reveals <- MCReveals
    Denial = {"D"}
    MaxBackups = 2
    ReorgLimit = 2
INVARIANT
    ReorgReopens
