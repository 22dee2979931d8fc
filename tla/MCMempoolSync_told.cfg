SPECIFICATION Spec
CONSTANTS
    Txs <- MCTxs
    Spends <- MCSpends
    Touches <- MCTouches
    Contents <- MCContents
    Blocks <- LinearBlocks
    FirstTip <- MCFirstTip
    FirstPool <- MCFirstPool
    MaxArrivals = 1
INVARIANT
    AllTold
