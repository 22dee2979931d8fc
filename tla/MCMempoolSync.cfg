SPECIFICATION Spec
CONSTANTS
    Txs <- MCTxs
    Spends <- MCSpends
    Touches <- MCTouches
    Contents <- MCContents
    Blocks <- MCBlocks
    FirstTip <- MCFirstTip
    FirstPool <- MCFirstPool
    MaxArrivals = 1
INVARIANTS
    TypeOK
    NoDoubleSpend
    ToldUnlessMissed
PROPERTY
    Settles
