SPECIFICATION Spec
CONSTANTS
  Blocks <- MCBlocks
  NoBlock <- MCNoBlock
  HashXs <- MCHashXs
  Parent <- MCParent
  Height <- MCHeight
  TxCount <- MCTxCount
  Chain <- MCChain
  Touches <- MCTouches
  ReorgLimit = 2
  MaxHeight = 3
  MaxTxCount = 5
  MaxFlushes = 4
INVARIANTS
  TypeOK
  HistoryExact
  RowsInOrder
  FilesCoverTip
  UtxosMatchTip
  UndoReady
PROPERTY
  Refines
