SPECIFICATION Spec
CONSTANTS
  Blocks <- MCBlocks
  NoBlock <- MCNoBlock
  Parent <- MCParent
  Height <- MCHeight
  BlockTxs <- MCBlockTxs
  Inputs <- MCInputs
  Outputs <- MCOutputs
  HashPrefix <- MCHashPrefix
  HashXs <- MCHashXs
INVARIANT
  LocsRestored
