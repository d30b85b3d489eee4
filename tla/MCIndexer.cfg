CONSTANTS
  t1 = t1
  NoTx = NoTx
  Txs <- MCTxs
  LogIndexes = {0, 1}
  Confirmations = 1
  ReorgBuffer = 2
  ChunkSize = 2
  StartBlock = 1
  NearHead = FALSE
  MaxBlocks = 5
  MaxTxBlock = 4
  MaxReorgs = 1
  MaxDepth = 3
  MaxFails = 2
SPECIFICATION FairSpec
INVARIANTS
  TypeOK
  FinalizedExact
PROPERTIES
  CatchesUpUnlessRefused
CHECK_DEADLOCK FALSE
