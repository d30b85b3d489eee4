CONSTANTS
  i1 = i1
  c1 = c1
  p2 = p2
  x = x
  r1 = r1
  p = p
  d = d
  w1 = w1
  q1 = q1
  NoTx = NoTx
  Investors <- MCInvestors
  Txs <- MCTxs
  Kind <- MCKind
  Who <- MCWho
  Amount <- MCAmount
  Goal = 1
  LongMax = 1
  Pasts <- MCPasts
  Requests <- MCOneRequest
  Confirmations = 0
  ReorgBuffer = 2
  ChunkSize = 2
  MaxBlocks = 3
  MaxReorgs = 1
  MaxCleanUps = 1
  MaxUpsets = 2
SPECIFICATION FairSpec
INVARIANTS
  TypeOK
  
PROPERTIES
  DocumentsSettle
CHECK_DEADLOCK FALSE
