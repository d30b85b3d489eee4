CONSTANTS
  i1 = i1
  c1 = c1
  x = x
  r1 = r1
  p = p
  p2 = p2
  d = d
  w1 = w1
  q1 = q1
  NoTx = NoTx
  Investors <- MCInvestors
  Txs <- MCRebuildTxs
  Kind <- MCRebuildKind
  Who <- MCRebuildWho
  Amount <- MCRebuildAmount
  Goal = 1
  LongMax = 9
  Pasts <- MCRebuildPasts
  Requests <- MCNoRequest
  Confirmations = 0
  ReorgBuffer = 2
  ChunkSize = 2
  MaxBlocks = 3
  MaxReorgs = 0
  MaxCleanUps = 2
  MaxUpsets = 0
SPECIFICATION Spec
INVARIANTS
  PenaltyCountedOnce
CHECK_DEADLOCK FALSE
