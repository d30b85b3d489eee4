CONSTANTS
  u1 = u1
  u2 = u2
  l1 = l1
  q1 = q1
  q2 = q2
  m = m
  b = b
  ls = ls
  sl = sl
  ul = ul
  us = us
  rf = rf
  NoTx = NoTx
  NoListing = NoListing
  Organizer = Organizer
  Market = Market
  Users <- MCUsers
  Listings <- MCListings
  Txs <- MCTxs
  Kind <- MCKind
  By <- MCBy
  Listing <- MCListing
  Requests <- MCTwoRequests
  Deployments <- MCEither
  Pasts <- MCHistories
  Confirmations = 0
  ReorgBuffer = 1
  ChunkSize = 3
  MaxBlocks = 4
  MaxReorgs = 1
  MaxFaults = 1
SPECIFICATION FairSpec
INVARIANTS
  TypeOK
  TicketHealed
PROPERTIES
  StatsSettle
  ListingsSettle
CHECK_DEADLOCK FALSE
