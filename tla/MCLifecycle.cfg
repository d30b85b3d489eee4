SPECIFICATION FairSpec
CONSTANTS
  MaxTickets = 2
  Quantities = {1}
  MintBatchSize = 1
  MaxRequests = 1
  MaxFaults = 1
  MaxUpsets = 1
INVARIANTS TypeOK EndedOnlyWithChain
PROPERTIES StatusSettles EventResolves 
CHECK_DEADLOCK FALSE
