SPECIFICATION FairSpec
CONSTANTS
  t1 = t1
  t2 = t2
  c1 = c1
  c2 = c2
  Tokens <- MCTokens
  Contributors <- MCContributors
  Deployments <- MCEither
  MaxMoves = 1
  MaxRequests = 1
  MaxFaults = 1
  MaxUpsets = 2
INVARIANT TypeOK
PROPERTIES TicketsRefunded ContributionsRefunded RefundsDocumented
CHECK_DEADLOCK FALSE
