SPECIFICATION FairSpec
CONSTANTS
  d1 = d1
  d2 = d2
  r1 = r1
  r2 = r2
  None = None
  Drafts <- MCDrafts
  Params <- MCApart
  Edits <- MCEdits
  Invest <- MCInvest
  Second <- MCSecond
  Requests <- MCRequests
  MaxRequests = 2
INVARIANTS TypeOK RightDocument
PROPERTIES EveryEventDocumented ConfirmedShown
CHECK_DEADLOCK FALSE
