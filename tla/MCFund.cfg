CONSTANTS
  admin = admin
  u1 = u1
  u2 = u2
  NoAccount = NoAccount
  Accounts <- MCAccounts
  Admin <- admin
  Rejecting <- MCRejecting
  Wired = FALSE
  MaxEvents = 1
  CreateArgs <- MCCreateArgs
  Amounts = {1, 2}
  Gifts = {1}
  TopUps = {1}
  PenaltyRates = {3, 6}
  Quantities = {0, 1}
  MaxTime = 2
  MaxBalance = 8
  PLATFORM_FEE_BPS = 1
  COMPLETION_BPS = 2
  BPS_DENOM = 4
  REWARD_SCALE = 5
SYMMETRY Symmetry
SPECIFICATION Spec
INVARIANTS
  TypeOK
  RewardsBacked
  SharesAddUp
  Solvent
  SettlementExclusive
PROPERTIES
  SharesFrozen
  ImplementsLifecycle
CHECK_DEADLOCK FALSE
