CONSTANTS
  admin = admin
  bob = bob
  NoAccount = NoAccount
  FundContract = FundContract
  MarketplaceContract = MarketplaceContract
  Accounts <- MCAccounts
  Admin <- admin
  Rejecting = {}
  Wired = TRUE
  MaxEvents = 1
  MaxTokens = 1
  MaxListings = 2
  MaxTime = 2
  MaxBalance = 4
  CreateArgs <- MCCreateArgs
  Amounts = {1}
  Gifts = {}
  TopUps = {}
  PenaltyRates = {}
  Quantities = {1}
  BatchPrices = {0}
  EndDates = {1}
  RoleTargets <- JustBob
  Verifiers <- JustAdmin
  Managers <- JustAdmin
  Senders <- JustBob
  AdminQuantities = {}
  ListingPrices = {2}
  RoyaltyRates = {0, 5}
  InitialRoyalty = 2
  FundTargets <- MCFundTargets
  PLATFORM_FEE_BPS = 1
  COMPLETION_BPS = 2
  BPS_DENOM = 4
  REWARD_SCALE = 5
  PRICE_CAP_NUMERATOR = 2
  PRICE_CAP_DENOMINATOR = 1
SPECIFICATION Spec
CHECK_DEADLOCK FALSE
INVARIANTS
  TypeOK
  ListedInCustody
  CountersExact
PROPERTIES
  FinalTicketsFrozen
