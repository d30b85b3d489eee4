CONSTANTS
  admin = admin
  bob = bob
  NoAccount = NoAccount
  FundContract = FundContract
  MarketplaceContract = MarketplaceContract
  Accounts <- MCAccounts
  Admin <- admin
  Rejecting = {}
  Wired = FALSE
  MaxEvents = 1
  MaxTokens = 2
  MaxListings = 0
  MaxTime = 1
  MaxBalance = 4
  CreateArgs <- OneOrTwoTicketArgs
  Amounts = {1}
  Gifts = {2}
  TopUps = {1}
  PenaltyRates = {4}
  Quantities = {1}
  BatchPrices = {0, 2}
  EndDates = {0}
  RoleTargets = {}
  Verifiers <- JustAdmin
  Managers <- JustAdmin
  Senders = {}
  AdminQuantities = {1}
  ListingPrices = {2}
  RoyaltyRates = {}
  InitialRoyalty = 2
  FundTargets = {}
  PLATFORM_FEE_BPS = 1
  COMPLETION_BPS = 3
  BPS_DENOM = 4
  REWARD_SCALE = 5
  PRICE_CAP_NUMERATOR = 2
  PRICE_CAP_DENOMINATOR = 1
SPECIFICATION Spec
CHECK_DEADLOCK FALSE
INVARIANTS
  RefundsCovered
  CancelledRefundable
PROPERTIES
  RefundPaysOneTicket
