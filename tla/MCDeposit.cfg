CONSTANTS
  order = order
  wallet = wallet
  NoOrder = NoOrder
  Orders <- MCOrders
  Wallets <- MCWallets
  WalletOf <- MCWalletOf
  EthAmount <- MCEthAmount
  MaxCallbacks = 3
  Funds = 2
  RpcFails = TRUE
  MaxFaults = 1
SPECIFICATION FairSpec
INVARIANTS
  TypeOK
  CreditBacked
PROPERTIES
  PaymentsSettle
CHECK_DEADLOCK FALSE
