CONSTANTS
  order = order
  wallet = wallet
  NoOrder = NoOrder
  Orders <- MCOrders
  Wallets <- MCWallets
  WalletOf <- MCWalletOf
  EthAmount <- MCEthAmount
  MaxCallbacks = 2
  Funds = 2
  RpcFails = FALSE
  MaxFaults = 0
SPECIFICATION Spec
INVARIANTS
  PaidOutOnce
CHECK_DEADLOCK FALSE
