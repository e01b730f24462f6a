SPECIFICATION Spec
CONSTANTS
  Unit = 1000
  TradeFee = 1
  TickSize = 1
  StepSize = 2
  MinNotional = 12
  Pairs <- MCOne
  Coin <- MCOneCoin
  Base <- MCOneBase
  CoinSlice <- MCOneCoin
  BaseSlice <- MCOneBase
  Unknown = "none"
  Deposit <- MCDeposit
  Profit = 20
  Prices <- MCPrices
  Volumes <- MCVolumes
  Races = {}
  MaxOrders = 4
  SentVolumes <- MCSentVolumes
  SentPrices <- MCPrices
INVARIANTS
  OfferedAboveCost
CHECK_DEADLOCK FALSE
