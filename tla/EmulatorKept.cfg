SPECIFICATION Spec
CONSTANTS
  Unit = 1000
  TradeFee = 1
  TickSize = 1
  StepSize = 2
  MinNotional = 12
  Pairs <- MCPairs
  Coin <- MCCoin
  Base <- MCBase
  CoinSlice <- MCCoinSlice
  BaseSlice <- MCBaseSlice
  Unknown = "none"
  Deposit <- MCDeposit
  Profit = 20
  Prices <- MCPrices
  Volumes <- MCVolumes
  Races = {}
  MaxOrders = 4
  SentVolumes <- MCSentVolumes
  SentPrices <- MCPrices
INVARIANTS
  TypeOK
  PositionInHistory
PROPERTIES
  AccountKept
CHECK_DEADLOCK FALSE
