CONSTANTS
  Symbols <- ThreeSymbols
  Tickers <- ThreeSymbols
  Prices <- TwoPrices
  Targets <- LongOnly
  StartingCash = 16
  PerTradeMax = 4
  TotalDeployedMax = 8
  MaxNewPositions = 2
  MaxOrders = 3
  DailyLossLimit = 2
  CashBand = 4
  MaxCrashes = 0
SPECIFICATION Spec
PROPERTIES
  DeployedUnderCap
