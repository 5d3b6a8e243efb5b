CONSTANTS
  Symbols <- FourSymbols
  Tickers <- FourSymbols
  Prices <- OnePrice
  Targets <- LongOnly
  StartingCash = 16
  PerTradeMax = 4
  TotalDeployedMax = 16
  MaxNewPositions = 1
  MaxOrders = 3
  DailyLossLimit = 2
  CashBand = 2
  MaxCrashes = 1
SPECIFICATION FairSpec
PROPERTIES
  ExitsHappen
