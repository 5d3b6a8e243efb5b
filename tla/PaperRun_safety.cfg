CONSTANTS
  Symbols <- ThreeSymbols
  Tickers <- ThreeSymbols
  Prices <- TwoPrices
  Targets <- LongOnly
  StartingCash = 9
  PerTradeMax = 4
  TotalDeployedMax = 8
  MaxNewPositions = 2
  MaxOrders = 3
  DailyLossLimit = 2
  CashBand = 2
  MaxCrashes = 1
SPECIFICATION Spec
INVARIANTS
  TypeOK
  WholePositions
  OvershootBounded
  CashFloor
PROPERTIES
  ImplementsDailyBook
  BooksBalance
  LossLimitStopsTheDay
