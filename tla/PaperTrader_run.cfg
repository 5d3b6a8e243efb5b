CONSTANTS
  Last = 4
  Prices <- UpOrDown
  Scores <- Steep
  NaN = NaN
  Engines <- AllEngines
  Shorting = {TRUE, FALSE}
  Entry = 1
  Exit = 0
  Stop = 1
  Window = 2
  Pctile = 60
  FillModes = {TRUE, FALSE}
SPECIFICATION Spec
CHECK_DEADLOCK FALSE
INVARIANTS
  TypeOK
  LedgerMatchesCurve
  CurveMatchesBacktest
  NoPhantomTrades
  TwinAgrees
  PositionsJustified
PROPERTIES
  StopOutWaits
