CONSTANTS
  s1 = s1
  s2 = s2
  Symbols = {s1, s2}
  MaxDay = 5
  Window = 2
  Halted <- HaltedOnce
  MaxDeaths = 1
SPECIFICATION FairSpec
INVARIANTS
  TypeOK
  ScoredOnClosedBars
  CommitIsWhole
PROPERTIES
  ClosedBarsStay
  CommitsEnterDays
  MainRecordGrows
