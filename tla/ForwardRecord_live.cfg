CONSTANTS
  s1 = s1
  s2 = s2
  Symbols = {s1}
  MaxDate = 7
  RetryBound = 1
  Targets <- LongOnly
  Unhealable <- FirstBarUnhealable
  Gapless = TRUE
  MaxCrashes = 0
SPECIFICATION FairSpec
PROPERTIES
  FailuresHeal
  HolesClose
