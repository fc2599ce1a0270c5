SPECIFICATION Spec
CONSTANTS
  Bars = 4
  LongOnly = FALSE
  Breakouts = TRUE
  TrendFilter = TRUE
  VolumeNeeded = FALSE
  Confluence = FALSE
INVARIANTS
  WithTheTrend
  ExposureFollowsSignal
  TradesAreWanted
CHECK_DEADLOCK FALSE
