SPECIFICATION Spec
CONSTANTS
  Bars = 3
  LongOnly = FALSE
  Breakouts = TRUE
  TrendFilter = TRUE
  VolumeNeeded = FALSE
  Confluence = FALSE
INVARIANT
  NothingFromTheFuture
CHECK_DEADLOCK FALSE
