SPECIFICATION FairSpec
CONSTANTS
  A = A
  B = B
  X = X
  Watchlist = {A, B}
  Others = {X}
  MaxOpen = 1
  RequireStop = FALSE
  LongOnly = TRUE
  Thin = {B}
  MaxCalls = 2
  MaxBuys = 2
  MaxFaults = 1
PROPERTIES
  NoStacking
  FirstEntryRespectsCap
  StopsExit
