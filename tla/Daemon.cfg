SPECIFICATION FairSpec
CONSTANTS
  A = A
  B = B
  Watchlist <- TwoSymbols
  TTL = 2
  BlockOnBearish = TRUE
  BlockOnEarnings = TRUE
  Replies <- SomeReplies
  DayLength = 4
  OpenAt = 1
  CloseAt = 3
  Crypto = {}
  MaxSpan = 2
  MaxFaults = 1
INVARIANTS
  NoOverlap
  ClosedBarsOnly
PROPERTIES
  DecidedOnNews
  PaidOncePerTTL
  TicksKeepComing
