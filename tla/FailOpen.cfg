SPECIFICATION Spec
CONSTANTS
  A = A
  B = B
  Watchlist <- TwoSymbols
  TTL = 2
  BlockOnBearish = TRUE
  BlockOnEarnings = TRUE
  Replies <- SomeReplies
  DayLength = 4
  OpenAt = 1
  CloseAt = 3
  Crypto = {B}
  MaxSpan = 2
  MaxFaults = 1
INVARIANT
  FailsOpen
