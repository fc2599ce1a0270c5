SPECIFICATION Spec
CONSTANTS
  A = A
  B = B
  C = C
  Symbols = {A, B, C}
  Watchlist <- ThreeSymbols
  InitCash = 100
  EquityLevels = {80, 100}
  OthersBooks <- Alone
  HoursPerDay = 2
  KeyHours = 3
  MaxDay = 1
  DrawdownPct = 10
  MaxOpenPositions = 2
  MaxPositionPct = 40
  MinNotional = 20
  CashPct = 98
  FillsLag = TRUE
  RepliesLost = FALSE
  MaxFaults = 0
INVARIANTS
  CapRespected
