SPECIFICATION Spec
CONSTANTS
  A = A
  B = B
  C = C
  Symbols = {A, B}
  Watchlist <- TwoSymbols
  InitCash = 100
  EquityLevels = {80, 100}
  OthersBooks <- Alone
  HoursPerDay = 2
  KeyHours = 3
  MaxDay = 1
  DrawdownPct = 10
  MaxOpenPositions = 1
  MaxPositionPct = 40
  MinNotional = 20
  CashPct = 98
  FillsLag = FALSE
  RepliesLost = FALSE
  MaxFaults = 1
PROPERTIES
  NoEntryAfterLiquidation
