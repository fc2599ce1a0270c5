SPECIFICATION Spec
CONSTANTS
  A = A
  B = B
  C = C
  Symbols = {A, B, C}
  Watchlist <- ThreeSymbols
  InitCash = 100
  EquityLevels = {80, 100}
  OthersBooks <- Shared
  HoursPerDay = 2
  KeyHours = 3
  MaxDay = 1
  DrawdownPct = 10
  MaxOpenPositions = 2
  MaxPositionPct = 40
  MinNotional = 33
  CashPct = 98
  FillsLag = FALSE
  RepliesLost = TRUE
  MaxFaults = 2
INVARIANTS
  PausedMeansSwept
  BreachStopsEntries
PROPERTIES
  NoEntryWhilePaused
  AnchorStable
