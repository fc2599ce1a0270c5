SPECIFICATION FairLedgerSpec
CONSTANTS
  A = A
  B = B
  Symbols = {A, B}
  Watchlist <- TwoSymbols
  InitCash = 40
  EquityLevels = {80, 120}
  OthersBooks <- Shared
  HoursPerDay = 1
  KeyHours = 3
  MaxDay = 0
  DrawdownPct = 10
  MaxOpenPositions = 1
  MaxPositionPct = 25
  MinNotional = 20
  CashPct = 98
  FillsLag = TRUE
  RepliesLost = TRUE
  MaxFaults = 2
INVARIANTS
  CapUpToUnseen
  PausedTickSells
  OrderIsCovered
PROPERTIES
  ImplementsSeenGate
  SizeUpToUnseen
  KillSwitchFlattens
