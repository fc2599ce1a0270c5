SPECIFICATION FairSpec
CONSTANTS
  A = A
  B = B
  C = C
  Symbols = {A, B, C}
  MaxDay = 1
  SimWorkers = 2
  FetchWorkers = 1
  Concurrency = 2
  Spoiled <- OneKey
  UnreadKeys <- OneKey
  CleanRuns = 1
  MaxRuns = 2
  MaxKills = 1
INVARIANTS
  PaidOnce
  ActivityAddsUp
  VetoesAreBlocks
  NeverStuck
  FailuresAreCaught
PROPERTIES
  ImplementsMemo
  VerdictsStick
  RunsEnd
CHECK_DEADLOCK FALSE
