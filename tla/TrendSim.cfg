SPECIFICATION Spec
CONSTANTS
  MaxBars = 7
  UseRegime = TRUE
INVARIANTS
  OpenIsBaseline
  ProbeIsSuperset
  TradesDisjoint
  TradesFollowDecisions
  NothingLostUnasked
  VetoOnlyDelays
  RetryLastsTheLeg
  LiveReadAgrees
  NoWindowMerged
  ReentryInSameLeg
  VetoesArePriced
CHECK_DEADLOCK FALSE
