SPECIFICATION Spec
CONSTANTS
  MaxBars = 6
  UseRegime = TRUE
INVARIANTS
  FaithfulRead
CHECK_DEADLOCK FALSE
