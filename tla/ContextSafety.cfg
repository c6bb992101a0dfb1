CONSTANTS
  MaxRuns = 3
  MaxSteps = 2
  MaxRounds = 2
  MaxCalls = 2
  MaxCompacts = 2
  MaxParallel = 2
  FastUser = FALSE
  Truncated = TRUE
  Failures = TRUE
SPECIFICATION Spec
CHECK_DEADLOCK FALSE
INVARIANTS OneCompactionForgetsNothing RoundsAreWhole ReplayIsWhole TrackedIsContext
