CONSTANTS
  Callers = {a, b}
  Owners = {a, b}
  Workers = {w1, w2}
  Versions = {v1, v2}
  NoVersion = NoVersion
  Edited = Edited
  MaxRequests = 3
  Me = b
  MaxRuns = 2
SYMMETRY Symmetry
SPECIFICATION Spec
CONSTRAINT Going
ACTION_CONSTRAINT InTime
INVARIANTS ConnectedIsSynced GoneLeavesNothing RunsWhatWasLoaded
CHECK_DEADLOCK FALSE
