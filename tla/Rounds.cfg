CONSTANTS
  m1 = m1
  m2 = m2
  Selected = m1
  Available <- MCAvailable
  Mutual = TRUE
  TellsCause = FALSE
  MaxDeltas = 2
  RoundLimit = 2
  TodoIds = {i1, i2}
  Contents = {c1, c2}
  Statuses = {"pending", "completed"}
  Absent = absent
  MaxPatch = 2
  MaxTodoCalls = 2
  MaxTodoRuns = 2
SPECIFICATION RoundsSpec
CHECK_DEADLOCK FALSE
INVARIANTS ShownIsTheAnswer StoppedKeepsShown TodosAgree
PROPERTY RoundEnds
