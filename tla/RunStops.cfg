CONSTANTS
  o1 = o1
  o2 = o2
  c1 = c1
  c2 = c2
  NoRun = NoRun
  NoServer = NoServer
  Parent <- MCParent
  Ancestors <- MCAncestors
  Runs = {o1, c1}
  Cancellers = {x}
  Servers = {s1}
  MaxWaits = 1
  MaxStops = 1
  Graceful = TRUE
  Crashes = TRUE
  LongWaits = FALSE
  OtherTabs = TRUE
  DBErrors = TRUE
  SendErrors = TRUE
  EarlyAnswers = TRUE
  AnswersAgain = TRUE
SPECIFICATION Spec
CHECK_DEADLOCK FALSE
INVARIANTS EndedRunIsSettled CancelledForAReason
PROPERTY DisconnectEndsTree
