CONSTANTS
  r1 = r1
  r2 = r2
  r3 = r3
  c1 = c1
  c2 = c2
  NoRun = NoRun
  RunCallers = {c1, c2}
  Caller <- MCCaller
  Runs = {r1, r2, r3}
  MaxFaults = 1
SPECIFICATION WorkSpec
CHECK_DEADLOCK FALSE
INVARIANTS NothingLeftBehind MountedCodeExists
PROPERTY ReleaseReturns
