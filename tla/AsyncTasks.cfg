CONSTANTS
  t1 = t1
  t2 = t2
  t3 = t3
  k1 = k1
  k2 = k2
  s1 = s1
  s2 = s2
  NoServer = NoServer
  NoTask = NoTask
  Tasks = {t1}
  Keys = {k1}
  Key <- MCKey
  Outcome <- MCOutcome
  Servers = {s1, s2}
  LastVersion = 4
  Numbered = TRUE
  Second = 1
  Lease = 1
  Stale = 1
  Backoff = 1
  TTL = 1
  MaxTime = 2
  MaxFaults = 1
SPECIFICATION Spec
CHECK_DEADLOCK FALSE
PROPERTIES KeepsRegister LeaseIsTheHolders EndIsNoticed
