CONSTANTS
  agent = agent
  skill = skill
  server = server
  Agents = {agent}
  Skills = {skill}
  Servers = {server}
  Defs = {old, new}
  Nothing = nothing
  Content <- MCContent
  Workers = {w1, w2}
  MaxRequests = 3
  CallerKeys = {a, b}
  Default = default
  RowKinds = {"tool", "key"}
  Names = {n}
  Users = {u, v}
  Clerks = {k1, k2}
  MaxRows = 3
  MaxWrites = 6
  People = {adm, usr}
  Admins = {adm}
  Nobody = nobody
  NoBonus = nobonus
  ModelNames = {m1, m2}
  Versions = {old, new}
  ApiKeys = {a1, a2}
  Servants = {w1, w2}
  MaxModels = 2
  MaxOrders = 3
  Votes = {like}
  Problems = {slow}
  NoVote = novote
  NoProblem = noproblem
  Authors = {w1, w2}
  MaxRemarks = 4
SPECIFICATION RegistriesSpec
INVARIANTS UninstallRestores NothingIsInherited WasChecked KindIsOwner CreditsAddUp FeedbackIsKept
PROPERTY CopyIsWhole
CHECK_DEADLOCK FALSE
SYMMETRY Symmetry
