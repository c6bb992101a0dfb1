CONSTANTS
  caller = caller
  user = user
  f1 = f1
  f2 = f2
  w1 = w1
  w2 = w2
  w3 = w3
  NoChange = NoChange
  Spaces = {user}
  Facts = {f1}
  Writers = {w1, w2}
  Kind <- MCKind
  Scope <- MCScope
  Target <- MCTarget
  ResidentMax = 1
  DetachedMax = 2
  LayerArgs = {"", "resident"}
  TagArgs = {"locked", ""}
  MaxWrites = 1
  MaxRevisions = 4
SPECIFICATION Spec
CHECK_DEADLOCK FALSE
INVARIANTS LogTellsItem QuotedChainIsWhole
