CONSTANTS
  Kinds = {"claude tools", "gpt tools", "claude", "gpt", "minimax"}
  Capacity = 1
  MaxDeltas = 3
  MaxCalls = 2
  MaxFrames = 4
  MaxWrites = 1
  MaxSize = 2
  Places = 1
  NoOne = noone
SPECIFICATION StreamsSpec
CHECK_DEADLOCK FALSE
INVARIANTS EndedIsWhole ReadIsSent WholeFrames
PROPERTIES KeepsChunkStream SilenceIsNoticed
