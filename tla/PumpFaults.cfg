SPECIFICATION FairSpec
CONSTANTS
  Runs = {r1}
  Says = {"start", "quiet", "token", "calls", "end", "error", "header", "began",
          "tool", "bare"}
  MaxLog = 2
  Capacity = 1
  Attempts = 2
  MaxPosts = 1
  Faults = {"redis", "db"}
  MaxFails = 2
INVARIANTS
  TypeOK
  NoEventLost
  ToolStateFirst
  EndIsToldOnce
  TellsTheLog
PROPERTIES
  PumpEnds
CHECK_DEADLOCK FALSE
