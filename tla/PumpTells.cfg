SPECIFICATION FairSpec
CONSTANTS
  Runs = {r1}
  Says = {"start", "token", "calls", "end", "header"}
  MaxLog = 4
  Capacity = 2
  Attempts = 1
  MaxPosts = 2
  Faults = {}
  MaxFails = 0
INVARIANTS
  StreamIsFold
PROPERTIES
  EndIsTold
CHECK_DEADLOCK FALSE
