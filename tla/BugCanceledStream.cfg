SPECIFICATION FairSpec
CONSTANTS
  Runs = {r1}
  Says = {"start", "token", "end"}
  MaxLog = 2
  Capacity = 1
  Attempts = 1
  MaxPosts = 1
  Faults = {}
  MaxFails = 0
PROPERTY CanceledIsTold
CHECK_DEADLOCK FALSE
