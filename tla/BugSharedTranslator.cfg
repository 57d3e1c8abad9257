SPECIFICATION Spec
CONSTANTS
  Runs = {r1, r2}
  Says = {"start", "token"}
  MaxLog = 2
  Capacity = 2
  Attempts = 1
  MaxPosts = 1
  Faults = {}
  MaxFails = 0
INVARIANT PureFold
SYMMETRY Alike
CHECK_DEADLOCK FALSE
