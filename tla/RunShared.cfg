SPECIFICATION Spec
CONSTANTS
  Runs = {r1, r2}
  Keys = {k1}
  DedupKey <- SameRequest
  Clients = {c1}
  KeyOf <- OwnKeys
  MaxAsks = 1
  MaxRestores = 1
  MaxCrashes = 0
  MaxTerminal = 1
  Faults = {}
  NoRun = NoRun
CHECK_DEADLOCK FALSE
SYMMETRY RunSymmetry
INVARIANTS
  SingleFlight
  IInv
