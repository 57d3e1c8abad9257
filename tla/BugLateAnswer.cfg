SPECIFICATION Spec
CONSTANTS
  Runs = {r1}
  Keys = {k1}
  DedupKey <- SameRequest
  Clients = {c1, c2}
  KeyOf <- OwnKeys
  MaxAsks = 2
  MaxRestores = 0
  MaxCrashes = 0
  MaxTerminal = 1
  Faults = {}
  NoRun = NoRun
CHECK_DEADLOCK FALSE
PROPERTIES
  LoserIsRejected
