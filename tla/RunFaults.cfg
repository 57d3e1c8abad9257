SPECIFICATION Spec
CONSTANTS
  Runs = {r1}
  Keys = {k1}
  DedupKey <- SameRequest
  Clients = {c1}
  KeyOf <- OwnKeys
  MaxAsks = 2
  MaxRestores = 1
  MaxCrashes = 1
  MaxTerminal = 0
  Faults = {"bundle", "flush", "swallow"}
  NoRun = NoRun
CHECK_DEADLOCK FALSE
INVARIANTS
  TypeOK
  NoOrphanRun
  TerminalizedOnce
  CancelWins
