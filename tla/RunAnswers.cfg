SPECIFICATION FairSpec
CONSTANTS
  Runs = {r1}
  Keys = {k1}
  DedupKey <- SameRequest
  Clients = {c1, c2}
  KeyOf <- OneSharesKey
  MaxAsks = 2
  MaxRestores = 1
  MaxCrashes = 1
  MaxTerminal = 0
  Faults = {}
  NoRun = NoRun
CHECK_DEADLOCK FALSE
INVARIANTS
  SoleDriver
  EndedRunIsClosed
  SettledPauseHasBundle
PROPERTIES
  TerminalIsFinal
  AnsweredOnce
  OwnedByOne
  InFlightSettles
  EndedRunCloses
