SPECIFICATION FairSpec
CONSTANTS
  Scripts <- ProperUse
  MaxSpawns = 5
  StartRetries = 2
  AutoRestart = FALSE
  SpawnMayFail = TRUE
CHECK_DEADLOCK FALSE
INVARIANTS
  TypeOK
  OneChild
  RetriesBounded
  StopEndsChild
PROPERTIES
  NoSpawnAfterStop
  DeathIsHandled
  StopReturns
