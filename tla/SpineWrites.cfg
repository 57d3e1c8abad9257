SPECIFICATION FairSpec
CONSTANTS
  MaxBuffers = 2
  MaxTimers = 2
  MaxEvents = 3
  MaxFails = 2
INVARIANTS TypeOK KeptUntilWritten WrittenOnce
PROPERTIES CheckpointHolds EventuallyWritten
CHECK_DEADLOCK FALSE
