SPECIFICATION FairSpec
CONSTANTS
  MaxEvents = 4
  PerMs = 2
  MaxPages = 2
  MaxDrops = 1
  MaxLate = 2
  Radix = 10
  Window = 3
  QueueMax = 2
INVARIANTS
  TypeOK
  NoRedelivery
  NoGap
  OverMeansTold
  StatusIsTrue
PROPERTIES
  EndIsSeen
CHECK_DEADLOCK FALSE
