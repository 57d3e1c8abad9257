SPECIFICATION Spec
CONSTANTS
  MaxBuffers = 1
  MaxTimers = 2
  MaxEvents = 2
  MaxFails = 0
INVARIANT FlushIsBarrier
CHECK_DEADLOCK FALSE
