\* What the main thread prints after it has released the mutex.
SPECIFICATION Spec
CONSTANTS
  MaxPackets = 2
  Packets = {1, 2}
  Intact = {1, 2}
  Length = 3
  NULL = NULL
  Garbage = Garbage
  Uninitialised = {NULL}
  Faults = {}
  UINT_MAX = 15
INVARIANT ReceivedReportsPackets
