\* A ring of three slots wraps twice and overflows; the start, the creation of
\* the worker, malloc, the MD5, locks and unlocks may fail.
SPECIFICATION FairSpec
CONSTANTS
  MaxPackets = 7
  Packets = {1, 2, 3, 4, 5, 6, 7}
  Intact = {1, 2, 4, 7}
  Length = 3
  NULL = NULL
  Garbage = Garbage
  Uninitialised = {NULL}
  Faults = {"start", "create", "malloc", "md5", "lock", "unlock"}
  UINT_MAX = 15
INVARIANTS TypeOK OneOwner NoLeak NoLostWakeup ProcessedInOrder ReportsDriftByOne
PROPERTIES DropsOnlyWhenFull EveryPacketReleased MainReturnsToSelect
CHECK_DEADLOCK FALSE
