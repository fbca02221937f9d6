\* The slots hold whatever malloc found in them.
SPECIFICATION Spec
CONSTANTS
  Length = 3
  Packets = {p1, p2}
  NULL = NULL
  Garbage = Garbage
  Uninitialised = {NULL, Garbage}
  Faults = {}
  UINT_MAX = 15
INVARIANT FreesOnlyPackets
