\* cb_current_length on a full ring.
SPECIFICATION Spec
CONSTANTS
  Length = 3
  Packets = {p1, p2}
  NULL = NULL
  Garbage = Garbage
  Uninitialised = {NULL}
  Faults = {}
  UINT_MAX = 15
INVARIANT LengthIsCount
