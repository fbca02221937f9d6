\* A ring of three slots, cleared by malloc; any lock and unlock may fail.
SPECIFICATION Spec
CONSTANTS
  Length = 3
  Packets = {p1, p2, p3, p4}
  NULL = NULL
  Garbage = Garbage
  Uninitialised = {NULL}
  Faults = {"lock", "unlock"}
  UINT_MAX = 15
INVARIANTS TypeOK RingConsistent
PROPERTY ImplementsQueue
