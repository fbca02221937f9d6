\* Three peers and an fd_set that holds one connection; reads of one byte,
\* while the start, select, accept and the handling of a packet may fail.
SPECIFICATION Spec
CONSTANTS
  Peers = {a, b, c}
  Nobody = Nobody
  PacketSize = 2
  READ_CHUNK_SIZE = 1
  FD_SETSIZE = 5
  MaxFiles = 6
  MaxBacklog = 2
  MaxBytes = 3
  Faults = {"start", "select", "accept", "handle"}
INVARIANTS FdSetsMatch FramesAligned StaysInService
CHECK_DEADLOCK FALSE
