\* Two peers that send two packets of two bytes between them, in any pieces;
\* a ring of one slot; the start, the MD5 and unlocks may fail.
SPECIFICATION ServerSpec
CONSTANTS
  MaxPackets = 2
  Packets = {1, 2}
  Intact = {1, 2}
  Length = 1
  NULL = NULL
  Garbage = Garbage
  Uninitialised = {NULL}
  Faults = {"start", "md5", "unlock"}
  UINT_MAX = 15
  Peers = {a, b}
  Nobody = Nobody
  PacketSize = 2
  READ_CHUNK_SIZE = 2
  FD_SETSIZE = 6
  MaxFiles = 7
  MaxBacklog = 2
  MaxBytes = 4
PROPERTIES ImplementsPacketLog EveryPacketHandled
CHECK_DEADLOCK FALSE
