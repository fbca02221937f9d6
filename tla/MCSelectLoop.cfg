\* Two peers send up to two packets and a part of a third, in any pieces.
SPECIFICATION FairSpec
CONSTANTS
  Peers = {a, b}
  Nobody = Nobody
  PacketSize = 2
  READ_CHUNK_SIZE = 4
  FD_SETSIZE = 6
  MaxFiles = 7
  MaxBacklog = 2
  MaxBytes = 5
  Faults = {}
INVARIANTS TypeOK FdSetsMatch FramesAligned
PROPERTIES OnlyStalledPeersDropped EveryPacketRead
CHECK_DEADLOCK FALSE
