\* Two batches of two packets, in every layout, while any call may fail.
SPECIFICATION FairSpec
CONSTANTS
  BATCH_LOOPS = 2
  BATCH_SIZE = 2
  Words = 3
  Contents <- SmallContents
  MAX_ASCII_CHARS = 6
  BLOCK_SIZE = 8
  WORD = 16
  Layouts = {"packet", "locals", "other"}
  Faults = {"start", "csv", "md5", "write", "drop"}
INVARIANTS WireCarriesFile PacketsSealed ExitMeansSent DigestIsMd5
PROPERTY Returns
CHECK_DEADLOCK FALSE
