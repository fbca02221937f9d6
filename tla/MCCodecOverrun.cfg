\* The data loop of the encoder.
SPECIFICATION Spec
CONSTANTS
  Byte = {0, 1}
  Words = 2
  MICROTIME_SIZE = 2
  MD5_SIZE = 2
PROPERTY EncodeStaysInside
CHECK_DEADLOCK FALSE
