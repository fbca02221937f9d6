\* Every packet of two words, over two values of a byte.
SPECIFICATION Spec
CONSTANTS
  Byte = {0, 1}
  Words = 2
  MICROTIME_SIZE = 2
  MD5_SIZE = 2
INVARIANTS RoundTrip NumbersSurvive
CHECK_DEADLOCK FALSE
