\* Every buffer of up to six bytes.
SPECIFICATION Spec
CONSTANTS
  Byte = {x, y, z}
  UINT_MAX = 15
  Lengths = {0, 1, 2, 3, 4, 5, 6}
INVARIANTS Reverses StaysInside
CHECK_DEADLOCK FALSE
