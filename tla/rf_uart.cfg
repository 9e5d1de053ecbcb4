SPECIFICATION Spec
CONSTANTS
  RX_BUF_SIZE = 8
  IndexMod = 4
  Byte = {0, 1, 2, 3, 4, 5, 6, 7, 8, 9, 10, 11, 12}
  MaxBytes = 12
CHECK_DEADLOCK FALSE
INVARIANT IndicesCount
PROPERTY BytesInOrder
