SPECIFICATION FairSpec
CONSTANTS
  eeprom_total_size = 6
  eeprom_page_size = 2
  Byte = {0, 1, 2, 3, 4, 5, 10, 11, 12, 13, 14, 15}
  Buffers <- MCBuffers
  Transfers = {"ok", "failed"}
  MaxCalls = 2
CHECK_DEADLOCK FALSE
INVARIANTS TypeOK WritesInPlace
PROPERTY WriteEnds
