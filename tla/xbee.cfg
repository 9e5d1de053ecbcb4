SPECIFICATION FairSpec
CONSTANTS
  RX_BUF_SIZE = 8
  IndexMod = 4
  Byte = {0, 1, 2, 3}
  ByteMod = 4
  XBEE_START_DEL = 3
  XBEE_API_ID_MOD_STAT = 1
  XBEE_MOD_STAT_COORD_START = 0
  XBEE_MOD_STAT_ASSOC = 2
  XBEE_MOD_STAT_DIASSOC = 1
  XBEE_BUF_SZ = 2
  XBEE_RECV_FRAME_TO = 1
  isCoordinator = FALSE
  TimeMod = 4
  Payloads <- MCPayloads
  MaxFrames = 2
INVARIANTS TypeOK FramesIntact
PROPERTIES ReceiverRecovers FramesDelivered
