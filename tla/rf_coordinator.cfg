SPECIFICATION Spec
CONSTANTS
  EndDevices = {DeviceA, DeviceB}
  NoAddr = NoAddr
  RF_MAX_NODES = 2
  RF_NODE_POLL_TIME = 1
  RF_NODE_ALIVE_TIME = 5
  DISCOVER_TIME_MS = 5
  RoundTrip = 1
  TimeMod = 13
  MaxTime = 24
SYMMETRY DeviceSymmetry
INVARIANTS TypeOK NodesUnique SilentIsDropped
PROPERTY OneLossTolerated
