SPECIFICATION FairSpec
CONSTANTS
  SettleTurns = 1
  ConnectTurns = 1
  ResetTurns = 2
  AddressTurns = 1
  WaitMod = 8
  ResetMs = 1
  Modes = {"accessory", "phone"}
  DisconnectMs = 2
  TimeMod = 4
  Sub = {s1}
  NoSub = NoSub
  MAX_NUM_SUBSCRIPTIONS = 1
  MaxPlugs = 2
INVARIANTS TypeOK DisconnectBeforeConnect SessionIsLive
PROPERTY HostSettles
