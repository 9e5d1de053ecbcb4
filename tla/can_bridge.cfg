SPECIFICATION Spec
CONSTANTS
  NUM_RX_MSGS = 3
  RxDepth = 1
  SendTimeout = 1
  TimeMod = 3
  ClockRuns = TRUE
  Targets = {"CAN2"}
  Types = {"DATA_FRAME", "REMOTE_FRAME"}
  MaxFrames = 4
INVARIANTS TypeOK SlotStable WholeOnBus
PROPERTIES PendingUntouched SendResult QueueIsFifo
