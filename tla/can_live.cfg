SPECIFICATION FairSpec
CONSTANTS
  NUM_RX_MSGS = 3
  RxDepth = 1
  SendTimeout = 1
  TimeMod = 3
  ClockRuns = TRUE
  Targets = {"CAN2"}
  Types = {"DATA_FRAME"}
  MaxFrames = 3
INVARIANT InOrderOnce
PROPERTIES QueueDrains QueuedIsForwarded
