SPECIFICATION Spec
CONSTANTS
  NUM_RX_MSGS = 3
  RxDepth = 1
  SendTimeout = 1
  TimeMod = 3
  ClockRuns = TRUE
  Targets = {}
  Types = {"REMOTE_FRAME"}
  MaxFrames = 3
INVARIANT QueuedOnce
