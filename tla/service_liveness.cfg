SPECIFICATION ServiceFairSpec
CONSTANTS
  Jobs = {j1}
  NoJob = NoJob
  MaxQueued = 1
  ReservationTTL = 1
  UploadReadyTTL = 1
  TerminalTTL = 1
  QueueSize = 2
  StuckFiles = {}
PROPERTY SlotOwnersFinish
