SPECIFICATION ServiceSpec
CONSTANTS
  Jobs = {j1, j2}
  NoJob = NoJob
  MaxQueued = 1
  ReservationTTL = 1
  UploadReadyTTL = 1
  TerminalTTL = 1
  QueueSize = 1
  StuckFiles = {j2}
INVARIANTS
  SlotIsWorkedFor
  CancellationArrives
  
  UploadIsDeleted
