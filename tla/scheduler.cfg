SPECIFICATION LoopFairSpec
CONSTANTS
  Jobs = {j1, j2, j3, j4}
  NoJob = NoJob
  MaxQueued = 2
  ReservationTTL = 2
  UploadReadyTTL = 1
  TerminalTTL = 1
INVARIANTS
  SlotAndLine
  ReapIsTheLoop
PROPERTIES
  LateCallsChangeNothing
  ImplementsFifoSlot
  QueuedIsServed
