SPECIFICATION ClientFairSpec
CONSTANTS
  Jobs = {a, r}
  NoJob = NoJob
  MaxQueued = 1
  ReservationTTL = 1
  UploadReadyTTL = 1
  TerminalTTL = 1
  Rivals = {r}
  Items = 2
  PipeSize = 1
INVARIANTS
  AnswerIsDocument
PROPERTIES
  DocumentIsTaskStream
  GoneIsFreed
