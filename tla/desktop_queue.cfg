SPECIFICATION TableFairSpec
CONSTANTS
  Jobs = {a, b}
  Workers = {v, w}
  NoJob = NoJob
  Liberties = {}
INVARIANTS
  TableShowsQueue
  
  CancellationIsNotLost
  
PROPERTY StartedIsTakenUp
CHECK_DEADLOCK FALSE
