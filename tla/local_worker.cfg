SPECIFICATION WorkerFairSpec
CONSTANTS
  Tasks = 2
  Items = 2
  CutShort = FALSE
INVARIANTS
  
  ConclusionsAreOwn
PROPERTIES
  ImplementsTaskStream
  
