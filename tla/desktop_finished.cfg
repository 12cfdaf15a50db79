SPECIFICATION TableSpec
CONSTANTS
  Jobs = {a, b}
  Workers = {v, w}
  NoJob = NoJob
  Liberties = {"late answer"}
PROPERTY FinishedStaysFinished
CHECK_DEADLOCK FALSE
