SPECIFICATION MCEditorSpec
CONSTANTS
  Files = {"a", "b"}
  MaxCalls = 4
  Documents <- MCDocuments
  MaxTime = 9
INVARIANT PathIsDocument
CHECK_DEADLOCK FALSE
