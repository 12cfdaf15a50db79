SPECIFICATION TranscriptSpec
CONSTANTS
  PauseExtend = 2
  UnitPause = 5
  Setups <- MCSetups
  Talks <- MCTalks
  Voices <- MCVoices
  Scores <- MCScores
  Files = 2
  Refusals = 1
INVARIANTS
  FileIsOneTelling
  SavedAsShown

  
CHECK_DEADLOCK FALSE
