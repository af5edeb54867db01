SPECIFICATION Spec
CONSTANTS
  MaxReconnects = 1
  MaxPending = 2
  CommitMin = 2
  CommitMax = 3
  MaxChunks = 1
  MaxBreaks = 0
  MaxFailures = 0
  MaxRollovers = 1
CHECK_DEADLOCK FALSE
INVARIANTS RemainingAudioIsSaved
