SPECIFICATION Spec
CONSTANTS
  r1 = r1
  o1 = o1
  NoOp = NoOp
  Edits <- Edits2R
  Remote <- OneRemote
  MaxEdits = 2
  Ops = {}
  MaxRevision = 2
  MaxAttempts = 1
  LegacyServer = FALSE
  MaxFailures = 1
  MaxRefusals = 0
  MaxExpiries = 0
  CanLoseLock = FALSE
  MaxOpens = 2
  MaxFlushes = 1
  MaxToggles = 0
CHECK_DEADLOCK FALSE
INVARIANTS RemoteEditsSurvive UnsavedIsHeld DetachedEditsAreSaved
PROPERTIES TypedTextStays FlushSaves
