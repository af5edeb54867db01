SPECIFICATION Spec
CONSTANTS
  r1 = r1
  o1 = o1
  NoOp = NoOp
  Edits <- Edits2
  Remote <- NoRemote
  MaxEdits = 2
  Ops = {}
  MaxRevision = 2
  MaxAttempts = 1
  LegacyServer = FALSE
  MaxFailures = 0
  MaxRefusals = 0
  MaxExpiries = 1
  CanLoseLock = FALSE
  MaxOpens = 1
  MaxFlushes = 1
  MaxToggles = 0
CHECK_DEADLOCK FALSE
PROPERTY FlushSavesTyped
