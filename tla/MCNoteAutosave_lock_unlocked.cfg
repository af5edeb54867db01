SPECIFICATION Spec
CONSTANTS
  r1 = r1
  o1 = o1
  NoOp = NoOp
  Edits <- Edits2
  Remote <- NoRemote
  MaxEdits = 2
  Ops = {}
  MaxRevision = 2
  MaxAttempts = 2
  LegacyServer = FALSE
  MaxFailures = 0
  MaxRefusals = 0
  MaxExpiries = 1
  CanLoseLock = TRUE
  MaxOpens = 1
  MaxFlushes = 0
  MaxToggles = 0
CHECK_DEADLOCK FALSE
PROPERTY LockLossIsFinal
