SPECIFICATION FairSpec
CONSTANTS
  r1 = r1
  o1 = o1
  NoOp = NoOp
  Edits <- Edits2
  Remote <- NoRemote
  MaxEdits = 2
  Ops = {o1}
  MaxRevision = 2
  MaxAttempts = 2
  LegacyServer = FALSE
  MaxFailures = 2
  MaxRefusals = 1
  MaxExpiries = 0
  CanLoseLock = TRUE
  MaxOpens = 1
  MaxFlushes = 0
  MaxToggles = 1
CHECK_DEADLOCK FALSE
INVARIANT TypeOK
PROPERTIES AgentEditsAreSavedAsAgent LockLossIsFinal AgentEditsReachTheServer
