SPECIFICATION FairSpec
CONSTANTS
  r1 = r1
  o1 = o1
  NoOp = NoOp
  Edits <- Edits2R
  Remote <- OneRemote
  MaxEdits = 2
  Ops = {}
  MaxRevision = 1
  MaxAttempts = 1
  LegacyServer = TRUE
  MaxFailures = 1
  MaxRefusals = 0
  MaxExpiries = 1
  CanLoseLock = FALSE
  MaxOpens = 1
  MaxFlushes = 1
  MaxToggles = 0
CHECK_DEADLOCK FALSE
INVARIANTS SavedBadgeIsTrue NewestBodyIsSentLast
PROPERTIES EditsAreSavedOrReported FlushEnds
