SPECIFICATION WorkspaceSpec
CONSTANTS
  MaxMounts = 2
  MaxLeaves = 1
  MaxFailures = 1
  MaxEvents = 2
  MaxVisible = 2
  MaxArrivals = 4
  Lints = {l1}
  Restores = {r1}
  MaxPollTrouble = 1
  MaxSwitches = 1
  MaxAways = 2
  MaxTouches = 1
  MissingLimit = 2
  Docs = {d1, d2}
  MaxWaits = 2
  MaxCloses = 2
CHECK_DEADLOCK FALSE
INVARIANTS WorkspaceTypeOK GrantedBeats OnTimeMeansHeld EndIsToldOnce ProposedOnce IngestIsRight
PROPERTIES LostIsFinal CardsTakeTurns WorkspaceEnds
