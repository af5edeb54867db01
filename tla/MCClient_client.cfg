SPECIFICATION ClientSpec
CONSTANTS
  MaxReconnects = 1
  MaxPending = 2
  CommitMin = 2
  CommitMax = 3
  MaxChunks = 4
  MaxBreaks = 2
  MaxFailures = 1
  MaxRollovers = 1
  MaxAttempts = 6
  MicrophonesInOrder = TRUE
  Cancels = {c1}
  Posts = {g1, g2}
  MaxMeetings = 1
  MaxUploads = 1
  MaxViews = 1
  MaxPosts = 2
  LiveRetries = 1
  MaxTrouble = 1
  PromptAnswers = TRUE
  MaxNameAttempts = 2
  MaxVersions = 2
  MaxSaves = 2
  MaxLosses = 2
  Tabs = {t1, t2}
  Requests = {q1, q2}
  MaxLogins = 1
  Rounds = 2
  MaxSends = 2
  MaxOutages = 1
  WebLocks = TRUE
  PartCount = 3
  Batch = 2
  MaxPartAttempts = 2
  MaxPartUploads = 2
  MaxUploadTrouble = 4
  outer = outer
  inner = inner
  page1 = page1
  table = table
  pdf = pdf
  Root = Root
  Folders <- PlanFolders
  Documents <- PlanDocuments
  Parent <- PlanParent
  Contents <- PlanContents
  Links <- PlanLinks
  Concurrency = 2
  MaxRuns = 2
  MaxImportTrouble = 2
  MaxTurns = 2
  MaxStops = 1
  MaxTurnTrouble = 1
CHECK_DEADLOCK FALSE
INVARIANTS ClientTypeOK AudioInOrder AudioIsKept OneSession
  OneRecording MicrophoneIsReleased NotesRequestedOnce TranscriptionIsShown NotesAreSavedOnce
  UploadIsWhole SuccessIsComplete
PROPERTIES NoFalseExpiry OkMeansSaved ClosedStaysClosed PromiseKept AutoApplyIsAllowed ProposalIsKept ClientEnds
