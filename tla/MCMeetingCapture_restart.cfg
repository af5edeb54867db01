SPECIFICATION CaptureSpec
CONSTANTS
  MaxAttempts = 3
  MicrophonesInOrder = TRUE
CHECK_DEADLOCK FALSE
INVARIANT RecordingHears
