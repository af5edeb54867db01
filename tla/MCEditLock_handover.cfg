SPECIFICATION Spec
CONSTANTS
  MaxMounts = 2
  MaxLeaves = 0
  MaxFailures = 1
  MaxEvents = 1
CHECK_DEADLOCK FALSE
PROPERTY HandedOverLockIsKept
