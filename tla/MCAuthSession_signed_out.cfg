SPECIFICATION AuthSpec
CONSTANTS
  Tabs = {t1}
  Requests = {q1, q2}
  MaxLogins = 1
  Rounds = 2
  MaxSends = 2
  MaxOutages = 0
  WebLocks = TRUE
CHECK_DEADLOCK FALSE
PROPERTIES SignedOutStays
