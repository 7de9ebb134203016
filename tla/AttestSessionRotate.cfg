SPECIFICATION SessionSpec
CONSTANTS
  good = good
  other = other
  Values <- MCValues
  Chunks = 1
  MaxSession = 4
  MaxResets = 1
INVARIANT FailedRotateKeepsSalt

CHECK_DEADLOCK FALSE
