SPECIFICATION SessionSpec
CONSTANTS
  good = good
  other = other
  Values <- MCValues
  Chunks = 1
  MaxSession = 4
  MaxResets = 1
CHECK_DEADLOCK FALSE
INVARIANTS
  EnrolmentAgreed
  NoProtocolError
  ReleaseIsDecided
PROPERTIES
  RecordFollows
  SessionsEnd
