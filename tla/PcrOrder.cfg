CONSTANTS
  p1 = p1
  p2 = p2
  Nobody = Nobody
  CardProcs <- MCProcs
  MaxSessions = 4
  Refused = Refused
  Absent = Absent
  d1 = d1
  d2 = d2
  Devices <- MCDevices
  Commands <- MCProcs
  KeySlots = {0}
  MaxNumber = 2
  MaxSecrets = 3
  MaxApprovals = 1
  Handles = 3
  s1 = s1
  s2 = s2
  Logins <- MCLogins
  Questions = {1}
  MaxPassphrase = 2
  Waiters <- MCWaiters
  WaitOf <- MCWaitOf
  MaxClock = 4
  MaxRecords = 2
  KeyboardPepperMin = 2
  KeyboardPepperMax = 3
  Letters = 3
  AclBuffers = 1
  MaxLinks = 2
  MaxSends = 1
  MaxAsked = 3
  InfoLengths = {0, 1, 22, 23, 44, 512}
SPECIFICATION Spec
CHECK_DEADLOCK FALSE
INVARIANTS
  AnyOrderOpens
