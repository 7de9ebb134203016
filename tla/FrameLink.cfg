CONSTANTS
  Modulus = 2
  HeaderSize = 5
  MaxRecord = 3
  Limit = 2
  MaxBytes = 13
  HasDeadline = TRUE
  Lengths = {0, 2, 4}
  Payloads = {1, 2}
  Foreign <- MCForeign
  MaxTraffic = 2
  MaxFaults = 1
SPECIFICATION FairFrameSpec
CHECK_DEADLOCK FALSE
INVARIANTS
  WakeupKept
  WithinBudget
  WithinLimit
PROPERTIES
  ArrivesIntact
  NothingIsStuck
