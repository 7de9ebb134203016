CONSTANTS
  c1 = c1
  d1 = d1
  Refused = Refused
  Absent = Absent
  Devices <- MCDevices
  Commands <- MCCommands
  KeySlots = {0}
  MaxNumber = 2
  MaxSecrets = 3
SPECIFICATION Spec
CHECK_DEADLOCK FALSE
PROPERTY
  CancelLeavesAll
