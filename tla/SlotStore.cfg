CONSTANTS
  operator = operator
  hook = hook
  ann = ann
  v1 = v1
  v2 = v2
  Stranger = Stranger
  Procs <- MCProcs
  Phones <- MCPhones
  Values <- MCValues
  MaxVerifiers = 2
  MaxCommands = 3
  MaxPutBack = 1
SYMMETRY MCSymmetry
SPECIFICATION Spec
CHECK_DEADLOCK FALSE
INVARIANTS
  SupersededStaysOut
  SignsOnlyItsOwn
  ApprovalsFollow
PROPERTIES
  EndHoldsWhatItSays
