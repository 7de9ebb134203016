CONSTANTS
  q1 = q1
  plain = plain
  typed = typed
  Quotes = {q1}
  OldQuotes = {}
  Releases <- MCReleases
  Keyboards <- MCKeyboards
  NoRelease = NoRelease
  MaxIssued = 1
  Plans <- MCPlans
  Recipes = {"phoneSalt", "phoneKeyboard", "vault"}
  VaultSlots = 2
  Signals = TRUE
SPECIFICATION Spec
INVARIANTS
  PhoneEndsTheHold
  KeysAfterTheClose
  KeyGetsTheSalt
PROPERTIES
  ClosesOverNothing
  ImplementsGate
