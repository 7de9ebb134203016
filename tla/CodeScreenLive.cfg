CONSTANTS
  q1 = q1
  plain = plain
  typed = typed
  Quotes = {q1}
  OldQuotes = {}
  Releases = {plain}
  Keyboards = {}
  NoRelease = NoRelease
  MaxIssued = 1
  Plans <- MCPlans
  Recipes = {"phoneSalt", "vault"}
  VaultSlots = 1
  Signals = FALSE
SPECIFICATION FairSpec
PROPERTIES
  HoldEnds
  KeysAnswered
  OffersEnd
