CONSTANTS
  q1 = q1
  q2 = q2
  old = old
  plain = plain
  typed = typed
  Quotes <- MCQuotes
  OldQuotes <- MCOldQuotes
  Releases <- MCReleases
  Keyboards <- MCKeyboards
  NoRelease = NoRelease
  MaxIssued = 1
SYMMETRY MCSymmetry
SPECIFICATION GateSpec
INVARIANTS
  AttestedIsThePhones
  TamperedStaysRefused
  SaltAndLayoutOfOneRelease
