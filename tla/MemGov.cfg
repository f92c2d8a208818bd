SPECIFICATION Spec
CONSTANTS
  NBanks = 2
  Total = 9
  Eager = 2
  Floor = 1
  Reserve = 3
  FitGate = TRUE
  Headroom = 1
  Budget = 5
  Lengths = {2, 3}
  Sessions = {3}
  WordMax = 9
  Modes = {"observe", "enforce"}
  VmmTrim = TRUE
  MaxOutside = 1
  MaxPool = 1
INVARIANTS GrantsCovered LedgerSound
PROPERTY CreditedKeepsPages
