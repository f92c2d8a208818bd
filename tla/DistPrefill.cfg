SPECIFICATION Spec
CONSTANTS
  Chunks = 5
  Slots = 2
  Window = 4
  WireCap = 2
  Relayed = TRUE
INVARIANTS TransferSound VerdictHonest
PROPERTIES Returns ImplementsSpan
