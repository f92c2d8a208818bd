SPECIFICATION LedgerSpec
CONSTANTS
  Writers = {w1}
  Readers = {r1, r2}
  Consumers = {bank}
  Values = {0, 1}
  Attempts = 2
  MaxPublishes = 2
  MaxSnapshots = 1
CHECK_DEADLOCK FALSE
INVARIANTS SnapshotCoherent StampIdentifies
