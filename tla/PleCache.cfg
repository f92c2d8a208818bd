SPECIFICATION Spec
CONSTANTS
  Pages <- MCPages
  SetOf <- MCSetOf
  Sets = 1
  Ways = 3
  Workers = {w1}
  Readers = {r1, r2}
  RowLists <- MCRowLists
  Tile = 2
  Batch = TRUE
  MaxGathers = 2
  MaxPrefetch = 1
  MaxErrors = 1
INVARIANTS LeasesHonoured LoadsSound
PROPERTIES GatherReturns CloseEnds
CHECK_DEADLOCK FALSE
