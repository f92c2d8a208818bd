SPECIFICATION Spec
CONSTANTS
  a = a
  b = b
  Protocols = {anthropic}
  IdLists <- PairIdLists
  Banks = {bank0}
  Leases = {l1, l2}
  MaxRecords = 1
  Grace = 4003
  Ttl = 4003
  PinDeadline = 2003
  HoldShed = 2001
  TickHz = 2000
  Instants = {0, 1, 2002, 4004}
  MaxTime = 4004
  MaxRid = 3
  MaxRef = 1
SYMMETRY LeaseSymmetry
INVARIANTS VectorSound PinPromise PinProtects WindowsAgree
PROPERTIES NoRevival PruneComplete ImplementsTable
CHECK_DEADLOCK FALSE
