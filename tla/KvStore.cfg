SPECIFICATION Spec
CONSTANTS
  Procs = {1, 2}
  Ctx <- MCCtx
  Texts <- MCTexts
  Kinds = {"serial", "bank"}
  Budget = 4
  MaxStores = 3
  MaxLoads = 1
  MaxFaults = 1
CHECK_DEADLOCK FALSE
INVARIANTS RecordsTrue LookupSafe BudgetKept
