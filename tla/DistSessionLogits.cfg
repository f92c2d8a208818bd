SPECIFICATION Spec
CONSTANTS
  Prompts <- MCPrompts
  Tokens = {1, 2}
  MaxLen = 2
  MaxCalls = 2
  MaxEpoch = 2
  MaxFaults = 1
  Window = 2
CHECK_DEADLOCK FALSE
INVARIANT SyncLogits
