SPECIFICATION Spec
CONSTANTS
  Conns = {c1, c2}
  BodySizes = {1, 2}
  Requests = {"fresh", "live"}
  MaxClients = 2
  MaxQueue = 1
  MaxQueueBytes = 3
  JobCap = 2
  AggCap = 2
  EvictMin = 2
  QueueAgeLimit = TRUE
  DisconnectAbort = TRUE
  MaxChunks = 2
  None = None
SYMMETRY ConnSymmetry
INVARIANTS TypeOK AdmissionAccounted OutcomesAccounted BodyAccounted HaltedIsQuiet
INVARIANTS BacklogAccounted OutputSettled TurnWasAccepted
CHECK_DEADLOCK FALSE
