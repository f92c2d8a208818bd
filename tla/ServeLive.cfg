SPECIFICATION FairSpec
CONSTANTS
  Conns = {c1, c2}
  BodySizes = {1}
  Requests = {"fresh"}
  MaxClients = 0
  MaxQueue = 1
  MaxQueueBytes = 0
  JobCap = 1
  AggCap = 0
  EvictMin = 2
  QueueAgeLimit = FALSE
  DisconnectAbort = TRUE
  MaxChunks = 0
  None = None
CHECK_DEADLOCK FALSE
PROPERTIES JobsSettle StopHalts
