SPECIFICATION Spec
CONSTANTS
  Requests = 3
  Depth = 1
  Forward = 2
INVARIANTS AnswersSound
PROPERTIES AnsweredOrEnded LoopEnds
CHECK_DEADLOCK FALSE
