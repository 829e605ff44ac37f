SPECIFICATION Spec
SYMMETRY CallerSymmetry
PROPERTIES
  RobotPromise
  ExecutionAnswersLatestObs
CHECK_DEADLOCK FALSE
CONSTANTS
  MaxSeq = 2
  MaxRequests = 2
  ControlHWM = 2
  Callers = {c1, c2}
  ActionType = "discrete"
  Deadline = TRUE
  MaxRuns = 1
  PeerAhead = 1
