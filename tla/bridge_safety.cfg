SPECIFICATION Spec
INVARIANTS
  TypeOK
  StandstillUnlessDriving
  NoExecutionWhileWaiting
  BoundedInFlight
  DrivingImpliesActive
PROPERTIES
  AckAnswersRequest
  DiedLoopRefusesRequests
CHECK_DEADLOCK FALSE
CONSTANTS
  MaxSeq = 3
  MaxRequests = 3
  ControlHWM = 2
  Callers = {c1}
  ActionType = "chunk"
  Deadline = FALSE
  MaxRuns = 1
  Heartbeats = TRUE
  StepsCanFail = TRUE
  Crashes = TRUE
  MixedVersions = TRUE
