SPECIFICATION HangingSpec
INVARIANTS
  BoundedInFlight
  HealthyTeardown
PROPERTIES
  RequestsReturn
  TeardownCompletes
CHECK_DEADLOCK FALSE
CONSTANTS
  MaxSeq = 2
  MaxRequests = 1
  ControlHWM = 1
  Callers = {c1}
  ActionType = "velocity"
  Deadline = TRUE
  MaxRuns = 2
  Heartbeats = FALSE
  StepsCanFail = FALSE
  Crashes = FALSE
  MixedVersions = FALSE
