SPECIFICATION FairSpec
PROPERTIES
  AwaitEnds
  RequestsReturn
  TeardownCompletes
CHECK_DEADLOCK FALSE
CONSTANTS
  MaxSeq = 2
  MaxRequests = 2
  ControlHWM = 2
  Callers = {c1}
  ActionType = "chunk"
  Deadline = FALSE
  MaxRuns = 1
  Heartbeats = FALSE
  StepsCanFail = TRUE
  Crashes = TRUE
  MixedVersions = FALSE
