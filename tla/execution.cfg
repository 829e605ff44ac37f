SPECIFICATION Spec
CONSTANTS
  FollowEvery = 2
  PlanEvery = 4
  Dt = 3
  ExecuteFor = 4
  MaxLen = 3
  MaxNominal = 1
  Slack = 1
  MaxTime = 18
INVARIANTS
  EntryOnTime
  CommandAlive
  EndsOnTime
PROPERTIES
  NotCutShort
  EndedMoveStands
  RobotPromise
CHECK_DEADLOCK FALSE
