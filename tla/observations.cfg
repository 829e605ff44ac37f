\* Every manifest under every launch; the costmap has cells of 5 cm.
\* A refused, dead or stopped pipeline does nothing more.
SPECIFICATION Spec
CHECK_DEADLOCK FALSE
CONSTANTS
  None = None
  Resolution = 1
  Turn = 12
  RangeMin = 2
  RangeMax = 10
  Manifests <- ManifestsDef
  Launches <- LaunchesDef
  Poses <- PosesDef
  Messages <- MessagesDef
INVARIANTS
  NothingCarriedOver
  CollectKeepsWorking
  GoalWithheld
  LookaheadsAgree
  CarrotChordClear
  ScanKeepsBearings
