SPECIFICATION Spec
SYMMETRY WeightsSymmetry
INVARIANTS
  TypeOK
  UrlMarkerTruthful
  LinkedBlobTruthful
  AllDoneDelivers
  SoloFetchRepairs
PROPERTIES
  SoloFetchDelivers
CHECK_DEADLOCK FALSE
CONSTANTS
  Processes = {p1, p2}
  Hashes = {h1, h2}
  Garbage = Garbage
  NoFile = NoFile
  NoHash = NoHash
  Kinds = {"url", "hf"}
  Checkouts = 1
