SPECIFICATION Spec
SYMMETRY WeightsSymmetry
PROPERTIES
  MatchesManifest
CHECK_DEADLOCK FALSE
CONSTANTS
  Processes = {p1, p2}
  Hashes = {h1, h2}
  Garbage = Garbage
  NoFile = NoFile
  NoHash = NoHash
  Kinds = {"hf"}
  Checkouts = 3
