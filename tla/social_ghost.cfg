SPECIFICATION Spec
CONSTANTS
  Size = 6
  Positions <- MCPositions
  PersonalRadius = 1
  GroupRadius = 2
  OtherBounds <- MCOtherBounds
INVARIANTS
  OldOnesIgnored
