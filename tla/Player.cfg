CONSTANTS
  Layouts <- MCLayouts
SPECIFICATION Spec
INVARIANTS
  WallsHold
  JumpNeedsGround
  EndNoticed
PROPERTIES
  WallsOnlyStop
  OnlyDoorsLeadAstray
CHECK_DEADLOCK FALSE
