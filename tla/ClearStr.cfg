CONSTANTS
  TEXT = TEXT
  NL = NL
  CTL = CTL
  ESC = ESC
  LB = LB
  M = M
  TILDE = TILDE
  HASH = HASH
  NUL = NUL
  ReadMax = 4
  OutSize = 6
  StreamMax = 4
  OutStarts = {0, 3}
SPECIFICATION Spec
INVARIANTS
  InPlace
  CleansOrderlyText
  OverrunNeedsControl
PROPERTIES
  CutBetweenSequences
