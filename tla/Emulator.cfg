CONSTANTS
  Numbers = 8
  PipeCap = 3
  ReadMax = 2
  FrameWrites = 4
SPECIFICATION Spec
INVARIANTS
  NothingLeft
  StrayCloseIsSocket
  PlaysWithOwnEnds
PROPERTIES
  WriteReturns
  OpenConsoleDrains
  ExitClosesConsole
