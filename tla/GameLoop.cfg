CONSTANTS
  good = good
  broken = broken
  empty = empty
  NoLevel = NoLevel
  Levels = {good, broken, empty}
  Unreadable = {broken}
  Playerless = {empty}
  DoorCount <- MCDoorCount
  MaxLoads = 2
SPECIFICATION FairSpec
INVARIANTS
  WorldHasMap
  NoUseAfterFree
  CrashHasCause
PROPERTIES
  ExitUndoneOnlyInFrame
  ExitObeyed
