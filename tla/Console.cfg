CONSTANTS
  a = a
  x = x
  NUL = NUL
  Chars = {a, x}
  ExitWord <- MCExitWord
  CmdSize = 4
  BufSize = 7
  ReadMax = 3
  WaitLimit = 1
  Tutorial = tutorial
  LevelNames = {tutorial, other}
SPECIFICATION FairSpec
INVARIANTS
  OutputFits
  CommandTerminated
  LineIsTyped
PROPERTIES
  ScriptEnds
