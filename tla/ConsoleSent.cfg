CONSTANTS
  a = a
  x = x
  NUL = NUL
  Chars = {a, x}
  ExitWord <- MCExitWord
  CmdSize = 3
  BufSize = 4
  ReadMax = 2
  WaitLimit = 1
  Tutorial = tutorial
  LevelNames = {tutorial, other}
SPECIFICATION Spec
PROPERTIES
  SentIsTyped
