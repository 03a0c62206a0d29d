CONSTANTS
  Runs = {1}
  Doors = {0}
  Command <- MCCommand
  Garbled = {}
  MaxLosses = 0
SPECIFICATION Spec
PROPERTIES
  FileOpensDoor
CHECK_DEADLOCK FALSE
