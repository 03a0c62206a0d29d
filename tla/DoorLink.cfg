CONSTANTS
  Runs = {1, 2, 3}
  Doors = {0, 1}
  Command <- MCCommand
  Garbled = {3}
  MaxLosses = 1
SPECIFICATION Spec
INVARIANTS
  DoorsAsTold
PROPERTIES
  ImplementsMessages
  CommandArrives
CHECK_DEADLOCK FALSE
