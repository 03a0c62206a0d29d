CONSTANTS
  Levels = {"saved", "painted", "broken", "shuffled", "sparse", "short", "mapless"}
  Objects <- MCObjects
  Tiles <- MCTiles
  Rows <- MCRows
  Map <- MCMap
  NoPicture = ""
  Broken = {"gone"}
  MAX_TEXTURES = 4
  MaxLoads = 3
SPECIFICATION Spec
INVARIANTS
  ErrorsFreeOwned
  FailedLoadLeaves
  PlayHoldsLevel
  OwnPictures
  LastLevelReleased
CHECK_DEADLOCK FALSE
