CONSTANTS
  EMPTY = EMPTY
  PLAYER = PLAYER
  DOOR = DOOR
  END = END
  UNKNOWN = UNKNOWN
  industrial01 = industrial01
  industrial02 = industrial02
  industrial45 = industrial45
  industrial81 = industrial81
  Folder <- MCFolder
  DoorPicture = industrial81
  EndPicture = industrial45
  Untextured = Untextured
  HeroPicture = HeroPicture
  GridRows = 1
  GridCols = 2
  MAX_OBJECTS = 8
  NoFile = NoFile
  FirstFiles = {}
  MaxPaints = 2
SPECIFICATION EditorSpec
INVARIANTS
  PlaysAsMeant
