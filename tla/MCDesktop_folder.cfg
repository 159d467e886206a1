SPECIFICATION DesktopSpec
CONSTANTS
  StartTree <- Tree
  System = {"D", "R", "s"}
  Alphabet <- Names
  NewNames <- Documents
  Typed = {"n"}
  Alien <- AlienPath
  DESKTOP = "D"
  RECYCLE = "R"
  MAX_ITEMS = 4
  View = 3
  WheelView = 3
  MaxSteps = 2
  Askers = {"desktop", "explorer"}
  Programs = {"notepad", "viewer", "browser"}
  Browser = "browser"
  Opener <- Openers
  NoFile = "none"
  MaxAsks = 3
  StartIcons <- TwoIcons
  IconSystem = {"s", "r"}
  IconNewNames <- Documents
  IconTyped = {"n"}
  IconAlien = {"n"}
  RecycleName = "r"
  Cols = 3
  Rows = 1
  Capacity = 3
  MaxMoves = 3
INVARIANTS SystemFilesStay
CHECK_DEADLOCK FALSE
