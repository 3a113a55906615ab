CONSTANTS
  s1 = s1
  Sessions = {s1}
  Main = Main
  Chunks = {1}
  Commands = {"write", "resize", "poll"}
  PaneSize = "80x24"
  None = None
SPECIFICATION FairSpec
PROPERTY OutputReachesWindow
CHECK_DEADLOCK FALSE
