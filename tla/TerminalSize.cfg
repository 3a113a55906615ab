CONSTANTS
  s1 = s1
  Sessions = {s1}
  Main = Main
  Chunks = {1}
  Commands = {"write", "resize", "poll"}
  PaneSize = "132x43"
  None = None
SPECIFICATION Spec
PROPERTY KeepaliveKeepsSize
CHECK_DEADLOCK FALSE
