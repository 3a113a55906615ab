CONSTANTS
  s1 = s1
  Sessions = {s1}
  Main = Main
  Chunks = {1}
  Commands = {"write", "resize", "poll"}
  PaneSize = "80x24"
  None = None
SPECIFICATION FairSpec
INVARIANTS
  RegisteredActorRuns
  NoCallIsForgotten
  ConnectedIsRegistered
  GoneIsAnnounced
PROPERTIES
  CommandsReturn
  DeadSessionIsClosed
  HelpersEnd
CHECK_DEADLOCK FALSE
