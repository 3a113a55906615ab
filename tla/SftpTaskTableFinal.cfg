CONSTANTS
  Tasks = {1, 2}
  Main = Main
  MaxRows = 2
  Retention = 1
  Reports = {"running", "done"}
  MaxNow = 1
  None = None
SPECIFICATION Spec
PROPERTIES
  DoneIsFinal
CHECK_DEADLOCK FALSE
