CONSTANTS
  Tasks = {1, 2}
  Main = Main
  MaxRows = 1
  Retention = 0
  Reports = {"running", "done"}
  MaxNow = 1
  Savers = {main, transfer}
  Contents = {v1, v2, v3}
  None = None
  Nothing = Nothing
SPECIFICATION TaskFileSpec
INVARIANTS
  TableBounded
  LoneSaveAgrees
  Durable
  LoadFindsSave
PROPERTIES
  RowsLeaveForAReason
CHECK_DEADLOCK FALSE
