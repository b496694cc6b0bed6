CONSTANTS
  Nodes = {1, 2, 3, 4, 5}
  Runs <- All
  Brings <- New
  Links <- Drawn
  Before = {"left", "right"}
  MinNodes = 2
  MaxNamed = 1
  Undoable = {"bridge"}
SPECIFICATION Spec
INVARIANTS ProseIsAboutItsMembers RowsMatchNodes
PROPERTIES NamesAreKept
CHECK_DEADLOCK FALSE
