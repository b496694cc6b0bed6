CONSTANTS
  Workspaces = {"w1", "w2"}
  None = "nobody"
  Runs = {"w1"}
  RunWs <- Namesake
  MaxAttempts = 2
SPECIFICATION FairSpec
INVARIANTS
  EndIsShown
PROPERTIES LiveRunEnds
CHECK_DEADLOCK FALSE
