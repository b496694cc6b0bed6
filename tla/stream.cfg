CONSTANTS
  Workspaces = {"w1", "w2"}
  None = "nobody"
  MaxSubs = 2
  MaxFaults = 2
  MaxSwitches = 1
SPECIFICATION FairStreamSpec
INVARIANTS NoLeakedConnection TokenFollowsWorkspace
PROPERTIES StreamHeals LinkIsImplemented
CHECK_DEADLOCK FALSE
