SPECIFICATION Spec
CONSTANTS
  Runs = {r1, r2}
  Slots = {w1, w2}
  Flows = {f1, f2}
  NoRun = NoRun
  NoFlow = NoFlow
  MaxTries = 2
  MaxRetries = 2
  Faults = {"api_crash", "db_error", "agent_down"}
INVARIANT AppliedAtMostOnce
PROPERTY LifeIsImplemented
SYMMETRY Perms
CHECK_DEADLOCK FALSE
