SPECIFICATION Spec
CONSTANTS
  Runs = {r1}
  Slots = {w1}
  Flows = {f1}
  NoRun = NoRun
  NoFlow = NoFlow
  MaxTries = 1
  MaxRetries = 1
  Faults = {}
INVARIANT QueuedHasJob
CHECK_DEADLOCK FALSE
