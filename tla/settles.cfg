SPECIFICATION FairSpec
CONSTANTS
  Runs = {r1, r2}
  Slots = {w1}
  Flows = {f1, f2}
  NoRun = NoRun
  NoFlow = NoFlow
  MaxTries = 2
  MaxRetries = 0
  Faults = {"queue_down", "agent_down", "agent_crash", "slow_agent", "lost_answer"}
PROPERTIES EveryRunSettles SlotIsFreed
CHECK_DEADLOCK FALSE
