SPECIFICATION Spec
CONSTANTS
  Runs = {r1}
  Slots = {w1, w2}
  Flows = {f1, f2, f3}
  NoRun = NoRun
  NoFlow = NoFlow
  MaxTries = 2
  MaxRetries = 2
  Faults = {"queue_down", "queue_lost", "api_crash", "worker_crash", "db_error",
            "agent_down", "agent_crash", "slow_agent", "lost_answer"}
INVARIANTS TypeOK OneSlotPerRun ItemFollowsRun
SYMMETRY Perms
CHECK_DEADLOCK FALSE
