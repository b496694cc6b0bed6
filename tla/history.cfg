CONSTANTS
  Flows = {1, 2, 3}
  Runs = {1, 2, 3}
  Pages = {p1, p2}
  Edges = {e1}
  NoRun = NoRun
  RunOf <- OneEach
  MaxInFlight = 3
  MaxReverts = 3
  Careful = FALSE
SPECIFICATION Spec
INVARIANTS MergeLosesNothing ContradictionFlagsBoth EdgesFollowLinearPages BodyTellsWhatItMatched
PROPERTIES PageLogSpec RevertReconciles
CHECK_DEADLOCK FALSE
