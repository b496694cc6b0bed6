CONSTANTS
  Callers = {"upload", "again"}
  Contents = {"x", "y"}
  PartsOf <- Parts
  NoRequest = "nobody"
  Limit = 1
  Window = 2
  MaxNow = 2
  RedisFails = TRUE
  MaxResends = 1
  Faults = {"queue_down", "usage_error", "crash"}
SPECIFICATION FairSpec
INVARIANTS WholeDocumentOrNone HandedOrMarked SpanBound
PROPERTIES EveryRequestEnds RefusedOnlyWhenSpent
CHECK_DEADLOCK FALSE
