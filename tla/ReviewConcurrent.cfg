SPECIFICATION FairSpec
CONSTANTS
  Answers = {a1, a2}
  Requests = {r1, r2}
  PoolSizes = {1, 2}
INVARIANTS
  AuditMirrorsDecisions AuditedMovesAreLegal StatusHasADecision
  HistoryIsLinear
PROPERTIES
  CheckThenAct AtomicLifecycle RequestsAreAnswered
CHECK_DEADLOCK FALSE
