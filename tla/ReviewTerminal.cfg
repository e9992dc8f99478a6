SPECIFICATION FairSpec
CONSTANTS
  Answers = {a1}
  Requests = {r1, r2}
  PoolSizes = {2}
PROPERTY TerminalIsFinal
CHECK_DEADLOCK FALSE
