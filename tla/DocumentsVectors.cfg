SPECIFICATION FairSpec
CONSTANTS
  Docs = {d1}
  Deletes = {q1}
  Owners = {o1}
  Quota = 1
  PoolSizes = {2}
  MaxChunks = 1
  Faults = {}
INVARIANT DeletedHasNoVectors
CHECK_DEADLOCK FALSE
