SPECIFICATION FairSpec
CONSTANTS
  u1 = u1
  u2 = u2
  d1 = d1
  c1 = c1
  c2 = c2
  Users <- MCUsers
  Docs <- MCDocs
  OwnerOf <- MCOwnerOf
  Chunks <- MCChunks
  DocOf <- MCDocOf
  Asks = {r1, r2}
  TopK = 2
  PoolSizes = {2, 3}
INVARIANTS CitationsResolve AnswersKeepCitations QuestionsSurvive
PROPERTY NobodyHangs
CHECK_DEADLOCK FALSE
