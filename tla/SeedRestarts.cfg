SPECIFICATION FairSpec
CONSTANTS
  Containers = {c1, c2}
  MaxCrashes = 2
  QUESTIONS <- MCQuestions
INVARIANTS SeededOnce RunsOnDeclaredSchema
PROPERTY StartsEnd
CHECK_DEADLOCK FALSE
