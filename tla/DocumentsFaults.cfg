SPECIFICATION FairSpec
CONSTANTS
  Docs = {d1, d2}
  Deletes = {q1}
  Owners = {o1, o2}
  Quota = 1
  PoolSizes = {1, 2}
  MaxChunks = 1
  Faults = {"crash", "database", "lost_ack", "storage"}
INVARIANTS
  QuotaOvershootBounded AuditMatchesDocuments ChunksOnlyWhenReady FilesMatchRows
PROPERTIES
  GoneIsForGood IngestionSettles FollowsLifecycle
CHECK_DEADLOCK FALSE
