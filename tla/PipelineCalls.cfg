SPECIFICATION FairSpec
CONSTANTS
  MAX_CHUNK_CHARS = 6
  CHUNK_OVERLAP_CHARS = 2
  LongestParagraph = 16
  Texts <- MCTexts
  TIMEOUT_SECONDS = 30
  MAX_RETRIES = 2
  BACKOFF_BASE = 1
  Waits = 4
  Latencies = {1, 30, 120}
  Chunks = {k1, k2, k3}
  Users = {ana, ben}
  Asker = ana
  Similarities = {20, 35, 60}
  TOP_K = 2
  SIMILARITY_THRESHOLD = 35
  EF_SEARCH = 2
  Plans = {"table", "index"}
  MaxMentions = 4
  Answers <- MCAnswers
  ChunkCounts <- MCChunkCounts
INVARIANTS
  ChunksKeepText RetriesKeepToPolicy RetrievesMyBest CitesFirstMentions
PROPERTY EveryCallReturns
CHECK_DEADLOCK FALSE
