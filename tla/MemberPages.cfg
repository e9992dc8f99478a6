SPECIFICATION FairSpec
CONSTANTS
  Visits = {"chat", "documents"}
  Texts <- FewTexts
  MaxSubmits = 2
  MaxDecisions = 1
  Answers = {a1}
  Filters = {"pending_review", "all"}
  Accounts = {me, u1}
  Me = me
  ROLES = {"user", "admin"}
  MaxPatches = 2
  MaxOthers = 1
  EarlierEvents = 1
  MaxEvents = 3
  AUDIT_PAGE_SIZE = 1
  LastPage = 2
  MaxTurns = 3
  MaxAsks = 2
  Drafts = {t1}
  Empty = Empty
  MaxVisits = 1
  MaxDocs = 2
  MaxDeletes = 1
  MaxCalls = 2
  PAGE_SIZE = 1
  LastOfList = 1
INVARIANTS FailedAskKeepsDraft ToldIsShown
PROPERTIES HistoryCatchesUp PollingCatchesUp
