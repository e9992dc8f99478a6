SPECIFICATION FairSpec
CONSTANTS
  Accounts = {ana, ben}
  NoAccount = NoAccount
  Calls = {c1}
  OtherTab = TRUE
  MaxVisits = 1
INVARIANTS ShownUserOwnsToken OneRefreshPerCall
PROPERTY VisitsSettle
CHECK_DEADLOCK FALSE
