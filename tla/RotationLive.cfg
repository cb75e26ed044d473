SPECIFICATION FairSpec
CONSTANTS
  Second = 2
  DefaultInterval = 6
  DefaultRetention = 1209600
  MaxN = 3
  Cycle = 12
  Declarations <- Lasting
  Retentions <- AllRetentions
  Replicated = FALSE
  RetryAfter = 5
  CsnCheck = 7
  HoldRetry = 9
  Patched = {0, 1}
  Environment = {}
PROPERTIES
  VisitsEveryPod
  JournalsBounded
