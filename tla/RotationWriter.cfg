SPECIFICATION Spec
CONSTANTS
  Second = 2
  DefaultInterval = 8
  DefaultRetention = 1209600
  MaxN = 3
  Cycle = 24
  Declarations <- Usable
  Retentions <- OneRetention
  Replicated = FALSE
  RetryAfter = 5
  CsnCheck = 7
  HoldRetry = 9
  Patched = {0, 1, 2}
  Environment = {"flap", "down"}
INVARIANTS
  WriterReadyAndQuiet
  StaggeredPurges
