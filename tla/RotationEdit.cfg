SPECIFICATION Spec
CONSTANTS
  Second = 2
  DefaultInterval = 8
  DefaultRetention = 1209600
  MaxN = 2
  Cycle = 8
  Declarations <- Switched
  Retentions <- OnOff
  Replicated = FALSE
  RetryAfter = 5
  CsnCheck = 7
  HoldRetry = 9
  Patched = {0, 1}
  Environment = {"edit", "blind", "held"}
INVARIANTS
  OffUnpinsWriter
  WakesForNextMove
