SPECIFICATION FairSpec
CONSTANTS
  Period = 2
  Horizon = 7
  Immediate = TRUE
  MaxCount = 1
  MaxAge = 2
  MaxMissed = 1
  MaxFaults = 2
  EditCost = 2
  Unset = Unset
  Environment = {"crash", "lost", "s3fail", "fail", "suspend"}
INVARIANTS
  RecordsMatchObjects
PROPERTIES
  MostRecentOnly
  PrunesOnlyExcess
  KeepsUp
CHECK_DEADLOCK FALSE
