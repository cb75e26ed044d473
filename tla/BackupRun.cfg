SPECIFICATION FairSpec
CONSTANTS
  MaxPos = 2
  Unset = Unset
  MaxFaults = 3
  Environment = {"crash", "lost", "outage", "ttl", "jobfail", "lag"}
INVARIANTS
  FinishedIsRecorded
  LowerBound
  TruthfulEnd
  LeaseReleased
PROPERTIES
  FinishedIsFinal
  BackupEnds
CHECK_DEADLOCK FALSE
