SPECIFICATION MCSpec
CONSTANTS
  none = none
  Unset = none
  Databases <- MCDatabases
  ClusterSpecs <- MCClusterSpecs
  DatabaseSpecs <- MCDatabaseSpecs
  MaxEvents = 2
  Environment = {"edit", "restart", "careless"}
INVARIANT NeverStranded
CHECK_DEADLOCK FALSE
