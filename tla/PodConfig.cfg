SPECIFICATION MCSpec
CONSTANTS
  none = none
  Unset = none
  Databases <- MCDatabases
  ClusterSpecs <- MCClusterSpecs
  DatabaseSpecs <- MCDatabaseSpecs
  MaxEvents = 2
  Environment = {"edit", "restart", "fault", "crash", "force"}
INVARIANTS Bootable
PROPERTIES TouchesOwnDatabase KeepsSessionlog TeardownComplete Converges
CHECK_DEADLOCK FALSE
