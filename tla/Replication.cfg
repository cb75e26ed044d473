SPECIFICATION MCSpec
CONSTANTS
  MaxRID = 12
  IntMax = 24
  Blank = ""
  Unset = Unset
  DefaultLayout <- MCLayout
  Databases = {d1, d2}
  ClusterSpecs <- MCSpecs
  Meshes <- MCMeshes
  Segments = {0, 1}
  Self = "a"
  PeerNames = {"b", "c"}
  StaticPeers = {"c"}
  RemoteFleets <- MCFleets
  MaxEvents = 3
  Cost <- MCCost
  Environment = {"spec", "segment", "retain", "pods", "peers", "crash"}
INVARIANTS NoSharedRids IdentityBeforeStanza SidsDisjoint
PROPERTIES KeepsDeclaredLinks Converges
CHECK_DEADLOCK FALSE
