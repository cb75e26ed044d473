SPECIFICATION Spec
CONSTANTS
  MaxRW = 2
  MaxRO = 1
  d1 = d1
  d2 = d2
  r1 = r1
  r2 = r2
  None = None
  Databases = {d1,d2}
  Bootstrapped = {d2}
  Requests = {r1}
  RequestDB <- OneRequest
  JobBase <- OwnNames
  MaxRestores = 3
  Environment = {"crash", "lag", "jobfail", "delete", "unready", "noimage"}
INVARIANTS
  JobsBelongToRestore
  BootstrapOnce
  Coordinated
PROPERTIES
  ForwardOnly
  MarkedMeansLoaded
  ImplementsSwap
