SPECIFICATION Spec
CONSTANTS
  MaxRW = 2
  MaxRO = 1
  d1 = d1
  d2 = d2
  r1 = r1
  r2 = r2
  None = None
  Databases = {d1}
  Bootstrapped = {}
  Requests = {r1}
  RequestDB <- OneRequest
  JobBase <- OwnNames
  MaxRestores = 2
  Environment = {"crash", "ttl", "jobfail", "edit", "source", "delete"}
INVARIANTS
  ExclusiveVolumes
  HalfRestoredNeverServes
