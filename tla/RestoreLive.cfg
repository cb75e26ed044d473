SPECIFICATION FairSpec
CONSTANTS
  MaxRW = 2
  MaxRO = 1
  d1 = d1
  d2 = d2
  r1 = r1
  r2 = r2
  None = None
  Databases = {d1}
  Bootstrapped = {d1}
  Requests = {r1,r2}
  RequestDB <- Rollbacks
  JobBase <- OwnNames
  MaxRestores = 4
  Environment = {"crash", "jobfail"}
PROPERTIES
  RequestsComplete
  ServiceReturns
