\* Reruns of unchanged code without a fault.
\* The system stops once every runner has made its MaxRuns launches.
CONSTANTS
  r1 = r1  r2 = r2  p1 = p1  p2 = p2
  s1 = s1  s2 = s2  s3 = s3  mA = mA  mB = mB  uA = uA  uB = uB
  Garbled = Garbled  NoUri = NoUri  ModelName = {mA, mB}  Uri = {uA, uB}
  Runner = {r1}
  Project = {p1}
  ProjectOf <- OneRunner
  Orchestrated = {}
  Blocking = {}
  Training = {p1}
  Snapshot = {s1, s3}
  ModelOf <- MCModelOfTwo
  UriOf <- MCUriOfTwo
  CatalogModel <- MCCatalog
  CheckpointUri = {uB}
  Retries = 0
  MaxRuns = 4
  MaxNest = 2
  Faults = {}
SPECIFICATION Spec
INVARIANTS
  UnchangedRerunIsRetry
CHECK_DEADLOCK FALSE
