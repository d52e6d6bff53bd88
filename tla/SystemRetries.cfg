\* Two runs of one project, a retry per request: duplicates, late handlers, lost answers.
\* The system stops once every runner has made its MaxRuns launches.
CONSTANTS
  r1 = r1  r2 = r2  p1 = p1  p2 = p2
  s1 = s1  s2 = s2  s3 = s3  mA = mA  mB = mB  uA = uA  uB = uB
  Garbled = Garbled  NoUri = NoUri  ModelName = {mA, mB}  Uri = {uA, uB}
  Runner = {r1}
  Project = {p1}
  ProjectOf <- OneRunner
  Orchestrated = {}
  Blocking = {}
  Training = {p1}
  Snapshot = {s1}
  ModelOf <- MCModelOfOne
  UriOf <- MCUriOfOne
  CatalogModel <- MCCatalog
  CheckpointUri = {uB}
  Retries = 1
  MaxRuns = 2
  MaxNest = 2
  Faults = {"timeout", "refused", "killed"}
SPECIFICATION Spec
INVARIANTS
  TypeOK
  StatusIsOwnReport
  LocalStatusBacked
PROPERTIES
  StatusSettles
  ImplementsLedger
CHECK_DEADLOCK FALSE
