\* Three runs in a row over code and model changes, answers lost now and then, a server that crashes.
\* The system stops once every runner has made its MaxRuns launches.
CONSTANTS
  r1 = r1  r2 = r2  p1 = p1  p2 = p2
  s1 = s1  s2 = s2  s3 = s3  mA = mA  mB = mB  uA = uA  uB = uB
  Garbled = Garbled  NoUri = NoUri  ModelName = {mA, mB}  Uri = {uA, uB}
  Runner = {r1}
  Project = {p1}
  ProjectOf <- OneRunner
  Orchestrated = {}
  Blocking = {}
  Training = {p1}
  Snapshot = {s1, s2, s3}
  ModelOf <- MCModelOf
  UriOf <- MCUriOf
  CatalogModel <- MCFullCatalog
  CheckpointUri = {uB}
  Retries = 0
  MaxRuns = 3
  MaxNest = 2
  Faults = {"broken", "crash"}
SPECIFICATION Spec
INVARIANTS
  RetryIsUnchanged
  ModelKeptTwoApart
  DiffFromParent
CHECK_DEADLOCK FALSE
