\* One session that asks whether a node in use may be deleted.
SPECIFICATION Spec
CONSTANTS
  n1 = n1
  n2 = n2
  Session = {s1}
  Name = {n1, n2}
  Seed <- MCSeed
  MaxItems = 3
  MaxExperiments = 2
  Hops = 3
PROPERTIES DeletableMeansUnused
CHECK_DEADLOCK FALSE
