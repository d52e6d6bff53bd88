\* As the run project, with eval_size: 0 in the configuration of the preparations.
\* The directory is left alone when its runs are used up.
SPECIFICATION ProjectSpec
CONSTANTS
  ExperimentYml = ExperimentYml
  ServerYml = ServerYml
  TrainPy = TrainPy
  CachePy = CachePy
  Path = {ExperimentYml, ServerYml, TrainPy, CachePy}
  Place <- MCPlace
  Identity = ExperimentYml
  Server = ServerYml
  Line = {"a", "b"}
  TextsOf <- MCTextsOf
  MaxRuns = 2
  p1 = p1
  p2 = p2
  Run = {p1, p2}
  Entry <- MCEntry
  Recipe <- MCRecipe
  HardNegatives <- MCHardNegatives
  Strategy = "round_robin"
  Fallback = "temperature"
  EvalPart = 0
  Order = "circular"
  BlockSize = 2
  MaxCrashes <- MCCrashes
INVARIANTS FullSetTrains
CHECK_DEADLOCK FALSE
