\* A tracked script and a file that is not, edited at will around two runs; or two runs
\* that prepare their data in one cache directory, the smaller of which may be killed.
\* The directory is left alone when its runs are used up.
SPECIFICATION ProjectSpec
CONSTANTS
  ExperimentYml = ExperimentYml
  ServerYml = ServerYml
  TrainPy = TrainPy
  CachePy = CachePy
  Path = {ExperimentYml, ServerYml, TrainPy, CachePy}
  Place <- MCPlace
  Identity = ExperimentYml
  Server = ServerYml
  Line = {"a", "b"}
  TextsOf <- MCTextsOf
  MaxRuns = 2
  p1 = p1
  p2 = p2
  Run = {p1, p2}
  Entry <- MCEntry
  Recipe <- MCRecipe
  HardNegatives <- MCHardNegatives
  Strategy = "round_robin"
  Fallback = "temperature"
  EvalPart = 20
  Order = "circular"
  BlockSize = 2
  MaxCrashes <- MCCrashes
INVARIANTS RebuiltButLooseEnds RetryIffSame
  LoadedIsOnePrepare DiscardedNotTrained RejectedIsFit
PROPERTIES ShuffledByBlocks
CHECK_DEADLOCK FALSE
