\* One event, tried up to three times under every fault while its experiment is deleted.
\* The system stops once the process has ended and the experiment is deleted.
SPECIFICATION FairSpec
CONSTANTS
  Run = {r1}
  MaxEvents = 1
  Retries = 2
  Faults = {"refused", "reset", "timeout", "killed", "database", "crash"}
INVARIANTS AcknowledgedIsStored RepeatedOnlyWhenUnanswered StrayExplained
PROPERTIES EmitReturns
CHECK_DEADLOCK FALSE
