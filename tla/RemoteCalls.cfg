\* Two calls through one executor.
CONSTANTS
  c1 = c1  c2 = c2
  Call = {c1, c2}
SPECIFICATION FairSpec
\* All calls are over and the executor is closed: the system may stop.
CHECK_DEADLOCK FALSE
INVARIANTS
  HonestOutcome
  AbandonedIsCancelled
PROPERTIES
  CallsSettle
