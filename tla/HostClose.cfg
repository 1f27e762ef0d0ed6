SPECIFICATION FairSpec
CONSTANTS
  p = p
  q = q
  a1 = a1
  b = b
  Explicit = {p}
  Linked = {q}
  Actions = {a1, b}
  Home <- MCHome
  MaxCalls = 3
  Tasks = {t1}
  MaxSubRuns = 1
  MaxCallDepth = 2
  Nobody = Nobody
INVARIANTS UseIsCovered SubRunsCounted
PROPERTIES CloseReturns CallsAreAnswered
CHECK_DEADLOCK FALSE
