\* What the event loop of a live process must get done.
CONSTANTS
  h1 = h1  h2 = h2
  c1 = c1  c2 = c2  c3 = c3
  r1 = r1  d1 = d1  d2 = d2
  o1 = o1  o2 = o2
  None = None
  Host = {h1}
  Call = {c1, c2}
  Request = {}
  Digest = {}
  Owner = {o1}
  OwnerOf <- SharedOwner
  MaxActiveRuns = 2
  Timed = {c1}
  Signalled = {c2}
SPECIFICATION FairSpec
\* Every call ends and the session may close: the system may stop.
CHECK_DEADLOCK FALSE
PROPERTIES
  AbortedRunsEnd
  CloseReturns
