\* Two sessions on one database and one place each: a request sent twice or not
\* at all, aborts, refusal, close, crash, recovery, clean-up, failing writes.
CONSTANTS
  h1 = h1  h2 = h2
  c1 = c1  c2 = c2  c3 = c3
  r1 = r1  d1 = d1  d2 = d2
  o1 = o1  o2 = o2
  None = None
  Host = {h1, h2}
  Call = {c1, c2}
  Request = {r1}
  Digest = {d1, d2}
  Owner = {o1}
  OwnerOf <- SharedOwner
  MaxActiveRuns = 1
  Timed = {c1, c2}
  Signalled = {c1, c2}
SPECIFICATION Spec
SYMMETRY Symmetry
\* Every call ends and the sessions may die: the system may stop.
CHECK_DEADLOCK FALSE
INVARIANTS
  QuotaHolds
  OneFinalEvent
  RunningIsSupervised
  
  OnlyTheDeadAreInterrupted
  ReplayIsSound

  
