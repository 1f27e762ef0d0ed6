\* Two starts, of one request or of two, aborted, stopped and shut down.
CONSTANTS
  c1 = c1  c2 = c2  r1 = r1  r2 = r2  d1 = d1  d2 = d2
  None = None
  Call = {c1, c2}
  Request = {r1, r2}
  Payload = {d1, d2}
  Asks <- Repeats
  MaxActive = 1
  Signalled = {c1}
  Limited = {d1}
SPECIFICATION FairSpec
\* All processes may have ended: the system may stop.
CHECK_DEADLOCK FALSE
INVARIANTS
  QuotaHolds
  OneProcessPerRequest
  NoOrphan
  RecordIsTrue
  JoinedIsServed
PROPERTY
  StoppedDies
