\* The registry lock: two tasks in each of two processes, nobody dies.
CONSTANTS
  p1 = p1  p2 = p2  p3 = p3
  t1 = t1  t2 = t2  t3 = t3  t4 = t4
  Ghost = Ghost
  None = None
  Task = {t1, t2, t3, t4}
  Process = {p1, p2}
  ProcessOf <- Shared
  Sync = {}
  Releasing = {t1, t2, t3, t4}
  Mortal = {}
  MtimeFirst = TRUE
  Leftover = {}
SPECIFICATION Spec
\* Tasks may keep the lock, fail or die: the system may stop.
CHECK_DEADLOCK FALSE
INVARIANTS
  MutualExclusion
  HolderIsRecorded
