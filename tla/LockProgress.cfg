\* A synchronous and an asynchronous task: holders and reclaimers die at any point, locks and guards are left over.
CONSTANTS
  p1 = p1  p2 = p2  p3 = p3
  t1 = t1  t2 = t2  t3 = t3  t4 = t4
  Ghost = Ghost
  None = None
  Task = {t1, t2}
  Process = {p1, p2}
  ProcessOf <- Apart
  Sync = {t1}
  Releasing = {t1, t2}
  Mortal = {p1}
  MtimeFirst = TRUE
  Leftover = {"dir", "file", "guard"}
SPECIFICATION FairSpec
\* Tasks may keep the lock, fail or die: the system may stop.
CHECK_DEADLOCK FALSE
INVARIANT
  TypeOK
PROPERTIES
  DeadDoNotBlock
