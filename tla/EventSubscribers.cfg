\* Two runs that share one buffer, and clients that come late, are slow, or
\* reconnect.
CONSTANTS
  r1 = r1  r2 = r2  s1 = s1  s2 = s2
  Run = {r1, r2}
  Sub = {s1, s2}
  FinishAt <- Finishes
  LateEvents = 0
  MaxEventsPerRun = 2
  MaxRuns = 1
  QueueSize = 1
  MaxSubscriptions = 2
  ByEventId = FALSE
SPECIFICATION FairSpec
\* Runs finish and clients leave: the system may stop.
CHECK_DEADLOCK FALSE
INVARIANTS
  NothingSkipped
PROPERTIES
  InOrderOnce
  FollowedToTheEnd
