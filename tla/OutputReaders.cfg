\* Two clients with long polls on the output of a process.
CONSTANTS
  p1 = p1  p2 = p2  r1 = r1  r2 = r2
  Proc = {p1}
  Reader = {r1, r2}
  Of <- Readers
  MaxRead <- ReadSizes
  ChunkSize = {1, 3}
  MaxBufferBytes = 2
  MaxWaiters = 1
  MaxChunks = 2
SPECIFICATION OutputFairSpec
\* Clients come to the end: the system may stop.
CHECK_DEADLOCK FALSE
INVARIANTS
  NothingLostSilently
  NoLostWakeUp
PROPERTIES
  ReadingEnds
  RefinesStream
