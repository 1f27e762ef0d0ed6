\* Two commands on a project, nobody dies.
CONSTANTS
  p1 = p1  p2 = p2  p3 = p3  a = a  b = b
  Proc = {p1, p2}
  Dep = {a, b}
  Nobody = Nobody
  MaxCrashes = 0
SPECIFICATION Spec
\* All commands are over: the system may stop.
CHECK_DEADLOCK FALSE
INVARIANTS
  CommittedStays
