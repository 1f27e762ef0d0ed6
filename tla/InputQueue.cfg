\* Two writes and an end of input, stopped, quarantined or left alone.
CONSTANTS
  w1 = w1  w2 = w2  e1 = e1  s1 = s1
  Op = {w1, w2, e1}
  Kind <- Kinds
  MaxEpoch = 2
SPECIFICATION FairSpec
\* The process may end: the system may stop.
CHECK_DEADLOCK FALSE
INVARIANT
  SerialDelivery
PROPERTIES
  UncertainInputIsLast
  FailureIsFinal
  Answered
