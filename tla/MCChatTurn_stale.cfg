SPECIFICATION Spec
CONSTANTS
  Convs = {c1}
  Requests = {q1, q2}
  MaxTurns = 2
  MaxFaults = 0
  NoConv = NoConv
INVARIANT NoStaleThread
CHECK_DEADLOCK FALSE
