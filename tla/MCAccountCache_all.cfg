SPECIFICATION FairSpec
CONSTANTS
  Methods = {"initialize", "account", "limits"}
  Initialize = "initialize"
  Closers = {"close"}
  MaxId = 3
  ServerIds = {3}
  PipeCap = 1
  Requests = {q1, q2}
  Nobody = Nobody
INVARIANTS TypeOK ReplyOnce OwnAnswer
PROPERTIES DeadServerFreesRequests ImplementsProbe
CHECK_DEADLOCK FALSE
