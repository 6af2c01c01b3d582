SPECIFICATION Spec
CONSTANTS
  Tasks = {t1}
  Profiles = {p1}
  RunIds = {r1, r2}
  Clients = {c1}
  CronExprs = {"never"}
  BrokenExprs = {}
  CronNext <- MCCronNext
  MaxTime = 2
  MaxFaults = 0
  Events = {"create"}
  AutoModes = {TRUE}
  Stored <- NoneStored
  NoTask = NoTask
  NoExpr = NoExpr
PROPERTY SlotOnce
CHECK_DEADLOCK FALSE
