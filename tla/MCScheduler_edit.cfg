SPECIFICATION Spec
CONSTANTS
  Tasks = {t1}
  Profiles = {p1}
  RunIds = {r1, r2}
  Clients = {c1}
  CronExprs = {"e1"}
  BrokenExprs = {}
  CronNext <- MCCronNext
  MaxTime = 2
  MaxFaults = 0
  Events = {"update"}
  AutoModes = {TRUE}
  Stored <- CronStored
  NoTask = NoTask
  NoExpr = NoExpr
PROPERTY SlotOnce
CHECK_DEADLOCK FALSE
