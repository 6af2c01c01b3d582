SPECIFICATION FairSpec
CONSTANTS
  Tasks = {t1}
  Profiles = {p1}
  RunIds = {r1, r2}
  Clients = {c1}
  CronExprs = {"e1"}
  BrokenExprs = {}
  CronNext <- MCCronNext
  MaxTime = 1
  MaxFaults = 0
  Events = {"create", "update", "delete", "run", "deleteProfile", "crash", "stop"}
  AutoModes = {TRUE, FALSE}
  Stored <- NoneStored
  NoTask = NoTask
  NoExpr = NoExpr
PROPERTIES ShutdownEnds ImplementsLedger
