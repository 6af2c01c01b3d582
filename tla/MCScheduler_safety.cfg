SPECIFICATION Spec
CONSTANTS
  Tasks = {t1}
  Profiles = {p1}
  RunIds = {r1, r2}
  Clients = {c1, c2}
  CronExprs = {"e1"}
  BrokenExprs = {}
  CronNext <- MCCronNext
  MaxTime = 1
  MaxFaults = 1
  Events = {"create", "update", "delete", "run", "deleteProfile", "crash", "stop"}
  AutoModes = {TRUE}
  Stored <- NoneStored
  NoTask = NoTask
  NoExpr = NoExpr
SYMMETRY Symmetry
VIEW View
INVARIANTS TypeOK NoSelfOverlap RunningAccounted RunningRowOwned DeletedInert EnabledHasSlot LastStatusCurrent
PROPERTY ShutdownClosesRuns
