SPECIFICATION FairSpec
CONSTANTS
  Tasks = {t1, t2}
  Profiles = {p1}
  RunIds = {r1, r2}
  Clients = {c1}
  CronExprs = {"e1", "bad"}
  BrokenExprs = {"bad"}
  CronNext <- MCCronNext
  MaxTime = 1
  MaxFaults = 0
  Events = {"run", "delete", "crash"}
  AutoModes = {TRUE}
  Stored <- MCStored
  NoTask = NoTask
  NoExpr = NoExpr
INVARIANTS EnabledHasSlot
PROPERTIES SlotOnce OnlyDueSlotsMove DueIsHandled
