SPECIFICATION FairSpec
CONSTANTS
  Ids = {i1}
  Clients = {c1, c2}
  Providers = {"deepseek", "openrouter"}
  WakeCap = 1
  MaxEdits = 2
  MaxFaults = 1
INVARIANTS TypeOK ResultOfKey InFlightExact NoLostSchedule
PROPERTIES KeyGetsUsed
