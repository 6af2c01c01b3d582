SPECIFICATION FairSpec
CONSTANTS
  Names = {p1}
  Runs = {r1, r2}
  Handlers = {h1}
  MaxConcurrent = 1
  MaxEdits = 2
  HasAuth = TRUE
  Nobody = Nobody
INVARIANTS TypeOK SlotsExact AloneProvisions
PROPERTIES MutexReleased ImplementsPool
CHECK_DEADLOCK FALSE
