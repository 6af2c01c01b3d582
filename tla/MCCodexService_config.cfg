SPECIFICATION Spec
CONSTANTS
  Names = {p1}
  Runs = {r1, r2}
  Handlers = {}
  MaxConcurrent = 1
  MaxEdits = 2
  HasAuth = TRUE
  Nobody = Nobody
PROPERTY ReadsGeneratedConfig
CHECK_DEADLOCK FALSE
