SPECIFICATION FairSpec
CONSTANTS
  Requests = {q1, q2}
  Models = {"sol", "sun"}
  Patterns = {"sol", "s*"}
  Own = {"own", "last"}
  Defaults <- MCDefaults
  Matches <- MCMatches
  Priority <- MCPriority
  Wildcards <- MCWildcards
  Length <- MCLength
  NameBefore <- MCNameBefore
  Nobody = Nobody
INVARIANTS TypeOK EditsReachReport
PROPERTIES EveryoneAnswered
