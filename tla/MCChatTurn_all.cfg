SPECIFICATION FairSpec
CONSTANTS
  Convs = {c1, c2}
  Requests = {q1, q2}
  MaxTurns = 3
  MaxFaults = 1
  NoConv = NoConv
INVARIANTS TypeOK ThreadExclusive RunningReplyOwned
PROPERTIES ThreadKept ResumeKeepsThread ImplementsLedger
