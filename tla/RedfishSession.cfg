SPECIFICATION FairSpec
CONSTANTS
  None = None
  Requests = {r1, r2}
  MaxSessions = 3
CHECK_DEADLOCK FALSE
INVARIANTS
  TypeOK
  SessionsAccountedFor
PROPERTY RequestEnds
