SPECIFICATION FairSpec
CONSTANTS
  NULL = NULL
  User = {u1}
  Session = {s1, s2}
  Message <- MCMessage
  TTL = 1
  MaxSessions = 2
  MaxNow = 2
  Turn = {t1, t2}
  MaxIterations = 2
  MaxTurns = 2
  MaxRestarts = 1
  Streams = {TRUE}
  Tools = {"check_order_status", "other"}
  OneTurnPerSession = TRUE
INVARIANTS TypeOK 
PROPERTY TurnEnds
CHECK_DEADLOCK FALSE
