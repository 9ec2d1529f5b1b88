SPECIFICATION Spec
CONSTANTS
  NULL = NULL
  User = {u1, u2}
  Session = {s1, s2, s3}
  Message <- MCMessage
  TTL = 1
  MaxSessions = 1
  MaxNow = 3
  Turn = {t1, t2}
  MaxIterations = 1
  MaxTurns = 3
  MaxRestarts = 0
  Streams = {FALSE}
  Tools = {}
  OneTurnPerSession = FALSE
SYMMETRY TurnSymmetry
INVARIANTS OwnMessages AnsweredIsKept StoreBounded
CHECK_DEADLOCK FALSE
