SPECIFICATION FairSpec
CONSTANTS
  NULL = NULL
  JsonTexts <- MCJsonTexts
  c1 = c1
  c2 = c2
  c3 = c3
  Call = {c1, c2, c3}
  Requests <- MCRequests
  MaxRecords = 2
  Windows = {0, 1}
  MaxNow = 1
INVARIANTS TypeOK StreamIsTheReply HistoryAccepted StatsCountEveryCall NearestRank
PROPERTY EveryCallReported
CHECK_DEADLOCK FALSE
