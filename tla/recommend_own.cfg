SPECIFICATION Spec
CONSTANTS
  NULL = NULL
  Lower <- MCLower
  Strip <- MCStrip
  Within <- MCWithin
  RecommendMax = 3
  Similar <- MCSimilar
  Configs <- MCConfigs
  DbMenu <- MCDbMenu
  User = {u1, u2}
  Requests <- MCRequests
  Replies <- MCReplies
  Labels = {"order", "search"}
  Guesses <- MCGuesses
  Thread = {t1, t2}
  MaxRequests = 2
  MaxOrders = 1
SYMMETRY Symmetry
INVARIANT HistoryIsOwn
CHECK_DEADLOCK FALSE
