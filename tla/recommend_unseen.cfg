SPECIFICATION Spec
CONSTANTS
  NULL = NULL
  Lower <- MCLower
  Strip <- MCStrip
  Within <- MCWithin
  RecommendMax = 3
  Similar <- MCSimilar
  Configs <- MCConfigs
  DbMenu <- MCDbMenu
  User = {u1, u2}
  Requests <- MCRequests
  Replies <- MCReplies
  Labels = {"order", "search"}
  Guesses <- MCGuesses
  Thread = {t1}
  MaxRequests = 2
  MaxOrders = 2
SYMMETRY Symmetry
INVARIANT RecommendsUnseen
CHECK_DEADLOCK FALSE
