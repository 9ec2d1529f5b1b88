SPECIFICATION Spec
CONSTANTS
  MaxSize = 2
  TTL = 2
  Corpus <- MCCorpus
  Leftovers <- MCLeftovers
  Requests <- MCRequests
  MaxLimit = 2
  PoolSize = 4
  RerankCandidates = 4
  K = 60
  Bm25Order <- MCBm25Order
  DenseOrder <- MCDenseOrder
  RerankOrder <- MCRerankOrder
  Thread = {t1, t2}
  MaxNow = 2
  MaxRequests = 3
  MaxClears = 1
SYMMETRY Symmetry
INVARIANTS CacheBounded LruOrder PagesAreFull FusionRespectsRankings ServedFresh
  CountersAgree
CHECK_DEADLOCK FALSE
