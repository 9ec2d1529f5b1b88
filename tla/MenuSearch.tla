----------------------------- MODULE MenuSearch ------------------------------
(***************************************************************************)
(* GET /ai/search: routers/search.py with its result cache, services/      *)
(* search.py, services/hybrid_search.py, ml/reranker.py, ml/vector_store.py*)
(* and ml/corpus.py.  Requests run in threads.  The menu is fixed while    *)
(* the process lives, but Qdrant also has the points of older menus and    *)
(* comes and goes, and the reranker's model is loaded by the first request *)
(* that needs it.  Scores are abstracted to the order they put the foods   *)
(* in.                                                                     *)
(***************************************************************************)
EXTENDS ResultCache, Rankings

CONSTANTS
  Corpus,          \* the foods of the menu, in its order
  Leftovers,       \* sets of foods of older menus that may still be in Qdrant
  Requests,        \* queries with the limits they are asked with
  MaxLimit,        \* _MAX_LIMIT
  PoolSize,        \* _CANDIDATE_POOL
  RerankCandidates,  \* _DEFAULT_RERANK_CANDIDATES
  K,               \* _RRF_K
  Bm25Order,       \* for each query, the foods by BM25 score; none without tokens
  DenseOrder,      \* for each query, foods and foreign foods by similarity
  RerankOrder,     \* for each query, the foods by the reranker's score
  Thread,
  MaxNow,          \* bound: the last second
  MaxRequests,     \* bound: requests
  MaxClears        \* bound: calls of cache_clear

Food == Range(Corpus)

\* The pool and the candidates leave room for as many foreign foods as results.
ASSUME SearchAssumption ==
  /\ {MaxLimit, PoolSize, RerankCandidates, K} \subseteq Nat
  /\ PoolSize >= MaxLimit /\ MaxLimit > 0 /\ RerankCandidates >= 2 * MaxLimit - 1
  /\ \A r \in Requests : r.limit \in 1..MaxLimit
  /\ IsFiniteSet(Thread)
  /\ Lists(Corpus, Food)
  /\ \A r \in Requests :
       /\ Bm25Order[r.query] = <<>> \/ Lists(Bm25Order[r.query], Food)
       /\ Lists(DenseOrder[r.query], Range(DenseOrder[r.query]))
       /\ Food \subseteq Range(DenseOrder[r.query])
       /\ Lists(RerankOrder[r.query], Food)

VARIABLES
  now,
  qdrant,    \* [wired, points]: the vector store
  reranker,  \* [wired, model, failed]: the lazily loaded cross-encoder
  pc,        \* where each thread is
  job,       \* what each thread works on
  answer,    \* the last answer of each thread
  received,  \* requests so far
  clears     \* calls of cache_clear so far

services == <<qdrant, reranker>>
vars == <<cache, now, services, pc, job, answer, received, clears>>

Unused == [query |-> "", limit |-> 0]

\* The limit that the search works with.
Clamp(limit) == Max({1, Min({limit, MaxLimit})})

NewJob(r) ==
  [query |-> r.query, limit |-> Clamp(r.limit), at |-> now, dense |-> <<>>, fused |-> <<>>,
   value |-> <<>>, done |-> 0]

KeyOf(j) == [query |-> j.query, limit |-> j.limit]

\* Startup upserts the menu; points of older menus are never deleted.
Upserted(old) == [wired |-> TRUE, points |-> Food \cup old]

Init ==
  /\ CacheInit
  /\ now = 0
  /\ \/ qdrant = [wired |-> FALSE, points |-> {}]
     \/ \E old \in Leftovers : qdrant = Upserted(old)
  /\ \E wired \in BOOLEAN :
       reranker = [wired |-> wired, model |-> FALSE, failed |-> FALSE]
  /\ pc = [t \in Thread |-> "idle"]
  /\ job = [t \in Thread |-> Unused]
  /\ answer = [t \in Thread |-> [kind |-> "none"]]
  /\ received = 0
  /\ clears = 0

Work(t, new, label) ==
  /\ job' = [job EXCEPT ![t] = new]
  /\ pc' = [pc EXCEPT ![t] = label]

Reply(t, a) ==
  /\ answer' = [answer EXCEPT ![t] = a]
  /\ Work(t, Unused, "idle")
-----------------------------------------------------------------------------
(***************************************************************************)
(* Ranking.                                                                *)
(***************************************************************************)
Known(ranked) == Keep(ranked, Food)

\* _to_results: unknown foods are dropped before the limit is applied.
ToResults(ranked, limit) == Top(Known(ranked), limit)

\* Fractions, to add and compare reciprocal ranks exactly.
Plus(p, q) == [n |-> p.n * q.d + q.n * p.d, d |-> p.d * q.d]

Less(p, q) == p.n * q.d < q.n * p.d

ScoreIn(ranking, f) ==
  IF f \in Range(ranking) THEN [n |-> 1, d |-> K + Position(ranking, f)]
                          ELSE [n |-> 0, d |-> 1]

Met(first, second) == Range(first) \cup Range(second)

\* The foods of the first ranking are met first.
MetBefore(first, second, f, g) ==
  IF f \in Range(first)
  THEN g \in Range(first) => Position(first, f) < Position(first, g)
  ELSE g \notin Range(first) /\ Position(second, f) < Position(second, g)

Total(first, second, f) == Plus(ScoreIn(first, f), ScoreIn(second, f))

\* The larger sum of reciprocal ranks first; equal sums in the order in which the
\* foods were met.
FusedBefore(first, second) ==
  {p \in Met(first, second) \X Met(first, second) :
     LET f == Total(first, second, p[1])
         g == Total(first, second, p[2])
     IN  Less(g, f) \/ (~Less(f, g) /\ MetBefore(first, second, p[1], p[2]))}

\* A mutant: the sums in ascending order.
FuseAscending(first, second) ==
  Sorted(Met(first, second), {<<p[2], p[1]>> : p \in FusedBefore(first, second)})

Fuse(first, second) == Sorted(Met(first, second), FusedBefore(first, second))

RerankedSize(limit) == Max({limit, RerankCandidates})

Pool(limit) ==
  IF reranker.wired THEN Max({PoolSize, RerankedSize(limit)}) ELSE PoolSize

Bm25Rank(j) == Top(Bm25Order[j.query], Pool(j.limit))

\* One ranking is used as it is; two are fused.
Fused(j, dense) ==
  IF Bm25Rank(j) = <<>> THEN dense
  ELSE IF dense = <<>> THEN Bm25Rank(j)
  ELSE Fuse(Bm25Rank(j), dense)

\* What the reranker is given: the known foods among the best candidates.
\* A mutant: as many candidates as results.
RerankPairsTooFew(j) == Known(Top(j.fused, j.limit))

RerankPairs(j) == Known(Top(j.fused, RerankedSize(j.limit)))

Reranked(j) == Top(Keep(RerankOrder[j.query], Range(RerankPairs(j))), j.limit)

\* The in-memory search by similarity.
Cosine(j) == Top(Known(DenseOrder[j.query]), j.limit)
-----------------------------------------------------------------------------
(***************************************************************************)
(* A request.                                                              *)
(***************************************************************************)
Receive(t, r) ==
  /\ pc[t] = "idle"
  /\ received < MaxRequests
  /\ received' = received + 1
  /\ answer' = [answer EXCEPT ![t] = [kind |-> "none"]]
  /\ Work(t, NewJob(r), "lookup")
  /\ UNCHANGED <<cache, now, services, clears>>

\* search(): the hybrid search when there is a vector store.
Route == IF qdrant.wired THEN "count" ELSE "cosine"

Lookup(t) ==
  LET j == job[t] IN
  /\ pc[t] = "lookup"
  /\ \/ /\ Hit(KeyOf(j), j.at)
        /\ Reply(t, [kind |-> "hit", at |-> j.at, done |-> Entry(KeyOf(j)).done])
     \/ /\ Miss(KeyOf(j), j.at)
        /\ Work(t, j, Route)
        /\ UNCHANGED answer
  /\ UNCHANGED <<now, services, received, clears>>

Goto(t, new, label) ==
  /\ Work(t, new, label)
  /\ UNCHANGED <<cache, now, services, answer, received, clears>>

\* The result is there, and the clock is read for its expiry.
Computed(t, value) ==
  Goto(t, [job[t] EXCEPT !.value = value, !.done = now, !.dense = <<>>,
                         !.fused = <<>>], "insert")

CosineSearch(t) == pc[t] = "cosine" /\ Computed(t, Cosine(job[t]))

\* The embedder is not guarded here: its exception reaches the client, and
\* neither the entry nor the miss is recorded.
CosineRaises(t) ==
  /\ pc[t] = "cosine"
  /\ Reply(t, [kind |-> "raised"])
  /\ UNCHANGED <<cache, now, services, received, clears>>

\* A failing count is 0, and then the dense search is left out.  Qdrant may fail
\* and be back at any time.
Count(t) ==
  /\ pc[t] = "count"
  /\ Goto(t, job[t], "dense") \/ Goto(t, job[t], "fuse")

\* The nearest points of the collection, of this menu or of an older one.
Nearest(query, n) == Top(Keep(DenseOrder[query], qdrant.points), n)

\* Nothing when the embedder or Qdrant raises.
DenseRank(t) ==
  /\ pc[t] = "dense"
  /\ \E dense \in {Nearest(job[t].query, Pool(job[t].limit)), <<>>} :
       Goto(t, [job[t] EXCEPT !.dense = dense], "fuse")

\* Without a ranking, or without a known candidate, there is nothing to rerank.
FuseRankings(t) ==
  LET j     == job[t]
      fused == Fused(j, j.dense)
      pairs == RerankPairs([j EXCEPT !.fused = fused])
  IN  /\ pc[t] = "fuse"
      /\ IF fused # <<>> /\ reranker.wired
         THEN IF pairs = <<>>
              THEN Computed(t, ToResults(Top(fused, j.limit), j.limit))
              ELSE Goto(t, [j EXCEPT !.fused = fused], "rerank")
         ELSE Computed(t, ToResults(fused, j.limit))

Unavailable(t) == Computed(t, ToResults(job[t].fused, job[t].limit))

\* _ensure_loaded: a model that is there is used, also if another thread failed
\* to load it; a failure is remembered; otherwise this thread loads it.
EnsureLoaded(t) ==
  /\ pc[t] = "rerank"
  /\ \/ reranker.model /\ Goto(t, job[t], "predict")
     \/ ~reranker.model /\ reranker.failed /\ Unavailable(t)
     \/ ~reranker.model /\ ~reranker.failed /\ Goto(t, job[t], "load")

Load(t) ==
  /\ pc[t] = "load"
  /\ \/ /\ reranker' = [reranker EXCEPT !.model = TRUE]
        /\ Work(t, job[t], "predict")
     \/ /\ reranker' = [reranker EXCEPT !.failed = TRUE]
        /\ Work(t, [job[t] EXCEPT
                      !.value = ToResults(job[t].fused, job[t].limit),
                      !.done = now, !.dense = <<>>, !.fused = <<>>], "insert")
  /\ UNCHANGED <<cache, now, qdrant, answer, received, clears>>

\* The forward pass may fail, which is not remembered.
Predict(t) ==
  /\ pc[t] = "predict"
  /\ Computed(t, ToResults(Reranked(job[t]), job[t].limit)) \/ Unavailable(t)

InsertResult(t) ==
  /\ pc[t] = "insert"
  /\ Insert(KeyOf(job[t]), job[t].value, job[t].done)
  /\ Work(t, job[t], "report")
  /\ UNCHANGED <<now, services, answer, received, clears>>

ReportMiss(t) ==
  /\ pc[t] = "report"
  /\ CountMiss
  /\ Reply(t, [kind |-> "miss"])
  /\ UNCHANGED <<now, services, received, clears>>
-----------------------------------------------------------------------------
Tick ==
  /\ now < MaxNow
  /\ now' = now + 1
  /\ UNCHANGED <<cache, services, pc, job, answer, received, clears>>

CacheClear ==
  /\ clears < MaxClears
  /\ clears' = clears + 1
  /\ Clear
  /\ UNCHANGED <<now, services, pc, job, answer, received>>

SearchStep(t) ==
  \/ Lookup(t)
  \/ CosineSearch(t) \/ CosineRaises(t)
  \/ Count(t) \/ DenseRank(t) \/ FuseRankings(t)
  \/ EnsureLoaded(t) \/ Load(t) \/ Predict(t)
  \/ InsertResult(t) \/ ReportMiss(t)

Next ==
  \/ \E t \in Thread, r \in Requests : Receive(t, r)
  \/ \E t \in Thread : SearchStep(t)
  \/ Tick \/ CacheClear

Spec == Init /\ [][Next]_vars
-----------------------------------------------------------------------------
\* The page of results of a key is a page of the menu: foods of the menu, each
\* once, at most as many as asked for.  A query with words fills its page, even
\* when Qdrant is down or full of foods that no longer exist, and when the
\* reranker cannot be loaded or fails.
FullPage(key, value) ==
  /\ Range(value) \subseteq Food
  /\ IsInjective(value)
  /\ Len(value) <= key.limit
  /\ Bm25Order[key.query] # <<>> => Len(value) = Min({key.limit, Len(Corpus)})

PagesAreFull ==
  /\ \A i \in DOMAIN store : FullPage(store[i].key, store[i].value)
  /\ \A t \in Thread :
       pc[t] \in {"insert", "report"} => FullPage(KeyOf(job[t]), job[t].value)

\* A food that both rankings put before another stays before it when they are
\* fused; a food that only one of them has is met in the fused ranking, too.
FusionRespectsRankings ==
  \A t \in Thread :
    pc[t] = "rerank" =>
      LET j == job[t]
          Before(r, f, g) == f \in Range(r) /\
                               (g \in Range(r) => Position(r, f) < Position(r, g))
      IN  /\ Range(j.fused) = Range(Bm25Rank(j)) \cup Range(j.dense)
          /\ \A f, g \in Range(j.fused) :
               /\ f # g
               /\ Before(Bm25Rank(j), f, g)
               /\ j.dense = <<>> \/ Before(j.dense, f, g)
               => Position(j.fused, f) < Position(j.fused, g)

\* A cached answer was computed less than TTL before the request read the clock,
\* however long the request then waited for the lock.
ServedFresh ==
  \A t \in Thread : answer[t].kind = "hit" => answer[t].at < answer[t].done + TTL

\* /ai/stats and cache_info() agree, except for misses whose threads are between
\* the two counts, and count what was answered; clearing the cache resets only
\* the latter.
CountersAgree ==
  LET between == Cardinality({t \in Thread : pc[t] = "report"}) IN
  /\ stats.hits <= counter.hits
  /\ clears = 0 => /\ stats.hits = counter.hits
                   /\ stats.misses = counter.misses + between
  /\ counter.hits + counter.misses + between
       <= received - Cardinality({t \in Thread :
                                    pc[t] \notin {"idle", "report"}})
=============================================================================
