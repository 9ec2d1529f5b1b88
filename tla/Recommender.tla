---------------------------- MODULE Recommender -----------------------------
(***************************************************************************)
(* services/recommender.py.  The similarity to the mean of the foods that  *)
(* were ordered is abstracted to a ranking of the menu for each set.       *)
(***************************************************************************)
EXTENDS Integers, Sequences, SequencesExt, FiniteSetsExt, Rankings

CONSTANTS
  RecommendMax,  \* _MAX_LIMIT
  Similar        \* for each set of foods, the foods of the menu by similarity

RecommendLimit(limit) == Max({1, Min({limit, RecommendMax})})

PopularityFallback(foods, limit) ==
  [strategy |-> "popularity_fallback", user_has_history |-> FALSE,
   items |-> Top(foods, limit)]

\* Foods that were ordered rank last and end the list.
ContentBased(foods, ordered, limit) ==
  [strategy |-> "content_based", user_has_history |-> TRUE,
   items |-> Top(Keep(Similar[ordered \cap Range(foods)], Range(foods) \ ordered),
                 limit)]

\* recommend(), for the foods of the corpus: a history without a food of the
\* corpus is none.
Recommend(foods, ordered, limit) ==
  LET k == RecommendLimit(limit) IN
  IF ordered \cap Range(foods) = {} THEN PopularityFallback(foods, k)
                                    ELSE ContentBased(foods, ordered, k)
=============================================================================
