---------------------------- MODULE MCMenuSearch -----------------------------
(***************************************************************************)
(* A small instance of MenuSearch: a menu of three foods, four foods of an *)
(* older menu that fill Qdrant's answer, a query with words and one        *)
(* without.                                                                *)
(***************************************************************************)
EXTENDS MenuSearch

MCCorpus == <<"a", "b", "c">>

MCBm25Order == "words" :> <<"c", "a", "b">> @@ "marks" :> <<>>

MCDenseOrder == "words" :> <<"v", "x", "y", "z", "a", "b", "c">>
                @@ "marks" :> <<"y", "a", "v", "b", "x", "c", "z">>

MCRerankOrder == "words" :> <<"b", "c", "a">> @@ "marks" :> <<"a", "b", "c">>

MCLeftovers == {{}, {"v", "x", "y", "z"}}

MCRequests == {[query |-> "words", limit |-> 1], [query |-> "words", limit |-> 2],
               [query |-> "marks", limit |-> 2]}

Symmetry == Permutations(Thread)
=============================================================================
