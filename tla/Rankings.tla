------------------------------ MODULE Rankings ------------------------------
(***************************************************************************)
(* What Python's sorted(), comprehensions, slices and extend() do to lists.*)
(* They are written by counting, so that what they return can be proved    *)
(* for lists of every length.                                              *)
(***************************************************************************)
EXTENDS Integers, Sequences, FiniteSets, FiniteSetsExt, Functions

\* sorted(): the members of S in the strict total order before, a set of pairs.
\* The member at k has k - 1 before it.
Sorted(S, before) ==
  LET ranks == {<<x, Cardinality({y \in S : <<y, x>> \in before})>> : x \in S}
  IN  [k \in 1..Cardinality(S) |-> CHOOSE x \in S : <<x, k - 1>> \in ranks]

Ascending(P) == Sorted(P, {p \in P \X P : p[1] < p[2]})

\* The elements of a list at the places P, in the order of the list.
Pick(seq, P) ==
  LET at == Ascending(P) IN [k \in 1..Cardinality(P) |-> seq[at[k]]]

\* [x for x in seq if x in S]
Keep(seq, S) == Pick(seq, {i \in DOMAIN seq : seq[i] \in S})

\* The lists of a list one after the other: the element k of list i stands after
\* those of the lists before i and the k - 1 before it.
Flat(seqs) ==
  LET places == UNION {{i} \X DOMAIN seqs[i] : i \in DOMAIN seqs}
      before == {p \in places \X places :
                   p[1][1] < p[2][1] \/ (p[1][1] = p[2][1] /\ p[1][2] < p[2][2])}
      at     == Sorted(places, before)
  IN  [n \in 1..Cardinality(places) |-> seqs[at[n][1]][at[n][2]]]

\* seq has each member of S once and nothing else.
Lists(seq, S) == seq \in Seq(S) /\ Range(seq) = S /\ IsInjective(seq)

\* seq[:n]
Top(seq, n) == SubSeq(seq, 1, Min({n, Len(seq)}))
=============================================================================
