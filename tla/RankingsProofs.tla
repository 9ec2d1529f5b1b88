--------------------------- MODULE RankingsProofs ---------------------------
(***************************************************************************)
(* What sorting, filtering and slicing a list do, for every finite set,    *)
(* every strict total order and every list.                                *)
(***************************************************************************)
EXTENDS Rankings, FiniteSetTheorems, SequenceTheorems,
        WellFoundedInduction, TLAPS

\* before is a strict total order on S.
StrictOrder(before, S) ==
  /\ \A x \in S : <<x, x>> \notin before
  /\ \A x, y \in S : x # y => <<x, y>> \in before \/ <<y, x>> \in before
  /\ \A x, y, z \in S : <<x, y>> \in before /\ <<y, z>> \in before => <<x, z>> \in before

Below(S, before, x) == {y \in S : <<y, x>> \in before}

\* A set of numbers has a least element.
LEMMA MinIn ==
  ASSUME NEW S \in SUBSET Nat, S # {}
  PROVE  Min(S) \in S
  <1> DEFINE R == OpToRel(<, Nat)
  <1>1. IsWellFoundedOn(R, Nat)
    BY NatLessThanWellFounded
  <1>2. ASSUME NEW y \in Nat, NEW z \in Nat, y < z
        PROVE  <<y, z>> \in R
    <2>1. <<y, z>> \in Nat \X Nat
      OBVIOUS
    <2>2. R = {ss \in Nat \X Nat : ss[1] < ss[2]}
      BY DEF OpToRel
    <2>3. QED
      BY <1>2, <2>1, <2>2
  <1> HIDE DEF R
  <1>3. PICK x \in S : \A y \in S : ~(<<y, x>> \in R)
    BY <1>1, WFMin
  <1>4. ASSUME NEW y \in S
        PROVE  x <= y
    <2>1. x \in Nat /\ y \in Nat
      OBVIOUS
    <2>2. ~(y < x)
      BY <1>2, <1>3, <2>1
    <2>3. QED
      BY <2>1, <2>2
  <1>5. QED
    BY <1>4 DEF Min

\* The smaller of two numbers.
LEMMA RankMin ==
  ASSUME NEW a \in Int, NEW b \in Int
  PROVE  /\ Min({a, b}) \in Int
         /\ Min({a, b}) = IF a <= b THEN a ELSE b
  BY SMT DEF Min

\* The larger of two numbers.
LEMMA RankMax ==
  ASSUME NEW a \in Int, NEW b \in Int
  PROVE  /\ Max({a, b}) \in Int
         /\ Max({a, b}) = IF a >= b THEN a ELSE b
  BY SMT DEF Max

\* What has x before it has fewer members than S, and a later member has more.
LEMMA BelowCounts ==
  ASSUME NEW S, IsFiniteSet(S), NEW before, StrictOrder(before, S), NEW x \in S
  PROVE  /\ IsFiniteSet(Below(S, before, x))
         /\ Cardinality(Below(S, before, x)) \in 0..(Cardinality(S) - 1)
         /\ \A y \in S : <<x, y>> \in before =>
              Cardinality(Below(S, before, x)) < Cardinality(Below(S, before, y))
<1>1. \A y \in S : IsFiniteSet(Below(S, before, y)) /\ Cardinality(Below(S, before, y)) \in Nat
  BY FS_Subset, FS_CardinalityType DEF Below
<1>2. Cardinality(S) \in Nat
  BY FS_CardinalityType
<1>3. x \notin Below(S, before, x)
  BY DEF Below, StrictOrder
<1>4. /\ IsFiniteSet(Below(S, before, x) \cup {x})
      /\ Cardinality(Below(S, before, x) \cup {x}) = Cardinality(Below(S, before, x)) + 1
  BY <1>1, <1>3, FS_AddElement
<1>5. Below(S, before, x) \cup {x} \subseteq S
  BY DEF Below
<1>6. Cardinality(Below(S, before, x)) + 1 <= Cardinality(S)
  BY <1>4, <1>5, FS_Subset
<1>7. ASSUME NEW y \in S, <<x, y>> \in before
      PROVE  Cardinality(Below(S, before, x)) < Cardinality(Below(S, before, y))
  <2>1. Below(S, before, x) \cup {x} \subseteq Below(S, before, y)
    BY <1>7 DEF Below, StrictOrder
  <2>2. Cardinality(Below(S, before, x)) + 1 <= Cardinality(Below(S, before, y))
    BY <2>1, <1>1, <1>4, FS_Subset
  <2> QED
    BY <2>2, <1>1
<1> QED
  BY <1>1, <1>2, <1>6, <1>7

\* Sorting lists every member once, in the order.
LEMMA SortedFacts ==
  ASSUME NEW S, IsFiniteSet(S), NEW before, StrictOrder(before, S)
  PROVE  /\ Cardinality(S) \in Nat
         /\ Sorted(S, before) \in [1..Cardinality(S) -> S]
         /\ \A x \in S : \E k \in 1..Cardinality(S) : Sorted(S, before)[k] = x
         /\ \A i, j \in 1..Cardinality(S) :
              i < j <=> <<Sorted(S, before)[i], Sorted(S, before)[j]>> \in before
         /\ \A i, j \in 1..Cardinality(S) :
              Sorted(S, before)[i] = Sorted(S, before)[j] => i = j
<1> DEFINE n == Cardinality(S)
           rank == [x \in S |-> Cardinality(Below(S, before, x))]
           T == 0..(n - 1)
           so == Sorted(S, before)
<1>1. n \in Nat
  BY FS_CardinalityType
<1>2. rank \in [S -> T] /\ \A x, y \in S : <<x, y>> \in before => rank[x] < rank[y]
  BY BelowCounts, Zenon
<1>3. rank \in Injection(S, T)
  <2>1. SUFFICES ASSUME NEW x \in S, NEW y \in S, rank[x] = rank[y], x # y PROVE FALSE
    BY <1>2 DEF Injection, IsInjective
  <2>2. <<x, y>> \in before \/ <<y, x>> \in before
    BY <2>1 DEF StrictOrder
  <2>3. rank[x] \in Int /\ rank[y] \in Int
    BY <1>2, <1>1
  <2> QED
    BY <1>2, <2>1, <2>2, <2>3
<1>4. IsFiniteSet(T) /\ Cardinality(T) = n
  BY <1>1, FS_Interval, SMTT(30)
<1>5. rank \in Surjection(S, T)
  BY <1>3, <1>4, FS_Injection
<1>6. \A k \in T : \E x \in S : rank[x] = k
  BY <1>5 DEF Surjection
<1>7. PICK ranks : ranks = {<<x, Cardinality({y \in S : <<y, x>> \in before})>> : x \in S}
  OBVIOUS
<1>8. \A x \in S : \A m : <<x, m>> \in ranks <=> rank[x] = m
  BY <1>7 DEF Below
<1>9. so = [k \in 1..n |-> CHOOSE x \in S : <<x, k - 1>> \in ranks]
  BY <1>7 DEF Sorted
<1> HIDE DEF so, rank
<1>10. ASSUME NEW k \in 1..n PROVE so[k] \in S /\ rank[so[k]] = k - 1
  <2>1. k - 1 \in T
    BY <1>1
  <2>2. \E x \in S : <<x, k - 1>> \in ranks
    BY <2>1, <1>6, <1>8
  <2>3. so[k] = CHOOSE x \in S : <<x, k - 1>> \in ranks
    BY <1>9
  <2>4. so[k] \in S /\ <<so[k], k - 1>> \in ranks
    BY <2>2, <2>3
  <2> QED
    BY <2>4, <1>8
<1>11. so \in [1..n -> S]
  <2>1. \A k \in 1..n : (CHOOSE x \in S : <<x, k - 1>> \in ranks) \in S
    BY <1>9, <1>10
  <2> QED
    BY <2>1, <1>9, Zenon
<1>12. \A x \in S : \E k \in 1..n : so[k] = x
  <2>1. TAKE x \in S
  <2>2. rank[x] \in T
    BY <1>2
  <2>3. rank[x] + 1 \in 1..n
    BY <2>2, <1>1
  <2>4. so[rank[x] + 1] \in S /\ rank[so[rank[x] + 1]] = rank[x]
    BY <1>10, <2>3, <2>2
  <2>5. so[rank[x] + 1] = x
    BY <2>4, <1>3 DEF Injection, IsInjective
  <2> QED
    BY <2>3, <2>5
<1>13. \A i, j \in 1..n : so[i] = so[j] => i = j
  BY <1>10, <1>1
<1>14. ASSUME NEW i \in 1..n, NEW j \in 1..n PROVE i < j <=> <<so[i], so[j]>> \in before
  <2>1. so[i] \in S /\ so[j] \in S /\ rank[so[i]] = i - 1 /\ rank[so[j]] = j - 1
    BY <1>10
  <2>2. CASE i < j
    <3>1. so[i] # so[j]
      BY <2>1, <2>2, <1>1
    <3>2. <<so[i], so[j]>> \in before \/ <<so[j], so[i]>> \in before
      BY <3>1, <2>1 DEF StrictOrder
    <3>3. <<so[j], so[i]>> \notin before
      BY <2>1, <2>2, <1>2, <1>1
    <3> QED
      BY <2>2, <3>2, <3>3
  <2>3. CASE ~(i < j)
    BY <2>1, <2>3, <1>2, <1>1
  <2> QED
    BY <2>2, <2>3
<1> QED
  BY <1>1, <1>11, <1>12, <1>13, <1>14 DEF so

\* The places P of a list, counted from the first.
LEMMA AscendingFacts ==
  ASSUME NEW P \in SUBSET Int, IsFiniteSet(P)
  PROVE  /\ Cardinality(P) \in Nat
         /\ Ascending(P) \in [1..Cardinality(P) -> P]
         /\ \A i \in P : \E k \in 1..Cardinality(P) : Ascending(P)[k] = i
         /\ \A i, j \in 1..Cardinality(P) : i < j <=> Ascending(P)[i] < Ascending(P)[j]
<1> DEFINE before == {p \in P \X P : p[1] < p[2]}
<1>1. \A i, j \in P : <<i, j>> \in before <=> i < j
  OBVIOUS
<1>2. StrictOrder(before, P)
  <2> HIDE DEF before
  <2>1. \A i \in P : i \in Int
    OBVIOUS
  <2> QED
    BY <1>1, <2>1 DEF StrictOrder
<1>3. Ascending(P) = Sorted(P, before)
  BY DEF Ascending
<1> HIDE DEF before
<1>4. /\ Cardinality(P) \in Nat
      /\ Ascending(P) \in [1..Cardinality(P) -> P]
      /\ \A i \in P : \E k \in 1..Cardinality(P) : Ascending(P)[k] = i
      /\ \A i, j \in 1..Cardinality(P) :
           i < j <=> <<Ascending(P)[i], Ascending(P)[j]>> \in before
  BY <1>2, <1>3, SortedFacts
<1> QED
  BY <1>4, <1>1

\* Picking the places P of a list lists their elements in the order of P.
LEMMA PickFacts ==
  ASSUME NEW P \in SUBSET Int, IsFiniteSet(P), NEW seq
  PROVE  /\ Cardinality(P) \in Nat
         /\ DOMAIN Pick(seq, P) = 1..Cardinality(P)
         /\ Len(Pick(seq, P)) = Cardinality(P)
         /\ \A k \in 1..Cardinality(P) : Pick(seq, P)[k] = seq[Ascending(P)[k]]
         /\ \A T : (\A i \in P : seq[i] \in T) => Pick(seq, P) \in Seq(T)
         /\ Range(Pick(seq, P)) = {seq[i] : i \in P}
<1> DEFINE n == Cardinality(P)
           pick == Pick(seq, P)
<1>1. n \in Nat
  BY FS_CardinalityType
<1>2. pick = [k \in 1..n |-> seq[Ascending(P)[k]]]
  BY DEF Pick
<1>3. \A k \in 1..n : Ascending(P)[k] \in P
  BY AscendingFacts
<1>4. \A i \in P : \E k \in 1..n : Ascending(P)[k] = i
  BY AscendingFacts
<1> HIDE DEF n, pick
<1>5. ASSUME NEW T, \A i \in P : seq[i] \in T PROVE pick \in Seq(T)
  <2>1. \A k \in 1..n : seq[Ascending(P)[k]] \in T
    BY <1>3, <1>5
  <2>2. pick \in [1..n -> T]
    BY <1>2, <2>1
  <2> QED
    BY <2>2, <1>1
<1>6. DOMAIN pick = 1..n /\ \A k \in 1..n : pick[k] = seq[Ascending(P)[k]]
  BY <1>2
<1>7. Len(pick) = n
  <2>1. pick \in Seq({seq[i] : i \in P})
    BY <1>5
  <2> QED
    BY <1>6, <1>1, <2>1
<1>8. Range(pick) = {seq[i] : i \in P}
  <2>1. ASSUME NEW x \in Range(pick) PROVE \E i \in P : x = seq[i]
    <3>1. PICK k \in 1..n : x = pick[k]
      BY <1>6 DEF Range
    <3> QED
      BY <3>1, <1>3, <1>6
  <2>2. \A i \in P : seq[i] \in Range(pick)
    BY <1>6, <1>4 DEF Range
  <2> QED
    BY <2>1, <2>2
<1> QED
  BY <1>1, <1>5, <1>6, <1>7, <1>8 DEF n, pick

\* The places of a whole list, in their order.
LEMMA AscendingInterval ==
  ASSUME NEW m \in Nat, NEW k \in 1..m
  PROVE  Cardinality(1..m) = m /\ Ascending(1..m)[k] = k
<1>1. Cardinality(1..m) = m
  BY FS_Interval
<1>2. PICK before : before = {p \in (1..m) \X (1..m) : p[1] < p[2]}
  OBVIOUS
<1>3. \A i, j \in 1..m : <<i, j>> \in before <=> i < j
  BY <1>2
<1>4. ASSUME NEW i \in 1..m
      PROVE  Cardinality({j \in 1..m : <<j, i>> \in before}) = i - 1
  <2>1. \A j \in 1..m : <<j, i>> \in before <=> j \in 1..(i - 1)
    BY <1>3
  <2>2. \A j \in 1..(i - 1) : j \in 1..m
    OBVIOUS
  <2>3. {j \in 1..m : <<j, i>> \in before} = 1..(i - 1)
    BY <2>1, <2>2
  <2>4. i - 1 \in Nat
    OBVIOUS
  <2>5. Cardinality(1..(i - 1)) = i - 1
    BY <2>4, FS_Interval
  <2> QED
    BY <2>3, <2>5
<1>5. Ascending(1..m)[k]
        = CHOOSE i \in 1..m : Cardinality({j \in 1..m : <<j, i>> \in before}) = k - 1
  BY <1>1, <1>2 DEF Ascending, Sorted
<1>6. PICK n : n = Ascending(1..m)[k]
  OBVIOUS
<1>7. n \in 1..m /\ Cardinality({j \in 1..m : <<j, n>> \in before}) = k - 1
  BY <1>4, <1>5, <1>6
<1>8. n - 1 = k - 1
  BY <1>4, <1>7
<1>9. n = k
  BY <1>7, <1>8
<1> QED
  BY <1>1, <1>6, <1>9

\* The places of a list are finitely many numbers.
LEMMA PlacesFinite ==
  ASSUME NEW T, NEW seq \in Seq(T), NEW P \in SUBSET DOMAIN seq
  PROVE  P \in SUBSET Int /\ IsFiniteSet(P) /\ Cardinality(P) <= Len(seq)
<1>1. DOMAIN seq = 1..Len(seq) /\ Len(seq) \in Nat
  OBVIOUS
<1>2. IsFiniteSet(1..Len(seq)) /\ Cardinality(1..Len(seq)) = Len(seq)
  <2>1. 1 \in Int /\ Len(seq) \in Int
    BY <1>1
  <2> HIDE <1>1
  <2>2. /\ IsFiniteSet(1..Len(seq))
        /\ Cardinality(1..Len(seq)) = IF 1 > Len(seq) THEN 0 ELSE Len(seq) - 1 + 1
    BY <2>1, FS_Interval, Zenon
  <2> QED
    BY <2>2, <1>1
<1>3. IsFiniteSet(P) /\ Cardinality(P) <= Cardinality(1..Len(seq))
  BY <1>1, <1>2, FS_Subset
<1> QED
  BY <1>1, <1>2, <1>3

Places(seq, S) == {i \in DOMAIN seq : seq[i] \in S}

\* Filtering a list keeps the elements of S, in the order of the list.
LEMMA KeepFacts ==
  ASSUME NEW T, NEW seq \in Seq(T), NEW S
  PROVE  /\ Keep(seq, S) \in Seq(T) /\ Keep(seq, S) \in Seq(S)
         /\ Len(Keep(seq, S)) = Cardinality(Places(seq, S))
         /\ DOMAIN Keep(seq, S) = 1..Cardinality(Places(seq, S))
         /\ Range(Keep(seq, S)) = Range(seq) \cap S
         /\ Ascending(Places(seq, S)) \in [DOMAIN Keep(seq, S) -> DOMAIN seq]
         /\ \A k \in DOMAIN Keep(seq, S) :
              Keep(seq, S)[k] = seq[Ascending(Places(seq, S))[k]]
         /\ \A i, j \in DOMAIN Keep(seq, S) :
              i < j <=> Ascending(Places(seq, S))[i] < Ascending(Places(seq, S))[j]
<1> DEFINE P == Places(seq, S)
<1>1. P \in SUBSET DOMAIN seq /\ \A i \in P : seq[i] \in S /\ seq[i] \in T
  BY DEF Places
<1>2. Keep(seq, S) = Pick(seq, P)
  BY DEF Keep, Places
<1>3. P \in SUBSET Int /\ IsFiniteSet(P)
  BY <1>1, PlacesFinite
<1>4. {seq[i] : i \in P} = Range(seq) \cap S
  BY DEF Range, Places
<1> HIDE DEF P
<1>5. /\ Ascending(P) \in [1..Cardinality(P) -> P]
      /\ \A i, j \in 1..Cardinality(P) : i < j <=> Ascending(P)[i] < Ascending(P)[j]
  BY <1>3, AscendingFacts
<1>6. /\ DOMAIN Pick(seq, P) = 1..Cardinality(P)
      /\ Len(Pick(seq, P)) = Cardinality(P)
      /\ \A k \in 1..Cardinality(P) : Pick(seq, P)[k] = seq[Ascending(P)[k]]
      /\ Range(Pick(seq, P)) = {seq[i] : i \in P}
      /\ Pick(seq, P) \in Seq(T) /\ Pick(seq, P) \in Seq(S)
  BY <1>1, <1>3, PickFacts
<1>7. Ascending(P) \in [1..Cardinality(P) -> DOMAIN seq]
  BY <1>5, <1>1
<1> QED
  BY <1>2, <1>4, <1>5, <1>6, <1>7 DEF P

\* Filtering a list without repetitions: no repetitions, as many elements as the
\* list and S share, and nothing is moved.
LEMMA KeepOnce ==
  ASSUME NEW T, NEW seq \in Seq(T), IsInjective(seq), NEW S
  PROVE  /\ IsInjective(Keep(seq, S))
         /\ IsFiniteSet(Range(seq) \cap S)
         /\ Len(Keep(seq, S)) = Cardinality(Range(seq) \cap S)
         /\ \A i, j \in DOMAIN Keep(seq, S), k, l \in DOMAIN seq :
              Keep(seq, S)[i] = seq[k] /\ Keep(seq, S)[j] = seq[l] => (i < j <=> k < l)
<1>0. PICK P, ke, D, at : /\ P = Places(seq, S) /\ ke = Keep(seq, S)
                         /\ D = Range(seq) \cap S /\ at = Ascending(Places(seq, S))
  OBVIOUS
<1>1. /\ DOMAIN ke = 1..Cardinality(P) /\ Len(ke) = Cardinality(P)
      /\ Range(ke) = D
      /\ at \in [DOMAIN ke -> DOMAIN seq]
      /\ \A k \in DOMAIN ke : ke[k] = seq[at[k]]
      /\ \A i, j \in DOMAIN ke : i < j <=> at[i] < at[j]
  <2>1. Len(Keep(seq, S)) = Cardinality(Places(seq, S))
    BY KeepFacts
  <2>2. DOMAIN Keep(seq, S) = 1..Cardinality(Places(seq, S))
    BY KeepFacts
  <2>3. Range(Keep(seq, S)) = Range(seq) \cap S
    BY KeepFacts
  <2>4. Ascending(Places(seq, S)) \in [DOMAIN Keep(seq, S) -> DOMAIN seq]
    BY KeepFacts
  <2>5. \A k \in DOMAIN Keep(seq, S) :
             Keep(seq, S)[k] = seq[Ascending(Places(seq, S))[k]]
    BY KeepFacts
  <2>6. \A i, j \in DOMAIN Keep(seq, S) :
             i < j <=> Ascending(Places(seq, S))[i] < Ascending(Places(seq, S))[j]
    BY KeepFacts
  <2> QED
    BY <2>1, <2>2, <2>3, <2>4, <2>5, <2>6, <1>0
<1>2. Cardinality(P) \in Nat /\ IsFiniteSet(P)
  BY <1>0, PlacesFinite, FS_CardinalityType DEF Places
<1>3. IsInjective(ke)
  <2> SUFFICES ASSUME NEW i \in DOMAIN ke, NEW j \in DOMAIN ke, ke[i] = ke[j] PROVE i = j
    BY DEF IsInjective
  <2>1. at[i] = at[j]
    BY <1>1 DEF IsInjective
  <2>2. ~(i < j) /\ ~(j < i)
    <3>1. at[i] \in Int
      BY <1>1
    <3> QED
      BY <1>1, <2>1, <3>1
  <2> QED
    BY <1>1, <1>2, <2>2
<1>4. ke \in Surjection(1..Cardinality(P), D) /\ ke \in Injection(1..Cardinality(P), D)
  <2>1. ke \in [1..Cardinality(P) -> D]
    <3>1. ke \in Seq(T)
      BY <1>0, KeepFacts
    <3>2. \A k \in DOMAIN ke : ke[k] \in D
      BY <1>1 DEF Range
    <3> QED
      BY <1>1, <3>1, <3>2, <1>2
  <2>2. \A x \in D : \E k \in 1..Cardinality(P) : ke[k] = x
    BY <1>1 DEF Range
  <2> QED
    BY <2>1, <2>2, <1>3, <1>1 DEF Surjection, Injection, IsInjective
<1>5. IsFiniteSet(1..Cardinality(P)) /\ Cardinality(1..Cardinality(P)) = Cardinality(P)
  BY <1>2, FS_Interval, SMT
<1>6. IsFiniteSet(D) /\ Cardinality(D) = Cardinality(P)
  BY <1>4, <1>5, FS_Surjection
<1>7. ASSUME NEW i \in DOMAIN ke, NEW j \in DOMAIN ke, NEW k \in DOMAIN seq,
             NEW l \in DOMAIN seq, ke[i] = seq[k], ke[j] = seq[l]
      PROVE  i < j <=> k < l
  <2>1. at[i] = k /\ at[j] = l
    BY <1>1, <1>7 DEF IsInjective
  <2> QED
    BY <2>1, <1>1
<1> QED
  BY <1>0, <1>1, <1>3, <1>6, <1>7

\* The first elements of a list.
LEMMA TopFacts ==
  ASSUME NEW T, NEW seq \in Seq(T), NEW n \in Nat
  PROVE  /\ Top(seq, n) \in Seq(T)
         /\ Len(Top(seq, n)) = IF n <= Len(seq) THEN n ELSE Len(seq)
         /\ \A i \in DOMAIN Top(seq, n) :
              i \in DOMAIN seq /\ i <= n /\ Top(seq, n)[i] = seq[i]
         /\ \A i \in DOMAIN seq : i <= n => i \in DOMAIN Top(seq, n)
         /\ Range(Top(seq, n)) \subseteq Range(seq)
         /\ IsInjective(seq) => IsInjective(Top(seq, n))
         /\ Len(seq) <= n => Top(seq, n) = seq
<1>1. PICK l \in Nat : l = Len(seq) /\ DOMAIN seq = 1..l
  BY LenProperties
<1>2. PICK m \in Nat : m = Min({n, l}) /\ m = IF n <= l THEN n ELSE l
  BY <1>1, RankMin
<1>3. PICK to : to = Top(seq, n)
  OBVIOUS
<1>4. to = [i \in 1..m |-> seq[i]]
  BY <1>1, <1>2, <1>3 DEF Top
<1>5. \A i \in 1..m : i \in 1..l /\ seq[i] \in T
  <2>1. \A i \in 1..m : i \in 1..l
    BY <1>2
  <2> QED
    BY <1>1, <2>1
<1>6. to \in [1..m -> T]
  BY <1>4, <1>5
<1>7. to \in Seq(T) /\ Len(to) = m /\ DOMAIN to = 1..m
  BY <1>6
<1>8. \A i \in 1..m : to[i] = seq[i]
  BY <1>4
<1>9. /\ \A i \in 1..m : i \in 1..l /\ i <= n
      /\ \A i \in 1..l : i <= n => i \in 1..m
  <2>1. \A i \in 1..m : i \in 1..l /\ i <= n
    BY <1>2
  <2>2. \A i \in 1..l : i <= n => i \in 1..m
    BY <1>2
  <2> QED
    BY <2>1, <2>2
<1>10. Range(to) \subseteq Range(seq)
  BY <1>1, <1>5, <1>7, <1>8 DEF Range
<1>11. IsInjective(seq) => IsInjective(to)
  BY <1>1, <1>5, <1>7, <1>8 DEF IsInjective
<1>12. l <= n => to = seq
  <2> SUFFICES ASSUME l <= n PROVE to = seq
    OBVIOUS
  <2>1. m = l
    BY <1>2
  <2> QED
    BY <1>1, <1>7, <1>8, <2>1, SeqEqual
<1> QED
  BY <1>1, <1>2, <1>3, <1>5, <1>7, <1>8, <1>9, <1>10, <1>11, <1>12

\* A list without repetitions has as many elements as its set.
LEMMA ListsFacts ==
  ASSUME NEW S, NEW seq, Lists(seq, S)
  PROVE  /\ IsFiniteSet(S) /\ Cardinality(S) = Len(seq)
         /\ Len(seq) \in Nat /\ DOMAIN seq = 1..Len(seq)
<1>1. seq \in Seq(S) /\ Range(seq) = S /\ IsInjective(seq)
  BY DEF Lists
<1>2. PICK n \in Nat : n = Len(seq) /\ DOMAIN seq = 1..n
  BY <1>1, LenProperties
<1>3. seq \in [1..n -> S]
  BY <1>1, <1>2
<1>4. seq \in Surjection(1..n, S) /\ seq \in Injection(1..n, S)
  BY <1>1, <1>2, <1>3 DEF Surjection, Injection, IsInjective, Range
<1>5. IsFiniteSet(1..n) /\ Cardinality(1..n) = n
  BY FS_Interval
<1>6. IsFiniteSet(S) /\ Cardinality(S) = Cardinality(1..n)
  BY <1>4, <1>5, FS_Surjection
<1> QED
  BY <1>2, <1>5, <1>6

\* A sorted set is a list without repetitions.
LEMMA SortedLists ==
  ASSUME NEW S, IsFiniteSet(S), NEW before, StrictOrder(before, S)
  PROVE  Lists(Sorted(S, before), S)
<1>1. PICK so : so = Sorted(S, before)
  OBVIOUS
<1>2. PICK n \in Nat : n = Cardinality(S)
  BY SortedFacts
<1>3. /\ so \in [1..n -> S]
      /\ \A x \in S : \E k \in 1..n : so[k] = x
      /\ \A i, j \in 1..n : so[i] = so[j] => i = j
  BY <1>1, <1>2, SortedFacts
<1>4. so \in Seq(S) /\ DOMAIN so = 1..n
  BY <1>3
<1>5. Range(so) = S
  BY <1>3, <1>4 DEF Range
<1>6. IsInjective(so)
  BY <1>3, <1>4 DEF IsInjective
<1> QED
  BY <1>1, <1>4, <1>5, <1>6 DEF Lists

\* Filtering or slicing a list without repetitions leaves one.
LEMMA ListsParts ==
  ASSUME NEW seq, Lists(seq, Range(seq)), NEW S, NEW n \in Nat
  PROVE  /\ Lists(Keep(seq, S), Range(seq) \cap S)
         /\ Lists(Top(seq, n), Range(Top(seq, n)))
         /\ Range(Top(seq, n)) \subseteq Range(seq)
         /\ Len(Top(seq, n)) = IF n <= Len(seq) THEN n ELSE Len(seq)
<1>1. seq \in Seq(Range(seq)) /\ IsInjective(seq)
  BY DEF Lists
<1>2. PICK T : T = Range(seq) /\ seq \in Seq(T)
  BY <1>1
<1>3. Lists(Keep(seq, S), Range(seq) \cap S)
  <2>1. PICK ke, D : ke = Keep(seq, S) /\ D = Range(seq) \cap S
    OBVIOUS
  <2>2. Range(ke) = D
    BY <1>2, <2>1, KeepFacts
  <2>3. IsInjective(ke)
    BY <1>1, <1>2, <2>1, KeepOnce
  <2>4. ke \in Seq(T)
    BY <1>2, <2>1, KeepFacts
  <2>5. ke \in Seq(D)
    BY <2>2, <2>4 DEF Range
  <2> QED
    BY <2>1, <2>2, <2>3, <2>5 DEF Lists
<1>4. PICK to : to = Top(seq, n)
  OBVIOUS
<1>5. to \in Seq(T)
  BY <1>2, <1>4, TopFacts
<1>6. to \in Seq(Range(to))
  BY <1>5 DEF Range
<1>7. IsInjective(to)
  BY <1>1, <1>2, <1>4, TopFacts
<1>8. Range(to) \subseteq Range(seq)
  BY <1>2, <1>4, TopFacts
<1>9. Len(to) = IF n <= Len(seq) THEN n ELSE Len(seq)
  BY <1>2, <1>4, TopFacts
<1> QED
  BY <1>3, <1>4, <1>6, <1>7, <1>8, <1>9 DEF Lists

\* The places of the elements of a list of lists, and their order.
Elements(seqs) == UNION {{i} \X DOMAIN seqs[i] : i \in DOMAIN seqs}

Earlier(p, q) == p[1] < q[1] \/ (p[1] = q[1] /\ p[2] < q[2])

\* flat has the elements of the lists in that order, at[k] being the place of the k-th.
InOrder(seqs, flat, N, at) ==
  /\ at \in [1..N -> Elements(seqs)]
  /\ DOMAIN flat = 1..N /\ Len(flat) = N /\ flat \in Seq(Range(flat))
  /\ \A k \in 1..N : flat[k] = seqs[at[k][1]][at[k][2]]
  /\ \A j, k \in 1..N : j < k <=> Earlier(at[j], at[k])
  /\ \A p \in Elements(seqs) : \E k \in 1..N : at[k] = p

\* Extending a list by others takes over their elements, those of earlier lists first.
LEMMA FlatFacts ==
  ASSUME NEW n \in Nat, NEW seqs, DOMAIN seqs = 1..n,
         \A i \in 1..n : seqs[i] \in Seq(Range(seqs[i]))
  PROVE  \E N \in Nat : \E at : InOrder(seqs, Flat(seqs), N, at)
<1>1. PICK E : E = Elements(seqs)
  OBVIOUS
<1>2. PICK before : before = {p \in E \X E : p[1][1] < p[2][1]
                                \/ (p[1][1] = p[2][1] /\ p[1][2] < p[2][2])}
  OBVIOUS
<1>3. \A p \in E : /\ p[1] \in Nat /\ p[2] \in Nat /\ p = <<p[1], p[2]>>
  <2>1. ASSUME NEW p \in E PROVE p[1] \in Nat /\ p[2] \in Nat /\ p = <<p[1], p[2]>>
    <3>1. PICK i \in 1..n : p \in {i} \X DOMAIN seqs[i]
      BY <1>1 DEF Elements
    <3>2. DOMAIN seqs[i] = 1..Len(seqs[i]) /\ Len(seqs[i]) \in Nat
      OBVIOUS
    <3>3. p[1] = i /\ p[2] \in DOMAIN seqs[i] /\ p = <<p[1], p[2]>>
      BY <3>1
    <3>4. p[2] \in Nat
      BY <3>2, <3>3
    <3> QED
      BY <3>3, <3>4
  <2> QED
    BY <2>1
<1>4. ASSUME NEW p \in E, NEW q \in E
      PROVE  <<p, q>> \in before <=> Earlier(p, q)
  <2>1. PICK both : both = <<p, q>>
    OBVIOUS
  <2>2. both \in E \X E /\ both[1] = p /\ both[2] = q
    BY <2>1
  <2> QED
    BY <1>2, <2>1, <2>2 DEF Earlier
<1>5. StrictOrder(before, E)
  <2>1. \A p, q, r \in E : /\ ~Earlier(p, p)
                           /\ p # q => Earlier(p, q) \/ Earlier(q, p)
                           /\ Earlier(p, q) /\ Earlier(q, r) => Earlier(p, r)
    BY <1>3 DEF Earlier
  <2> QED
    BY <1>4, <2>1 DEF StrictOrder
<1>6. IsFiniteSet(E)
  <2>1. \A i \in 1..n : IsFiniteSet({i} \X DOMAIN seqs[i])
    <3>1. TAKE i \in 1..n
    <3>2. PICK m \in Nat : DOMAIN seqs[i] = 1..m
      OBVIOUS
    <3>3. IsFiniteSet(1..m)
      BY FS_Interval
    <3>4. IsFiniteSet({i})
      BY FS_Singleton
    <3> QED
      BY <3>2, <3>3, <3>4, FS_Product
  <2>2. PICK rows : rows = {{i} \X DOMAIN seqs[i] : i \in 1..n}
    OBVIOUS
  <2>3. IsFiniteSet(rows)
    <3>1. PICK row : row = [i \in 1..n |-> {i} \X DOMAIN seqs[i]]
      OBVIOUS
    <3>2. row \in Surjection(1..n, rows)
      BY <2>2, <3>1 DEF Surjection
    <3>3. IsFiniteSet(1..n)
      BY FS_Interval
    <3> QED
      BY <3>2, <3>3, FS_Surjection
  <2>4. IsFiniteSet(UNION rows)
    BY <2>1, <2>2, <2>3, FS_UNION
  <2> QED
    BY <1>1, <2>2, <2>4 DEF Elements
<1>7. PICK N \in Nat : N = Cardinality(E)
  BY <1>6, FS_CardinalityType
<1>8. PICK at : at = Sorted(E, before)
  OBVIOUS
<1>9. /\ at \in [1..N -> E]
      /\ \A p \in E : \E k \in 1..N : at[k] = p
      /\ \A j, k \in 1..N : j < k <=> <<at[j], at[k]>> \in before
  BY <1>5, <1>6, <1>7, <1>8, SortedFacts
<1>10. PICK flat : flat = Flat(seqs)
  OBVIOUS
<1>11. flat = [k \in 1..N |-> seqs[at[k][1]][at[k][2]]]
  <2>1. at = Sorted(E, {p \in E \X E : p[1][1] < p[2][1]
                          \/ (p[1][1] = p[2][1] /\ p[1][2] < p[2][2])})
    BY <1>2, <1>8
  <2> QED
    BY <1>1, <1>7, <1>10, <2>1, Zenon DEF Flat, Elements
<1>12. DOMAIN flat = 1..N /\ \A k \in 1..N : flat[k] = seqs[at[k][1]][at[k][2]]
  BY <1>11
<1>13. flat \in Seq(Range(flat)) /\ Len(flat) = N
  <2>1. \A k \in 1..N : flat[k] \in Range(flat)
    BY <1>12 DEF Range
  <2>2. flat = [k \in 1..N |-> flat[k]]
    BY <1>11
  <2> QED
    BY <2>1, <2>2
<1>14. \A j, k \in 1..N : j < k <=> Earlier(at[j], at[k])
  BY <1>4, <1>9
<1> QED
  <2>1. InOrder(seqs, flat, N, at)
    BY <1>1, <1>9, <1>12, <1>13, <1>14 DEF InOrder
  <2> QED
    BY <1>10, <2>1
=============================================================================
