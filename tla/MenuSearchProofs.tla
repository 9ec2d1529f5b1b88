-------------------------- MODULE MenuSearchProofs --------------------------
(***************************************************************************)
(* Proofs about MenuSearch and its result cache: the cache is a bounded    *)
(* map in the order of use, what it serves is fresh, its two pairs of      *)
(* counters agree, pages are full and fusion respects its rankings, for    *)
(* any menu, any rankings and any number of threads and requests.          *)
(***************************************************************************)
EXTENDS MenuSearch, RankingsProofs

\* The entries s are in the order in which their keys stand in u, the keys in the
\* order of their last use; so a key has one entry.
Ordered(s, u) ==
  /\ s \in Seq(Range(s)) /\ u \in Seq(Range(u))
  /\ \A p, q \in 1..Len(u) : u[p] = u[q] => p = q
  /\ \A i \in 1..Len(s) : \E p \in 1..Len(u) : u[p] = s[i].key
  /\ \A i, j \in 1..Len(s) : \A p, q \in 1..Len(u) :
       i < j /\ u[p] = s[i].key /\ u[q] = s[j].key => p < q

\* Every entry carries the expiry of the result that it holds.
Expiry(s) ==
  \A i \in 1..Len(s) : s[i].done \in Nat /\ s[i].expires = s[i].done + TTL

CacheInv == Ordered(store, touched) /\ Expiry(store) /\ Len(store) <= MaxSize

Working == {"lookup", "count", "cosine", "dense", "fuse", "rerank", "load",
            "predict", "insert"}

Counts == [hits : Nat, misses : Nat]

\* What a thread carries to its next step.
JobOK(label, j) ==
  /\ label # "idle" => "done" \in DOMAIN j
  /\ label = "lookup" => j.at \in Nat
  /\ label = "insert" => j.done \in Nat

ThreadsInv ==
  /\ pc \in [Thread -> Working \cup {"idle", "report"}]
  /\ DOMAIN job = Thread /\ DOMAIN answer = Thread
  /\ now \in Nat /\ received \in Nat /\ clears \in Nat
  /\ stats \in Counts /\ counter \in Counts
  /\ \A t \in Thread : JobOK(pc[t], job[t])

SearchInv == CacheInv /\ ThreadsInv /\ ServedFresh /\ CountersAgree
-----------------------------------------------------------------------------
(***************************************************************************)
(* Sequences.                                                              *)
(***************************************************************************)
\* A sequence is one of elements of its range, and the range is all it needs.
LEMMA SeqOverRange ==
  ASSUME NEW S, NEW s \in Seq(S)
  PROVE  s \in Seq(Range(s)) /\ Len(s) \in Nat /\ DOMAIN s = 1..Len(s)
  <1>1. Len(s) \in Nat /\ DOMAIN s = 1..Len(s) /\ s \in [1..Len(s) -> S]
    BY LenProperties
  <1>2. s \in [1..Len(s) -> Range(s)]
    BY <1>1 DEF Range
  <1>3. QED
    BY <1>1, <1>2, SeqDef

\* RemoveAt closes the gap.
LEMMA RemoveAtFacts ==
  ASSUME NEW S, NEW s \in Seq(S), NEW i \in 1..Len(s)
  PROVE  /\ RemoveAt(s, i) \in Seq(S)
         /\ Len(RemoveAt(s, i)) = Len(s) - 1
         /\ \A k \in 1..(Len(s) - 1) :
              RemoveAt(s, i)[k] = IF k < i THEN s[k] ELSE s[k + 1]
  <1> DEFINE a == SubSeq(s, 1, i - 1)
             b == SubSeq(s, i + 1, Len(s))
  <1>1. Len(s) \in Nat /\ \A k \in 1..Len(s) : s[k] \in S
    BY LenProperties, ElementOfSeq
  <1>2. /\ a \in Seq(S) /\ Len(a) = i - 1
        /\ \A k \in 1..(i - 1) : a[k] = s[k]
    <2>1. \A k \in 1..(i - 1) : s[k] \in S
      BY <1>1
    <2>2. /\ a \in Seq(S) /\ Len(a) = IF 1 <= i - 1 THEN (i - 1) - 1 + 1 ELSE 0
          /\ \A k \in 1..((i - 1) - 1 + 1) : a[k] = s[1 + k - 1]
      BY <1>1, <2>1, SubSeqProperties
    <2>3. QED
      BY <1>1, <2>2
  <1>3. /\ b \in Seq(S) /\ Len(b) = Len(s) - i
        /\ \A k \in 1..(Len(s) - i) : b[k] = s[i + k]
    <2>1. \A k \in (i + 1)..Len(s) : s[k] \in S
      BY <1>1
    <2>2. /\ b \in Seq(S)
          /\ Len(b) = IF i + 1 <= Len(s) THEN Len(s) - (i + 1) + 1 ELSE 0
          /\ \A k \in 1..(Len(s) - (i + 1) + 1) : b[k] = s[(i + 1) + k - 1]
      BY <1>1, <2>1, SubSeqProperties
    <2>3. QED
      BY <1>1, <2>2
  <1> HIDE DEF a, b
  <1>4. /\ a \o b \in Seq(S) /\ Len(a \o b) = Len(a) + Len(b)
        /\ \A k \in 1..(Len(a) + Len(b)) :
             (a \o b)[k] = IF k <= Len(a) THEN a[k] ELSE b[k - Len(a)]
    BY <1>2, <1>3, ConcatProperties
  <1>5. ASSUME NEW k \in 1..(Len(s) - 1)
        PROVE  (a \o b)[k] = IF k < i THEN s[k] ELSE s[k + 1]
    <2>1. CASE k < i
      BY <1>1, <1>2, <1>3, <1>4, <2>1
    <2>2. CASE ~(k < i)
      <3> DEFINE d == k - Len(a)
      <3>1. d \in 1..(Len(s) - i) /\ i + d = k + 1
        BY <1>1, <1>2, <2>2
      <3> HIDE DEF d
      <3>2. b[d] = s[k + 1]
        BY <1>3, <3>1
      <3>3. k \in 1..(Len(a) + Len(b)) /\ ~(k <= Len(a)) /\ ~(k < i)
        BY <1>1, <1>2, <1>3, <2>2
      <3>4. (a \o b)[k] = b[d]
        BY <1>4, <3>3 DEF d
      <3>5. QED
        BY <1>1, <3>2, <3>3, <3>4
    <2>3. QED
      BY <2>1, <2>2
  <1>6. RemoveAt(s, i) = a \o b
    BY DEF RemoveAt, a, b
  <1>7. QED
    BY <1>1, <1>2, <1>3, <1>4, <1>5, <1>6

\* The larger of two numbers.
LEMMA LargerOfTwo ==
  ASSUME NEW a \in Int, NEW b \in Int
  PROVE  Max({a, b}) = IF b <= a THEN a ELSE b
  BY DEF Max

\* A selection of the entries, in their order, is ordered.
LEMMA OrderedPart ==
  ASSUME NEW s, NEW u, Ordered(s, u), NEW S, NEW t \in Seq(S),
         NEW g \in [1..Len(t) -> 1..Len(s)],
         \A k \in 1..Len(t) : t[k] = s[g[k]],
         \A k, l \in 1..Len(t) : k < l => g[k] < g[l]
  PROVE  Ordered(t, u)
  <1>1. t \in Seq(Range(t)) /\ Len(t) \in Nat
    BY SeqOverRange
  <1>2. \A k \in 1..Len(t) : g[k] \in 1..Len(s)
    OBVIOUS
  <1>3. ASSUME NEW k \in 1..Len(t)
        PROVE  \E p \in 1..Len(u) : u[p] = t[k].key
    <2>1. t[k].key = s[g[k]].key /\ g[k] \in 1..Len(s)
      BY <1>2
    <2>2. QED
      BY <2>1 DEF Ordered
  <1>4. ASSUME NEW i \in 1..Len(t), NEW j \in 1..Len(t),
               NEW p \in 1..Len(u), NEW q \in 1..Len(u),
               i < j, u[p] = t[i].key, u[q] = t[j].key
        PROVE  p < q
    <2>1. g[i] < g[j] /\ u[p] = s[g[i]].key /\ u[q] = s[g[j]].key
      BY <1>4
    <2>2. QED
      BY <1>2, <2>1 DEF Ordered
  <1>5. QED
    BY <1>1, <1>3, <1>4 DEF Ordered

\* An ordered store stays ordered when one of its entries is removed, as an expired
\* or replaced one is.
LEMMA OrderedDrop ==
  ASSUME NEW s, NEW u, Ordered(s, u), NEW i \in 1..Len(s)
  PROVE  Ordered(RemoveAt(s, i), u)
  <1> DEFINE t == RemoveAt(s, i)
             g == [k \in 1..Len(t) |-> IF k < i THEN k ELSE k + 1]
  <1>1. s \in Seq(Range(s)) /\ Len(s) \in Nat
    BY SeqOverRange DEF Ordered
  <1>2. /\ t \in Seq(Range(s)) /\ Len(t) = Len(s) - 1
        /\ \A k \in 1..Len(t) : t[k] = IF k < i THEN s[k] ELSE s[k + 1]
    BY <1>1, RemoveAtFacts
  <1> HIDE DEF t
  <1>3. g \in [1..Len(t) -> 1..Len(s)]
    BY <1>1, <1>2
  <1>4. \A k \in 1..Len(t) : t[k] = s[g[k]]
    BY <1>1, <1>2
  <1>5. \A k, l \in 1..Len(t) : k < l => g[k] < g[l]
    BY <1>1, <1>2
  <1> HIDE DEF g
  <1>6. Ordered(t, u)
    BY <1>2, <1>3, <1>4, <1>5, OrderedPart, ZenonT(30)
  <1>7. QED
    BY <1>6 DEF t

\* An ordered store stays ordered when its oldest entries leave, as popitem makes them.
LEMMA OrderedTail ==
  ASSUME NEW s, NEW u, Ordered(s, u), NEW m \in Nat, 1 <= m, m <= Len(s) + 1
  PROVE  /\ Ordered(SubSeq(s, m, Len(s)), u)
         /\ Len(SubSeq(s, m, Len(s))) = Len(s) - m + 1
         /\ \A k \in 1..(Len(s) - m + 1) : SubSeq(s, m, Len(s))[k] = s[m + k - 1]
  <1> DEFINE t == SubSeq(s, m, Len(s))
             g == [k \in 1..Len(t) |-> m + k - 1]
  <1>1. s \in Seq(Range(s)) /\ Len(s) \in Nat
    BY SeqOverRange DEF Ordered
  <1>2. \A k \in m..Len(s) : s[k] \in Range(s)
    BY <1>1, ElementOfSeq
  <1>3. /\ t \in Seq(Range(s))
        /\ Len(t) = IF m <= Len(s) THEN Len(s) - m + 1 ELSE 0
        /\ \A k \in 1..(Len(s) - m + 1) : t[k] = s[m + k - 1]
    BY <1>1, <1>2, SubSeqProperties
  <1> HIDE DEF t
  <1>4. Len(t) = Len(s) - m + 1
    BY <1>1, <1>3
  <1>5. g \in [1..Len(t) -> 1..Len(s)]
    BY <1>1, <1>4
  <1>6. \A k \in 1..Len(t) : t[k] = s[g[k]]
    BY <1>3, <1>4
  <1>7. \A k, l \in 1..Len(t) : k < l => g[k] < g[l]
    BY <1>1, <1>4
  <1> HIDE DEF g
  <1>8. Ordered(t, u)
    BY <1>3, <1>5, <1>6, <1>7, OrderedPart, ZenonT(30)
  <1>9. QED
    BY <1>3, <1>4, <1>8 DEF t

\* A key that no entry has may leave the order of use.
LEMMA OrderedForget ==
  ASSUME NEW s, NEW u, Ordered(s, u), NEW n \in 1..Len(u),
         \A i \in 1..Len(s) : s[i].key # u[n]
  PROVE  /\ Ordered(s, RemoveAt(u, n))
         /\ u[n] \notin Range(RemoveAt(u, n))
  <1> DEFINE v == RemoveAt(u, n)
             at(k) == IF k < n THEN k ELSE k + 1
  <1>1. u \in Seq(Range(u)) /\ Len(u) \in Nat
    BY SeqOverRange DEF Ordered
  <1>2. /\ v \in Seq(Range(u)) /\ Len(v) = Len(u) - 1
        /\ \A k \in 1..Len(v) : v[k] = IF k < n THEN u[k] ELSE u[k + 1]
    BY <1>1, RemoveAtFacts
  <1>3. v \in Seq(Range(v)) /\ DOMAIN v = 1..Len(v)
    BY <1>2, SeqOverRange
  <1> HIDE DEF v
  <1>4. \A k \in 1..Len(v) : v[k] = u[at(k)] /\ at(k) \in 1..Len(u) /\ at(k) # n
    BY <1>1, <1>2
  <1>inj. \A k, l \in 1..Len(v) : at(k) = at(l) => k = l
    BY <1>1, <1>2
  <1>mono. \A k, l \in 1..Len(v) : at(k) < at(l) => k < l
    BY <1>1, <1>2
  <1> HIDE DEF at
  <1>5. \A k \in 1..Len(v) : v[k] # u[n]
    BY <1>4 DEF Ordered
  <1>6. \A p, q \in 1..Len(v) : v[p] = v[q] => p = q
    <2> SUFFICES ASSUME NEW p \in 1..Len(v), NEW q \in 1..Len(v), v[p] = v[q]
                 PROVE  p = q
      OBVIOUS
    <2>1. at(p) = at(q)
      BY <1>4, SMTT(30) DEF Ordered
    <2>2. QED
      BY <1>inj, <2>1
  <1>7. ASSUME NEW i \in 1..Len(s)
        PROVE  \E p \in 1..Len(v) : v[p] = s[i].key
    <2>1. PICK p \in 1..Len(u) : u[p] = s[i].key
      BY DEF Ordered
    <2>2. p # n
      BY <2>1
    <2>3. CASE p < n
      <3>1. p \in 1..Len(v) /\ v[p] = u[p]
        BY <1>1, <1>2, <2>3
      <3>2. QED
        BY <2>1, <3>1
    <2>4. CASE p > n
      <3>1. p - 1 \in 1..Len(v) /\ ~(p - 1 < n) /\ (p - 1) + 1 = p
        BY <1>1, <1>2, <2>4
      <3>2. v[p - 1] = u[p]
        BY <1>2, <3>1
      <3>3. QED
        BY <2>1, <3>1, <3>2
    <2>5. QED
      BY <1>1, <2>2, <2>3, <2>4
  <1>8. ASSUME NEW i \in 1..Len(s), NEW j \in 1..Len(s),
               NEW p \in 1..Len(v), NEW q \in 1..Len(v),
               i < j, v[p] = s[i].key, v[q] = s[j].key
        PROVE  p < q
    <2>1. at(p) < at(q)
      BY <1>4, <1>8 DEF Ordered
    <2>2. QED
      BY <1>mono, <2>1
  <1>9. Ordered(s, v)
    BY <1>3, <1>6, <1>7, <1>8 DEF Ordered
  <1>10. u[n] \notin Range(v)
    BY <1>3, <1>5 DEF Range
  <1>11. QED
    BY <1>9, <1>10 DEF v

\* A new key and its entry go to the end of both.
LEMMA OrderedAdd ==
  ASSUME NEW s, NEW u, Ordered(s, u), NEW e, e.key \notin Range(u)
  PROVE  Ordered(Append(s, e), Append(u, e.key))
  <1> DEFINE t == Append(s, e)
             v == Append(u, e.key)
  <1>1. /\ s \in Seq(Range(s)) /\ Len(s) \in Nat
        /\ u \in Seq(Range(u)) /\ Len(u) \in Nat /\ DOMAIN u = 1..Len(u)
    BY SeqOverRange DEF Ordered
  <1>2. s \in Seq(Range(s) \cup {e}) /\ u \in Seq(Range(u) \cup {e.key})
    BY <1>1, SeqMonotonic
  <1>3. /\ t \in Seq(Range(s) \cup {e}) /\ Len(t) = Len(s) + 1
        /\ \A i \in 1..Len(s) : t[i] = s[i]
        /\ t[Len(s) + 1] = e
    BY <1>2, AppendProperties
  <1>4. /\ v \in Seq(Range(u) \cup {e.key}) /\ Len(v) = Len(u) + 1
        /\ \A i \in 1..Len(u) : v[i] = u[i]
        /\ v[Len(u) + 1] = e.key
    BY <1>2, AppendProperties
  <1>5. t \in Seq(Range(t)) /\ v \in Seq(Range(v))
    BY <1>3, <1>4, SeqOverRange
  <1> HIDE DEF t, v
  <1>6. \A p \in 1..Len(u) : u[p] # e.key
    BY <1>1 DEF Range
  <1>7. \A p, q \in 1..Len(v) : v[p] = v[q] => p = q
    <2> SUFFICES ASSUME NEW p \in 1..Len(v), NEW q \in 1..Len(v), v[p] = v[q]
                 PROVE  p = q
      OBVIOUS
    <2>1. /\ p \in 1..Len(u) \/ p = Len(u) + 1
          /\ q \in 1..Len(u) \/ q = Len(u) + 1
      BY <1>1, <1>4
    <2>2. QED
      BY <1>4, <1>6, <2>1 DEF Ordered
  <1>8. ASSUME NEW i \in 1..Len(t)
        PROVE  \E p \in 1..Len(v) : v[p] = t[i].key
    <2>1. CASE i \in 1..Len(s)
      <3>1. PICK p \in 1..Len(u) : u[p] = s[i].key
        BY <2>1 DEF Ordered
      <3>2. p \in 1..Len(v) /\ v[p] = t[i].key
        BY <1>1, <1>3, <1>4, <2>1, <3>1
      <3>3. QED
        BY <3>2
    <2>2. CASE i = Len(s) + 1
      <3>1. Len(u) + 1 \in 1..Len(v) /\ v[Len(u) + 1] = t[i].key
        BY <1>1, <1>3, <1>4, <2>2
      <3>2. QED
        BY <3>1
    <2>3. QED
      BY <1>1, <1>3, <2>1, <2>2
  <1>9. ASSUME NEW i \in 1..Len(t), NEW j \in 1..Len(t),
               NEW p \in 1..Len(v), NEW q \in 1..Len(v),
               i < j, v[p] = t[i].key, v[q] = t[j].key
        PROVE  p < q
    <2>1. i \in 1..Len(s) /\ t[i] = s[i]
      BY <1>1, <1>3, <1>9
    <2>2. PICK n \in 1..Len(u) : u[n] = s[i].key
      BY <2>1 DEF Ordered
    <2>3. n \in 1..Len(v) /\ v[n] = v[p]
      BY <1>1, <1>4, <1>9, <2>1, <2>2
    <2>4. p = n
      BY <1>7, <2>3
    <2>5. CASE j = Len(s) + 1
      <3>1. Len(u) + 1 \in 1..Len(v) /\ v[q] = v[Len(u) + 1]
        BY <1>1, <1>3, <1>4, <1>9, <2>5
      <3>2. q = Len(u) + 1
        BY <1>7, <3>1
      <3>3. QED
        BY <1>1, <2>4, <3>2
    <2>6. CASE j \in 1..Len(s)
      <3>1. PICK m \in 1..Len(u) : u[m] = s[j].key
        BY <2>6 DEF Ordered
      <3>2. m \in 1..Len(v) /\ v[m] = v[q]
        BY <1>1, <1>3, <1>4, <1>9, <2>6, <3>1
      <3>3. q = m
        BY <1>7, <3>2
      <3>4. n < m
        BY <1>9, <2>1, <2>2, <2>6, <3>1 DEF Ordered
      <3>5. QED
        BY <2>4, <3>3, <3>4
    <2>7. QED
      BY <1>1, <1>3, <2>5, <2>6
  <1>10. Ordered(t, v)
    BY <1>5, <1>7, <1>8, <1>9 DEF Ordered
  <1>11. QED
    BY <1>10 DEF t, v

\* Two entries in the order of use have different keys.
LEMMA OrderedKeys ==
  ASSUME NEW s, NEW u, Ordered(s, u)
  PROVE  \A i, j \in 1..Len(s) : s[i].key = s[j].key => i = j
  <1> SUFFICES ASSUME NEW i \in 1..Len(s), NEW j \in 1..Len(s),
                      s[i].key = s[j].key, i # j
               PROVE  FALSE
    OBVIOUS
  <1>1. Len(s) \in Nat /\ Len(u) \in Nat
    BY SeqOverRange DEF Ordered
  <1>2. PICK p \in 1..Len(u) : u[p] = s[i].key
    BY DEF Ordered
  <1>3. CASE i < j
    BY <1>1, <1>2, <1>3 DEF Ordered
  <1>4. CASE j < i
    BY <1>1, <1>2, <1>4 DEF Ordered
  <1>5. QED
    BY <1>1, <1>3, <1>4
-----------------------------------------------------------------------------
(***************************************************************************)
(* The critical sections of the cache.                                     *)
(***************************************************************************)
\* Where an entry is, and the cache without it.
LEMMA WithoutFacts ==
  ASSUME CacheInv, NEW key
  PROVE  /\ Has(key) => /\ Slot(key) \in 1..Len(store)
                        /\ store[Slot(key)].key = key
         /\ Ordered(Without(key), touched) /\ Expiry(Without(key))
         /\ \A i \in 1..Len(Without(key)) : Without(key)[i].key # key
         /\ Len(Without(key)) <= Len(store) /\ Len(Without(key)) \in Nat
  <1> DEFINE n == Slot(key)
  <1>1. /\ Len(store) \in Nat /\ DOMAIN store = 1..Len(store)
        /\ store \in Seq(Range(store)) /\ Ordered(store, touched)
    BY SeqOverRange DEF CacheInv, Ordered
  <1>2. CASE ~Has(key)
    <2>1. Without(key) = store
      BY <1>2 DEF Without
    <2>2. \A i \in 1..Len(store) : store[i].key # key
      BY <1>1, <1>2 DEF Has
    <2>3. QED
      BY <1>1, <1>2, <2>1, <2>2 DEF CacheInv
  <1>3. CASE Has(key)
    <2>1. n \in 1..Len(store) /\ store[n].key = key
      BY <1>1, <1>3 DEF Has, Slot
    <2> DEFINE w == RemoveAt(store, n)
    <2>2. Without(key) = w
      BY <1>3 DEF Without
    <2> HIDE DEF n
    <2>3. /\ Len(w) = Len(store) - 1
          /\ \A k \in 1..(Len(store) - 1) :
               w[k] = IF k < n THEN store[k] ELSE store[k + 1]
      BY <1>1, <2>1, RemoveAtFacts
    <2>4. Ordered(w, touched)
      BY <1>1, <2>1, OrderedDrop
    <2> HIDE DEF w
    <2>5. ASSUME NEW k \in 1..Len(w)
          PROVE  \E j \in 1..Len(store) : j # n /\ w[k] = store[j]
      <3>1. CASE k < n
        BY <1>1, <2>1, <2>3, <3>1
      <3>2. CASE ~(k < n)
        BY <1>1, <2>1, <2>3, <3>2
      <3>3. QED
        BY <3>1, <3>2
    <2>6. Expiry(w)
      BY <2>5 DEF CacheInv, Expiry
    <2>7. \A k \in 1..Len(w) : w[k].key # key
      BY <1>1, <2>1, <2>5, OrderedKeys
    <2>8. Len(w) <= Len(store) /\ Len(w) \in Nat
      BY <1>1, <2>1, <2>3
    <2>9. QED
      BY <2>1, <2>2, <2>4, <2>6, <2>7, <2>8 DEF n
  <1>4. QED
    BY <1>2, <1>3

\* An entry that is used, new or not, goes to the end and its key with it.
LEMMA TouchOrdered ==
  ASSUME NEW s, Ordered(s, touched), NEW e, NEW key, e.key = key,
         \A i \in 1..Len(s) : s[i].key # key, Touch(key)
  PROVE  Ordered(Append(s, e), touched')
  <1>1. DOMAIN touched = 1..Len(touched)
    BY SeqOverRange DEF Ordered
  <1>2. CASE key \notin Range(touched)
    <2>1. touched' = Append(touched, key)
      BY <1>2 DEF Touch
    <2>2. QED
      BY <1>2, <2>1, OrderedAdd
  <1>3. CASE key \in Range(touched)
    <2> DEFINE n == Position(touched, key)
               u == RemoveAt(touched, n)
    <2>1. n \in 1..Len(touched) /\ touched[n] = key
      BY <1>1, <1>3 DEF Position, Range
    <2>2. touched' = Append(u, key)
      BY <1>3 DEF Touch
    <2> HIDE DEF n
    <2>3. Ordered(s, u) /\ key \notin Range(u)
      BY <2>1, OrderedForget
    <2> HIDE DEF u
    <2>4. QED
      BY <2>2, <2>3, OrderedAdd
  <1>4. QED
    BY <1>2, <1>3

\* An appended entry is the last one.
LEMMA AppendExpiry ==
  ASSUME NEW s, NEW u, Ordered(s, u), Expiry(s), NEW e,
         e.done \in Nat, e.expires = e.done + TTL
  PROVE  Expiry(Append(s, e)) /\ Len(Append(s, e)) = Len(s) + 1
  <1> DEFINE t == Append(s, e)
  <1>1. s \in Seq(Range(s)) /\ Len(s) \in Nat
    BY SeqOverRange DEF Ordered
  <1>2. s \in Seq(Range(s) \cup {e})
    BY <1>1, SeqMonotonic
  <1>3. /\ Len(t) = Len(s) + 1 /\ t[Len(s) + 1] = e
        /\ \A i \in 1..Len(s) : t[i] = s[i]
    BY <1>2, AppendProperties
  <1> HIDE DEF t
  <1>4. ASSUME NEW i \in 1..Len(t)
        PROVE  t[i].done \in Nat /\ t[i].expires = t[i].done + TTL
    <2>1. CASE i \in 1..Len(s)
      BY <1>3, <2>1 DEF Expiry
    <2>2. CASE i = Len(s) + 1
      BY <1>3, <2>2
    <2>3. QED
      BY <1>1, <1>3, <2>1, <2>2
  <1>5. QED
    BY <1>3, <1>4 DEF Expiry, t

\* A hit moves its entry.
LEMMA HitCache ==
  ASSUME CacheInv, NEW key, NEW at, Hit(key, at)
  PROVE  CacheInv'
  <1> DEFINE e == Entry(key)
  <1>1. Has(key) /\ store' = Append(Without(key), e) /\ Touch(key)
    BY DEF Hit
  <1>2. /\ Slot(key) \in 1..Len(store) /\ store[Slot(key)].key = key
        /\ Ordered(Without(key), touched) /\ Expiry(Without(key))
        /\ \A i \in 1..Len(Without(key)) : Without(key)[i].key # key
    BY <1>1, WithoutFacts
  <1>3. e.key = key /\ e.done \in Nat /\ e.expires = e.done + TTL
    BY <1>2 DEF Entry, CacheInv, Expiry
  <1>4. Len(Without(key)) = Len(store) - 1 /\ Len(store) \in Nat
    <2>1. store \in Seq(Range(store)) /\ Len(store) \in Nat
      BY SeqOverRange DEF CacheInv, Ordered
    <2>2. QED
      BY <1>1, <1>2, <2>1, RemoveAtFacts DEF Without
  <1> HIDE DEF e
  <1>5. Ordered(store', touched')
    BY <1>1, <1>2, <1>3, TouchOrdered
  <1>6. Expiry(store') /\ Len(store') = Len(Without(key)) + 1
    BY <1>1, <1>2, <1>3, AppendExpiry
  <1>7. Len(store') <= MaxSize
    BY <1>4, <1>6 DEF CacheInv
  <1>8. QED
    BY <1>5, <1>6, <1>7 DEF CacheInv, Expiry

\* An entry that has expired is dropped.
LEMMA MissCache ==
  ASSUME CacheInv, NEW key, NEW at, Miss(key, at)
  PROVE  CacheInv'
  <1>1. store' = Without(key) /\ touched' = touched
    BY DEF Miss
  <1>2. /\ Ordered(Without(key), touched) /\ Expiry(Without(key))
        /\ Len(Without(key)) <= Len(store) /\ Len(Without(key)) \in Nat
    BY WithoutFacts
  <1>3. Len(store) \in Nat /\ MaxSize \in Nat
    BY SeqOverRange, CacheAssumption DEF CacheInv, Ordered
  <1>4. Len(Without(key)) <= MaxSize
    BY <1>2, <1>3 DEF CacheInv
  <1>5. QED
    BY <1>1, <1>2, <1>4 DEF CacheInv, Expiry

\* The new entry is at the end, and the oldest one makes room for it.
LEMMA InsertCache ==
  ASSUME CacheInv, NEW key, NEW value, NEW done \in Nat, Insert(key, value, done)
  PROVE  CacheInv'
  <1> DEFINE e   == [key |-> key, value |-> value, done |-> done,
                     expires |-> done + TTL]
             all == Append(Without(key), e)
             m   == Max({1, Len(all) - MaxSize + 1})
  <1>1. store' = SubSeq(all, m, Len(all)) /\ Touch(key)
    BY DEF Insert
  <1>2. e.key = key /\ e.done \in Nat /\ e.expires = e.done + TTL
    OBVIOUS
  <1> HIDE DEF e
  <1>3. /\ Ordered(Without(key), touched) /\ Expiry(Without(key))
        /\ \A i \in 1..Len(Without(key)) : Without(key)[i].key # key
        /\ Len(Without(key)) \in Nat
    BY WithoutFacts
  <1>4. Ordered(all, touched')
    BY <1>1, <1>2, <1>3, TouchOrdered
  <1>5. Expiry(all) /\ Len(all) \in Nat
    BY <1>2, <1>3, AppendExpiry
  <1> HIDE DEF all
  <1>6. m \in Nat /\ 1 <= m /\ m <= Len(all) + 1 /\ Len(all) - m + 1 <= MaxSize
    <2>1. MaxSize \in Nat \ {0}
      BY CacheAssumption
    <2> DEFINE low == Len(all) - MaxSize + 1
    <2>2. low \in Int /\ low <= Len(all)
      BY <1>5, <2>1
    <2> HIDE DEF low
    <2>3. m = IF low <= 1 THEN 1 ELSE low
      BY <2>2, LargerOfTwo DEF low
    <2>4. QED
      BY <1>5, <2>1, <2>2, <2>3 DEF low
  <1> HIDE DEF m
  <1>7. /\ Ordered(store', touched') /\ Len(store') = Len(all) - m + 1
        /\ \A k \in 1..(Len(all) - m + 1) : store'[k] = all[m + k - 1]
    BY <1>1, <1>4, <1>6, OrderedTail
  <1>8. ASSUME NEW k \in 1..Len(store')
        PROVE  store'[k].done \in Nat /\ store'[k].expires = store'[k].done + TTL
    <2>1. m + k - 1 \in 1..Len(all)
      BY <1>5, <1>6, <1>7
    <2>2. QED
      BY <1>5, <1>7, <2>1 DEF Expiry
  <1>9. QED
    BY <1>6, <1>7, <1>8 DEF CacheInv, Expiry
-----------------------------------------------------------------------------
(***************************************************************************)
(* Fusing two rankings.                                                    *)
(***************************************************************************)
Frac == [n : Nat, d : Nat \ {0}]

\* A ranking has no food twice.
Ranking(r) == Lists(r, Range(r))

\* Comparing fractions by their cross products: a strict weak order.
LEMMA LessOrder ==
  ASSUME NEW p \in Frac, NEW q \in Frac, NEW r \in Frac
  PROVE  /\ ~Less(p, p)
         /\ ~(Less(p, q) /\ Less(q, p))
         /\ ~Less(p, q) /\ ~Less(q, r) => ~Less(p, r)
         /\ Less(q, p) /\ ~Less(q, r) => Less(r, p)
         /\ ~Less(p, q) /\ Less(r, q) => Less(r, p)
<1>1. PICK pn, qn, rn \in Nat : pn = p.n /\ qn = q.n /\ rn = r.n
  BY DEF Frac
<1>2. PICK pd, qd, rd \in Nat \ {0} : pd = p.d /\ qd = q.d /\ rd = r.d
  BY DEF Frac
<1>3. /\ Less(p, p) <=> pn * pd < pn * pd
      /\ Less(p, q) <=> pn * qd < qn * pd
      /\ Less(q, p) <=> qn * pd < pn * qd
      /\ Less(q, r) <=> qn * rd < rn * qd
      /\ Less(r, q) <=> rn * qd < qn * rd
      /\ Less(p, r) <=> pn * rd < rn * pd
      /\ Less(r, p) <=> rn * pd < pn * rd
  BY <1>1, <1>2 DEF Less
<1>4. ~(pn * pd < pn * pd) /\ ~(pn * qd < qn * pd /\ qn * pd < pn * qd)
  OBVIOUS
<1>5. ~(pn * qd < qn * pd) /\ ~(qn * rd < rn * qd) => ~(pn * rd < rn * pd)
  OBVIOUS
<1>6. qn * pd < pn * qd /\ ~(qn * rd < rn * qd) => rn * pd < pn * rd
  OBVIOUS
<1>7. ~(pn * qd < qn * pd) /\ rn * qd < qn * rd => rn * pd < pn * rd
  OBVIOUS
<1> QED
  BY <1>3, <1>4, <1>5, <1>6, <1>7

\* The sums of larger fractions are larger.
LEMMA PlusGrows ==
  ASSUME NEW a \in Frac, NEW b \in Frac, NEW c \in Frac, NEW e \in Frac
  PROVE  /\ Plus(a, c) \in Frac
         /\ Less(b, a) /\ Less(e, c) => Less(Plus(b, e), Plus(a, c))
<1>1. PICK an, bn, cn, en \in Nat : an = a.n /\ bn = b.n /\ cn = c.n /\ en = e.n
  BY DEF Frac
<1>2. PICK ad, bd, cd, ed \in Nat \ {0} : ad = a.d /\ bd = b.d /\ cd = c.d /\ ed = e.d
  BY DEF Frac
<1>3. /\ Plus(a, c) = [n |-> an * cd + cn * ad, d |-> ad * cd]
      /\ Plus(b, e) = [n |-> bn * ed + en * bd, d |-> bd * ed]
  BY <1>1, <1>2 DEF Plus
<1>4. an * cd + cn * ad \in Nat /\ ad * cd \in Nat \ {0}
  OBVIOUS
<1>5. Plus(a, c) \in Frac
  BY <1>3, <1>4 DEF Frac
<1>6. ASSUME bn * ad < an * bd, en * cd < cn * ed
      PROVE  (bn * ed + en * bd) * (ad * cd) < (an * cd + cn * ad) * (bd * ed)
  BY <1>6
<1>7. /\ Less(b, a) <=> bn * ad < an * bd
      /\ Less(e, c) <=> en * cd < cn * ed
      /\ Less(Plus(b, e), Plus(a, c))
           <=> (bn * ed + en * bd) * (ad * cd) < (an * cd + cn * ad) * (bd * ed)
  BY <1>1, <1>2, <1>3 DEF Less
<1> QED
  BY <1>5, <1>6, <1>7

\* Where a food is in a ranking.
LEMMA PositionFacts ==
  ASSUME NEW r, Ranking(r), NEW f \in Range(r)
  PROVE  /\ Position(r, f) \in 1..Len(r) /\ r[Position(r, f)] = f
         /\ Position(r, f) \in Nat \ {0} /\ DOMAIN r = 1..Len(r) /\ Len(r) \in Nat
         /\ \A i \in DOMAIN r : r[i] = f => i = Position(r, f)
<1>1. r \in Seq(Range(r)) /\ IsInjective(r)
  BY DEF Ranking, Lists
<1>2. Len(r) \in Nat /\ DOMAIN r = 1..Len(r)
  BY <1>1
<1>3. \E i \in DOMAIN r : r[i] = f
  BY DEF Range
<1>4. Position(r, f) \in DOMAIN r /\ r[Position(r, f)] = f
  BY <1>3 DEF Position
<1>5. Position(r, f) \in Nat \ {0}
  BY <1>2, <1>4
<1> QED
  BY <1>1, <1>2, <1>4, <1>5 DEF IsInjective

\* A better place in a ranking is a larger score, and any place is better than none.
LEMMA ScoreFacts ==
  ASSUME NEW r, Ranking(r)
  PROVE  /\ \A f : ScoreIn(r, f) \in Frac
         /\ \A f, g : /\ f \in Range(r)
                      /\ g \in Range(r) => Position(r, f) < Position(r, g)
                      => Less(ScoreIn(r, g), ScoreIn(r, f))
<1>1. K \in Nat
  BY SearchAssumption
<1>2. ASSUME NEW f \in Range(r)
      PROVE  K + Position(r, f) \in Nat \ {0}
  BY <1>1, PositionFacts
<1>3. ASSUME NEW f PROVE ScoreIn(r, f) \in Frac
  <2>1. CASE f \in Range(r)
    BY <1>2, <2>1 DEF ScoreIn, Frac
  <2>2. CASE f \notin Range(r)
    BY <2>2 DEF ScoreIn, Frac
  <2> QED
    BY <2>1, <2>2
<1>4. ASSUME NEW f \in Range(r), NEW g,
             g \in Range(r) => Position(r, f) < Position(r, g)
      PROVE  Less(ScoreIn(r, g), ScoreIn(r, f))
  <2>1. PICK x \in Nat \ {0} : x = K + Position(r, f) /\ ScoreIn(r, f) = [n |-> 1, d |-> x]
    BY <1>2 DEF ScoreIn
  <2>2. CASE g \in Range(r)
    <3>1. PICK y \in Nat \ {0} :
            y = K + Position(r, g) /\ ScoreIn(r, g) = [n |-> 1, d |-> y]
      BY <1>2, <2>2 DEF ScoreIn
    <3>2. Position(r, f) \in Nat /\ Position(r, g) \in Nat
      BY <2>2, PositionFacts
    <3>3. x < y
      BY <1>1, <1>4, <2>1, <2>2, <3>1, <3>2
    <3>4. 1 * x < 1 * y
      BY <3>3
    <3> QED
      BY <2>1, <3>1, <3>4 DEF Less
  <2>3. CASE g \notin Range(r)
    <3>1. ScoreIn(r, g) = [n |-> 0, d |-> 1]
      BY <2>3 DEF ScoreIn
    <3>2. 0 * x < 1 * 1
      OBVIOUS
    <3> QED
      BY <2>1, <3>1, <3>2 DEF Less
  <2> QED
    BY <2>2, <2>3
<1> QED
  BY <1>3, <1>4

\* What the order of the fused ranking says of two foods.
LEMMA FusedBeforeFacts ==
  ASSUME NEW first, NEW second, NEW f \in Met(first, second), NEW g \in Met(first, second)
  PROVE  <<f, g>> \in FusedBefore(first, second) <=>
           \/ Less(Total(first, second, g), Total(first, second, f))
           \/ /\ ~Less(Total(first, second, f), Total(first, second, g))
              /\ MetBefore(first, second, f, g)
  BY DEF FusedBefore

\* Foods are met in a strict order.
LEMMA MetOrder ==
  ASSUME NEW first, NEW second, Ranking(first), Ranking(second),
         NEW f \in Met(first, second), NEW g \in Met(first, second),
         NEW h \in Met(first, second)
  PROVE  /\ ~MetBefore(first, second, f, f)
         /\ f # g => MetBefore(first, second, f, g) \/ MetBefore(first, second, g, f)
         /\ MetBefore(first, second, f, g) /\ MetBefore(first, second, g, h)
              => MetBefore(first, second, f, h)
<1>1. ASSUME NEW x \in Range(first)
      PROVE  Position(first, x) \in Nat /\ first[Position(first, x)] = x
  BY PositionFacts
<1>2. ASSUME NEW x \in Range(second)
      PROVE  Position(second, x) \in Nat /\ second[Position(second, x)] = x
  BY PositionFacts
<1>3. \A x \in Met(first, second) : x \notin Range(first) => x \in Range(second)
  BY DEF Met
<1>4. ~MetBefore(first, second, f, f)
  <2>1. CASE f \in Range(first)
    BY <1>1, <2>1 DEF MetBefore
  <2>2. CASE f \notin Range(first)
    BY <1>2, <1>3, <2>2 DEF MetBefore
  <2> QED
    BY <2>1, <2>2
<1>5. ASSUME f # g
      PROVE  MetBefore(first, second, f, g) \/ MetBefore(first, second, g, f)
  <2>1. CASE f \in Range(first) /\ g \in Range(first)
    <3>1. Position(first, f) # Position(first, g)
      BY <1>1, <1>5, <2>1
    <3> QED
      BY <1>1, <2>1, <3>1 DEF MetBefore
  <2>2. CASE f \notin Range(first) /\ g \notin Range(first)
    <3>1. Position(second, f) # Position(second, g)
      BY <1>2, <1>3, <1>5, <2>2
    <3> QED
      BY <1>2, <1>3, <2>2, <3>1 DEF MetBefore
  <2>3. CASE ~(f \in Range(first) <=> g \in Range(first))
    BY <2>3 DEF MetBefore
  <2> QED
    BY <2>1, <2>2, <2>3
<1>6. ASSUME MetBefore(first, second, f, g), MetBefore(first, second, g, h)
      PROVE  MetBefore(first, second, f, h)
  <2>1. CASE f \in Range(first) /\ h \in Range(first)
    <3>1. g \in Range(first)
      BY <1>6, <2>1 DEF MetBefore
    <3> QED
      BY <1>1, <1>6, <2>1, <3>1 DEF MetBefore
  <2>2. CASE f \in Range(first) /\ h \notin Range(first)
    BY <2>2 DEF MetBefore
  <2>3. CASE f \notin Range(first)
    <3>1. g \notin Range(first) /\ h \notin Range(first)
      BY <1>6, <2>3 DEF MetBefore
    <3> QED
      BY <1>2, <1>3, <1>6, <2>3, <3>1 DEF MetBefore
  <2> QED
    BY <2>1, <2>2, <2>3
<1> QED
  BY <1>4, <1>5, <1>6

\* The sums and the order in which foods are met rank them in a strict order.
LEMMA FusedOrder ==
  ASSUME NEW first, NEW second, Ranking(first), Ranking(second)
  PROVE  /\ StrictOrder(FusedBefore(first, second), Met(first, second))
         /\ IsFiniteSet(Met(first, second))
         /\ \A f : Total(first, second, f) \in Frac
<1>1. PICK M : M = Met(first, second)
  OBVIOUS
<1>2. ASSUME NEW f PROVE Total(first, second, f) \in Frac
  BY ScoreFacts, PlusGrows DEF Total
<1>3. ASSUME NEW f \in M PROVE <<f, f>> \notin FusedBefore(first, second)
  BY <1>1, <1>2, FusedBeforeFacts, LessOrder, MetOrder
<1>4. ASSUME NEW f \in M, NEW g \in M, f # g
      PROVE  <<f, g>> \in FusedBefore(first, second) \/ <<g, f>> \in FusedBefore(first, second)
  BY <1>1, <1>4, FusedBeforeFacts, MetOrder
<1>5. ASSUME NEW f \in M, NEW g \in M, NEW h \in M,
             <<f, g>> \in FusedBefore(first, second),
             <<g, h>> \in FusedBefore(first, second)
      PROVE  <<f, h>> \in FusedBefore(first, second)
  <2>1. PICK a, b, c \in Frac : /\ a = Total(first, second, f)
                                /\ b = Total(first, second, g)
                                /\ c = Total(first, second, h)
    BY <1>2
  <2>2. /\ Less(b, a) \/ (~Less(a, b) /\ MetBefore(first, second, f, g))
        /\ Less(c, b) \/ (~Less(b, c) /\ MetBefore(first, second, g, h))
    BY <1>1, <1>5, <2>1, FusedBeforeFacts
  <2>3. ~Less(a, b) /\ ~Less(b, c)
    BY <2>2, LessOrder
  <2>4. ~Less(a, c)
    BY <2>3, LessOrder
  <2>5. CASE Less(b, a)
    <3>1. Less(c, a)
      BY <2>3, <2>5, LessOrder
    <3> QED
      BY <1>1, <2>1, <3>1, FusedBeforeFacts
  <2>6. CASE Less(c, b)
    <3>1. Less(c, a)
      BY <2>3, <2>6, LessOrder
    <3> QED
      BY <1>1, <2>1, <3>1, FusedBeforeFacts
  <2>7. CASE MetBefore(first, second, f, g) /\ MetBefore(first, second, g, h)
    <3>1. MetBefore(first, second, f, h)
      BY <1>1, <2>7, MetOrder
    <3> QED
      BY <1>1, <2>1, <2>4, <3>1, FusedBeforeFacts
  <2> QED
    BY <2>2, <2>5, <2>6, <2>7
<1>6. StrictOrder(FusedBefore(first, second), M)
  BY <1>3, <1>4, <1>5 DEF StrictOrder
<1>7. IsFiniteSet(Range(first)) /\ IsFiniteSet(Range(second))
  BY ListsFacts DEF Ranking
<1>8. IsFiniteSet(M)
  BY <1>1, <1>7, FS_Union DEF Met
<1> QED
  BY <1>1, <1>2, <1>6, <1>8

\* The fused ranking has each food of the two once, in that order.
LEMMA FuseFacts ==
  ASSUME NEW first, NEW second, Ranking(first), Ranking(second)
  PROVE  /\ Range(Fuse(first, second)) = Met(first, second)
         /\ Ranking(Fuse(first, second))
         /\ \A f, g \in Met(first, second) :
              Position(Fuse(first, second), f) < Position(Fuse(first, second), g)
                <=> <<f, g>> \in FusedBefore(first, second)
<1>1. PICK M, before, fused : /\ M = Met(first, second)
                              /\ before = FusedBefore(first, second)
                              /\ fused = Fuse(first, second)
  OBVIOUS
<1>2. StrictOrder(before, M) /\ IsFiniteSet(M) /\ fused = Sorted(M, before)
  BY <1>1, FusedOrder DEF Fuse
<1>3. Lists(fused, M)
  BY <1>2, SortedLists
<1>4. Range(fused) = M /\ Ranking(fused)
  BY <1>3 DEF Lists, Ranking
<1>5. ASSUME NEW f \in M, NEW g \in M
      PROVE  Position(fused, f) < Position(fused, g) <=> <<f, g>> \in before
  <2>1. /\ Position(fused, f) \in 1..Len(fused) /\ fused[Position(fused, f)] = f
        /\ Position(fused, g) \in 1..Len(fused) /\ fused[Position(fused, g)] = g
    BY <1>4, PositionFacts
  <2>2. Len(fused) = Cardinality(M)
    BY <1>3, ListsFacts
  <2>3. \A i, j \in 1..Cardinality(M) : i < j <=> <<fused[i], fused[j]>> \in before
    BY <1>2, SortedFacts
  <2> QED
    BY <2>1, <2>2, <2>3
<1> QED
  BY <1>1, <1>4, <1>5

\* A food that both rankings put before another is before it when they are fused.
LEMMA BothBefore ==
  ASSUME NEW first, NEW second, Ranking(first), Ranking(second),
         NEW f \in Range(first), f \in Range(second), NEW g \in Met(first, second),
         g \in Range(first) => Position(first, f) < Position(first, g),
         g \in Range(second) => Position(second, f) < Position(second, g)
  PROVE  Position(Fuse(first, second), f) < Position(Fuse(first, second), g)
<1>1. /\ Less(ScoreIn(first, g), ScoreIn(first, f))
      /\ Less(ScoreIn(second, g), ScoreIn(second, f))
      /\ ScoreIn(first, f) \in Frac /\ ScoreIn(first, g) \in Frac
      /\ ScoreIn(second, f) \in Frac /\ ScoreIn(second, g) \in Frac
  BY ScoreFacts
<1>2. Less(Total(first, second, g), Total(first, second, f))
  BY <1>1, PlusGrows DEF Total
<1>3. f \in Met(first, second)
  BY DEF Met
<1> QED
  BY <1>2, <1>3, FusedBeforeFacts, FuseFacts

\* A food that only the second ranking has passes one of the first ranking only
\* from a better place.
LEMMA ForeignBefore ==
  ASSUME NEW first, NEW second, Ranking(first), Ranking(second),
         NEW b \in Range(first), NEW g \in Range(second), g \notin Range(first),
         <<g, b>> \in FusedBefore(first, second)
  PROVE  Position(second, g) < Position(first, b)
<1>1. K \in Nat /\ Position(second, g) \in Nat \ {0} /\ Position(first, b) \in Nat \ {0}
  BY SearchAssumption, PositionFacts
<1>2. PICK x, y \in Nat \ {0} : x = K + Position(first, b) /\ y = K + Position(second, g)
  BY <1>1
<1>3. PICK c \in Frac : c = ScoreIn(second, b)
  BY ScoreFacts
<1>4. PICK cn \in Nat : cn = c.n
  BY DEF Frac
<1>5. PICK cd \in Nat \ {0} : cd = c.d
  BY DEF Frac
<1>6. Total(first, second, b) = [n |-> 1 * cd + cn * x, d |-> x * cd]
  BY <1>2, <1>3, <1>4, <1>5 DEF Total, Plus, ScoreIn
<1>7. Total(first, second, g) = [n |-> 0 * y + 1 * 1, d |-> 1 * y]
  BY <1>2 DEF Total, Plus, ScoreIn
<1>8. ~MetBefore(first, second, g, b)
  BY DEF MetBefore
<1>9. Less(Total(first, second, b), Total(first, second, g))
  BY <1>8, FusedBeforeFacts DEF Met
<1>10. (1 * cd + cn * x) * (1 * y) < (0 * y + 1 * 1) * (x * cd)
  BY <1>6, <1>7, <1>9 DEF Less
<1>11. cd * y <= (1 * cd + cn * x) * (1 * y)
  <2>1. cn * x * y \in Nat
    OBVIOUS
  <2>2. (1 * cd + cn * x) * (1 * y) = cd * y + cn * x * y
    OBVIOUS
  <2> QED
    BY <2>1, <2>2
<1>12. cd * y < cd * x
  BY <1>10, <1>11
<1>13. y < x
  BY <1>12
<1> QED
  BY <1>1, <1>2, <1>13

\* The best 2m - 1 candidates of a fused ranking have m known foods, if the first
\* ranking has as many: the foreign foods cannot take their places.
LEMMA EnoughKnown ==
  ASSUME NEW first, NEW second, Ranking(first), Ranking(second),
         Range(first) \subseteq Food, NEW m \in Nat, m <= Len(first),
         NEW size \in Nat, 2 * m - 1 <= size
  PROVE  Cardinality(Range(Top(Fuse(first, second), size)) \cap Food) >= m
<1>1. PICK fused : fused = Fuse(first, second)
  OBVIOUS
<1>2. /\ Ranking(fused) /\ Range(fused) = Met(first, second)
      /\ fused \in Seq(Range(fused)) /\ IsInjective(fused)
  BY <1>1, FuseFacts DEF Ranking, Lists
<1>3. PICK best : best = Top(fused, size)
  OBVIOUS
<1>4. /\ best \in Seq(Range(fused)) /\ IsInjective(best) /\ Range(best) \subseteq Range(fused)
      /\ Len(best) = IF size <= Len(fused) THEN size ELSE Len(fused)
      /\ Len(fused) <= size => best = fused
      /\ \A i \in DOMAIN best : i \in DOMAIN fused /\ i <= size /\ best[i] = fused[i]
      /\ \A i \in DOMAIN fused : i <= size => i \in DOMAIN best
  <2>1. PICK T : fused \in Seq(T) /\ T = Range(fused)
    BY <1>2
  <2>2. best \in Seq(T) /\ Range(best) \subseteq Range(fused)
    BY <1>3, <2>1, TopFacts
  <2>3. IsInjective(best)
    BY <1>2, <1>3, <2>1, TopFacts
  <2>4. Len(best) = IF size <= Len(fused) THEN size ELSE Len(fused)
    BY <1>3, <2>1, TopFacts
  <2>5. Len(fused) <= size => best = fused
    BY <1>3, <2>1, TopFacts
  <2>6. \A i \in DOMAIN fused : i <= size => i \in DOMAIN best
    BY <1>3, <2>1, TopFacts
  <2>7. \A i \in DOMAIN best : i \in DOMAIN fused /\ i <= size /\ best[i] = fused[i]
    BY <1>3, <2>1, TopFacts
  <2> QED
    BY <2>1, <2>2, <2>3, <2>4, <2>5, <2>6, <2>7
<1>5. best \in Seq(Range(best)) /\ Lists(best, Range(best))
  BY <1>4, SeqOverRange DEF Lists
<1>6. PICK P : P = Range(best)
  OBVIOUS
<1>7. IsFiniteSet(P) /\ Cardinality(P) = Len(best)
  BY <1>5, <1>6, ListsFacts
<1>8. /\ IsFiniteSet(P \cap Food) /\ IsFiniteSet(P \ Food)
      /\ Cardinality(P \cap Food) \in Nat /\ Cardinality(P \ Food) \in Nat
  <2>1. (P \cap Food) \in SUBSET P /\ (P \ Food) \in SUBSET P
    OBVIOUS
  <2> QED
    BY <1>7, <2>1, FS_Subset, FS_CardinalityType
<1>9. Cardinality(P) = Cardinality(P \cap Food) + Cardinality(P \ Food)
  <2>1. PICK A, B : A = P \cap Food /\ B = P \ Food
    OBVIOUS
  <2>2. P = A \cup B /\ A \cap B = {}
    BY <2>1
  <2>3. Cardinality({}) = 0
    BY FS_EmptySet
  <2>4. /\ IsFiniteSet(A) /\ IsFiniteSet(B)
        /\ Cardinality(A) \in Nat /\ Cardinality(B) \in Nat
    BY <1>8, <2>1
  <2>5. Cardinality(A \cup B) = Cardinality(A) + Cardinality(B) - Cardinality(A \cap B)
    BY <2>4, FS_Union
  <2>6. Cardinality(A \cap B) = 0 /\ Cardinality(P) = Cardinality(A \cup B)
    BY <2>2, <2>3
  <2>7. Cardinality(P) = Cardinality(A) + Cardinality(B)
    BY <2>4, <2>5, <2>6
  <2> QED
    BY <2>1, <2>7
<1>10. SUFFICES ASSUME Cardinality(P \cap Food) < m PROVE FALSE
  BY <1>1, <1>3, <1>6, <1>8
<1>11. /\ first \in Seq(Range(first)) /\ IsInjective(first)
       /\ Len(first) \in Nat /\ DOMAIN first = 1..Len(first)
  BY LenProperties DEF Ranking, Lists
<1>12. PICK head : head = Top(first, m)
  OBVIOUS
<1>13. /\ head \in Seq(Range(first)) /\ IsInjective(head) /\ Range(head) \subseteq Range(first)
       /\ Len(head) = m
       /\ \A i \in DOMAIN head : i \in DOMAIN first /\ i <= m /\ head[i] = first[i]
  BY <1>11, <1>12, TopFacts
<1>14. Cardinality(Range(head)) = m
  <2>1. Lists(head, Range(head))
    BY <1>13, SeqOverRange DEF Lists
  <2> QED
    BY <1>13, <2>1, ListsFacts
<1>15. PICK b \in Range(head) : b \notin P
  <2>1. CASE Range(head) \subseteq P
    <3>1. Range(head) \in SUBSET (P \cap Food)
      BY <1>13, <2>1
    <3>2. m <= Cardinality(P \cap Food)
      BY <1>8, <1>14, <3>1, FS_Subset
    <3> QED
      BY <1>8, <1>10, <3>2
  <2> QED
    BY <2>1
<1>16. PICK i \in Nat \ {0} : /\ i \in DOMAIN first /\ first[i] = b /\ i <= m
                              /\ b \in Range(first) /\ i = Position(first, b)
  <2>1. PICK i \in DOMAIN head : head[i] = b
    BY DEF Range
  <2>2. i \in DOMAIN first /\ first[i] = b /\ i <= m /\ i \in Nat \ {0}
    BY <1>11, <1>13, <2>1
  <2>3. b \in Range(first)
    BY <2>2 DEF Range
  <2> QED
    BY <2>2, <2>3, PositionFacts
<1>17. b \in Range(fused) /\ Len(best) = size
  <2>1. b \in Range(fused)
    BY <1>2, <1>16 DEF Met
  <2>2. best # fused
    BY <1>6, <1>15, <2>1
  <2>3. Len(fused) \in Nat
    BY <1>2, LenProperties
  <2> QED
    BY <1>4, <2>1, <2>2, <2>3
<1>18. ASSUME NEW g \in P \ Food
       PROVE  g \in Range(second) /\ Position(second, g) \in 1..(i - 1)
  <2>1. g \in Range(second) /\ g \notin Range(first) /\ g \in Met(first, second)
    BY <1>2, <1>4, <1>6, <1>18 DEF Met
  <2>2. Position(fused, g) < Position(fused, b)
    <3>1. PICK k \in DOMAIN best : best[k] = g
      BY <1>6, <1>18 DEF Range
    <3>2. k \in DOMAIN fused /\ fused[k] = g /\ k <= size
      BY <1>4, <3>1
    <3>3. k = Position(fused, g) /\ k \in Nat
      BY <1>2, <2>1, <3>2, PositionFacts
    <3>4. /\ Position(fused, b) \in DOMAIN fused /\ fused[Position(fused, b)] = b
          /\ Position(fused, b) \in Nat
      BY <1>2, <1>17, PositionFacts
    <3>5. ~(Position(fused, b) <= size)
      <4>1. ASSUME Position(fused, b) <= size PROVE FALSE
        <5>1. Position(fused, b) \in DOMAIN best /\ best[Position(fused, b)] = b
          BY <1>4, <3>4, <4>1
        <5> QED
          BY <1>6, <1>15, <5>1 DEF Range
      <4> QED
        BY <4>1
    <3> QED
      BY <3>2, <3>3, <3>4, <3>5
  <2>3. <<g, b>> \in FusedBefore(first, second)
    BY <1>1, <1>2, <1>17, <2>1, <2>2, FuseFacts
  <2>4. Position(second, g) < i /\ Position(second, g) \in Nat \ {0}
    BY <1>16, <2>1, <2>3, ForeignBefore, PositionFacts
  <2> QED
    BY <2>1, <2>4
<1>19. Cardinality(P \ Food) <= i - 1
  <2>1. PICK place : place = [g \in P \ Food |-> Position(second, g)]
    OBVIOUS
  <2>2. place \in [P \ Food -> 1..(i - 1)]
    BY <1>18, <2>1
  <2>3. ASSUME NEW g \in P \ Food, NEW h \in P \ Food, place[g] = place[h] PROVE g = h
    <3>1. second[Position(second, g)] = g /\ second[Position(second, h)] = h
      BY <1>18, PositionFacts
    <3> QED
      BY <2>1, <2>3, <3>1
  <2>4. place \in Injection(P \ Food, 1..(i - 1))
    BY <2>2, <2>3 DEF Injection, IsInjective
  <2>5. IsFiniteSet(1..(i - 1)) /\ Cardinality(1..(i - 1)) = i - 1
    <3>1. i - 1 \in Nat
      BY <1>16
    <3> QED
      BY <3>1, FS_Interval
  <2> QED
    BY <2>4, <2>5, FS_Injection
<1>20. PICK known, foreign \in Nat : /\ known = Cardinality(P \cap Food)
                                    /\ foreign = Cardinality(P \ Food)
  BY <1>8
<1>21. size = known + foreign /\ known < m /\ foreign <= i - 1 /\ i <= m
  BY <1>7, <1>9, <1>10, <1>16, <1>17, <1>19, <1>20
<1> QED
  BY <1>21
-----------------------------------------------------------------------------
(***************************************************************************)
(* Pages of results.                                                       *)
(***************************************************************************)
Asked(j) == \E r \in Requests : j.query = r.query /\ j.limit = r.limit

\* The numbers of the code.
LEMMA Sizes ==
  /\ MaxLimit \in Nat \ {0} /\ PoolSize \in Nat /\ RerankCandidates \in Nat
  /\ PoolSize >= MaxLimit /\ RerankCandidates >= 2 * MaxLimit - 1
  BY SearchAssumption

\* What a job asks for, and the rankings of its query.
LEMMA AskedFacts ==
  ASSUME NEW j, Asked(j)
  PROVE  /\ j.limit \in 1..MaxLimit /\ j.limit \in Nat \ {0}
         /\ Bm25Order[j.query] = <<>> \/ Lists(Bm25Order[j.query], Food)
         /\ Ranking(DenseOrder[j.query]) /\ Food \subseteq Range(DenseOrder[j.query])
         /\ Lists(RerankOrder[j.query], Food)
<1>1. PICK r \in Requests : j.query = r.query /\ j.limit = r.limit
  BY DEF Asked
<1>2. j.limit \in 1..MaxLimit
  BY <1>1, SearchAssumption
<1>3. j.limit \in Nat \ {0}
  BY <1>2, Sizes
<1> QED
  BY <1>1, <1>2, <1>3, SearchAssumption DEF Ranking

\* The menu is finite and has each food once.
LEMMA MenuFacts ==
  IsFiniteSet(Food) /\ Cardinality(Food) = Len(Corpus) /\ Len(Corpus) \in Nat
  BY SearchAssumption, ListsFacts

\* No food at all is a ranking.
LEMMA EmptyRanking == Ranking(<<>>) /\ Range(<<>>) = {}
<1>1. Range(<<>>) = {}
  BY DEF Range
<1> QED
  BY <1>1 DEF Ranking, Lists, IsInjective

\* A ranking with enough foods of the menu makes a full page.
LEMMA PageFrom ==
  ASSUME NEW j, Asked(j), NEW r, Ranking(r),
         Bm25Order[j.query] # <<>> =>
           Cardinality(Range(r) \cap Food) >= Min({j.limit, Len(Corpus)})
  PROVE  FullPage(KeyOf(j), ToResults(r, j.limit))
<1>1. PICK limit \in Nat \ {0} : limit = j.limit
  BY AskedFacts
<1>2. PICK menu \in Nat : menu = Len(Corpus) /\ menu = Cardinality(Food)
  BY MenuFacts
<1>3. PICK kept, D : kept = Keep(r, Food) /\ D = Range(r) \cap Food
  OBVIOUS
<1>4. Lists(kept, D) /\ Lists(kept, Range(kept)) /\ Range(kept) = D
  BY <1>3, ListsParts DEF Ranking, Lists
<1>5. Len(kept) \in Nat /\ Len(kept) = Cardinality(D)
  BY <1>4, ListsFacts
<1>6. Cardinality(D) <= menu
  <2>1. D \in SUBSET Food
    BY <1>3
  <2> QED
    BY <1>2, <2>1, MenuFacts, FS_Subset
<1>7. PICK value : value = ToResults(r, j.limit)
  OBVIOUS
<1>8. value = Top(kept, limit)
  BY <1>1, <1>3, <1>7 DEF ToResults, Known
<1>9. /\ Lists(value, Range(value)) /\ Range(value) \subseteq D
      /\ Len(value) = IF limit <= Len(kept) THEN limit ELSE Len(kept)
  BY <1>4, <1>8, ListsParts
<1>10. Range(value) \subseteq Food /\ IsInjective(value) /\ Len(value) <= limit
  BY <1>3, <1>5, <1>9 DEF Lists
<1>11. Bm25Order[j.query] # <<>> => Len(value) = Min({limit, menu})
  <2>1. Min({limit, menu}) = IF limit <= menu THEN limit ELSE menu
    BY RankMin
  <2> QED
    BY <1>1, <1>2, <1>3, <1>5, <1>6, <1>9, <2>1
<1>12. KeyOf(j).limit = limit /\ KeyOf(j).query = j.query
  BY <1>1 DEF KeyOf
<1> QED
  BY <1>2, <1>7, <1>10, <1>11, <1>12 DEF FullPage

\* The in-memory search has the whole menu to choose from.
LEMMA CosinePage ==
  ASSUME NEW j, Asked(j)
  PROVE  FullPage(KeyOf(j), Cosine(j))
<1>1. Ranking(DenseOrder[j.query]) /\ Food \subseteq Range(DenseOrder[j.query])
  BY AskedFacts
<1>2. Cosine(j) = ToResults(DenseOrder[j.query], j.limit)
  BY DEF Cosine, ToResults
<1>3. Range(DenseOrder[j.query]) \cap Food = Food
  BY <1>1
<1>4. Cardinality(Food) >= Min({j.limit, Len(Corpus)})
  <2>1. PICK limit, menu \in Nat : limit = j.limit /\ menu = Len(Corpus)
    BY AskedFacts, MenuFacts
  <2>2. Cardinality(Food) = menu
    BY <2>1, MenuFacts
  <2>3. Min({limit, menu}) = IF limit <= menu THEN limit ELSE menu
    BY RankMin
  <2> QED
    BY <2>1, <2>2, <2>3
<1> QED
  BY <1>1, <1>2, <1>3, <1>4, PageFrom

RerankerOK == reranker \in [wired : BOOLEAN, model : BOOLEAN, failed : BOOLEAN]

\* BM25 ranks enough of the menu for a page, and nothing else.
LEMMA Bm25Facts ==
  ASSUME NEW j, Asked(j), RerankerOK
  PROVE  /\ Ranking(Bm25Rank(j)) /\ Range(Bm25Rank(j)) \subseteq Food
         /\ Len(Bm25Rank(j)) \in Nat /\ RerankedSize(j.limit) \in Nat
         /\ Pool(j.limit) \in Nat
         /\ RerankedSize(j.limit) >= j.limit
         /\ RerankedSize(j.limit) >= 2 * j.limit - 1
         /\ Bm25Order[j.query] # <<>> =>
              /\ Bm25Rank(j) # <<>> /\ Len(Corpus) > 0
              /\ Len(Bm25Rank(j)) >= Min({j.limit, Len(Corpus)})
         /\ Bm25Order[j.query] = <<>> => Bm25Rank(j) = <<>>
<1>1. PICK limit \in Nat \ {0} : limit = j.limit /\ limit <= MaxLimit
  BY AskedFacts, Sizes
<1>2. PICK size \in Nat : /\ size = RerankedSize(limit) /\ size >= limit
                          /\ size >= RerankCandidates
  BY Sizes, RankMax DEF RerankedSize
<1>3. size >= 2 * limit - 1
  BY <1>1, <1>2, Sizes
<1>4. PICK pool \in Nat : pool = Pool(limit) /\ pool >= limit
  <2>1. PICK ps \in Nat : ps = PoolSize /\ ps >= limit
    BY <1>1, Sizes
  <2>2. Max({ps, size}) = (IF ps >= size THEN ps ELSE size)
    BY RankMax
  <2>3. Pool(limit) = IF reranker.wired THEN Max({ps, size}) ELSE ps
    BY <1>2, <2>1 DEF Pool
  <2>4. Max({ps, size}) \in Nat /\ Max({ps, size}) >= limit
    BY <2>1, <2>2
  <2>5. Pool(limit) \in {Max({ps, size}), ps}
    BY <2>3
  <2> QED
    BY <2>1, <2>4, <2>5
<1>5. PICK order, rank : order = Bm25Order[j.query] /\ rank = Bm25Rank(j)
  OBVIOUS
<1>6. rank = Top(order, pool)
  BY <1>1, <1>4, <1>5 DEF Bm25Rank
<1>7. Lists(order, Range(order)) /\ Range(order) \subseteq Food
  BY <1>5, AskedFacts, EmptyRanking DEF Ranking, Lists
<1>8. /\ Lists(rank, Range(rank)) /\ Range(rank) \subseteq Range(order)
      /\ Len(rank) = IF pool <= Len(order) THEN pool ELSE Len(order)
  BY <1>6, <1>7, ListsParts
<1>9. Len(rank) \in Nat /\ Len(order) \in Nat
  BY <1>7, <1>8, ListsFacts
<1>10. ASSUME order # <<>>
       PROVE  rank # <<>> /\ Len(Corpus) > 0 /\ Len(rank) >= Min({limit, Len(Corpus)})
  <2>1. Lists(order, Food)
    BY <1>5, <1>10, AskedFacts
  <2>2. Len(order) = Len(Corpus)
    BY <2>1, MenuFacts, ListsFacts
  <2>3. Len(order) > 0
    <3>1. order \in Seq(Food)
      BY <2>1 DEF Lists
    <3> QED
      BY <1>9, <1>10, <3>1, EmptySeq
  <2>4. PICK menu \in Nat : menu = Len(Corpus)
    BY MenuFacts
  <2>5. Min({limit, menu}) = IF limit <= menu THEN limit ELSE menu
    BY RankMin
  <2>6. Len(rank) >= Min({limit, menu}) /\ Len(rank) > 0
    BY <1>4, <1>8, <1>9, <2>2, <2>3, <2>4, <2>5
  <2>7. rank # <<>>
    BY <2>6
  <2> QED
    BY <2>2, <2>3, <2>4, <2>6, <2>7
<1>11. ASSUME order = <<>> PROVE rank = <<>>
  <2>1. Len(order) = 0
    BY <1>11
  <2>2. Len(rank) = 0
    BY <1>4, <1>8, <2>1
  <2>3. rank \in Seq(Range(rank))
    BY <1>8 DEF Lists
  <2> QED
    BY <2>2, <2>3, EmptySeq
<1> QED
  BY <1>1, <1>2, <1>3, <1>4, <1>5, <1>7, <1>8, <1>9, <1>10, <1>11 DEF Ranking

\* The fused ranking has the foods of both, each once.
LEMMA FusedFacts ==
  ASSUME NEW j, Asked(j), RerankerOK, NEW dense, Ranking(dense)
  PROVE  /\ Ranking(Fused(j, dense))
         /\ Range(Fused(j, dense)) = Range(Bm25Rank(j)) \cup Range(dense)
<1>1. Ranking(Bm25Rank(j))
  BY Bm25Facts
<1>2. CASE Bm25Rank(j) = <<>>
  BY <1>2, EmptyRanking DEF Fused
<1>3. CASE Bm25Rank(j) # <<>> /\ dense = <<>>
  BY <1>1, <1>3, EmptyRanking DEF Fused
<1>4. CASE Bm25Rank(j) # <<>> /\ dense # <<>>
  <2>1. Fused(j, dense) = Fuse(Bm25Rank(j), dense)
    BY <1>4 DEF Fused
  <2> QED
    BY <1>1, <2>1, FuseFacts DEF Met
<1> QED
  BY <1>2, <1>3, <1>4

\* The foods of a ranking of the menu, counted.
LEMMA KnownCount ==
  ASSUME NEW r, Ranking(r), Range(r) \subseteq Food, NEW S, Range(r) \subseteq S,
         IsFiniteSet(S)
  PROVE  Cardinality(S \cap Food) >= Len(r) /\ Cardinality(S \cap Food) \in Nat
<1>1. Cardinality(Range(r)) = Len(r) /\ Len(r) \in Nat
  BY ListsFacts DEF Ranking
<1>2. IsFiniteSet(S \cap Food)
  BY FS_Subset
<1>3. Range(r) \in SUBSET (S \cap Food)
  OBVIOUS
<1>4. Cardinality(Range(r)) <= Cardinality(S \cap Food)
  BY <1>2, <1>3, FS_Subset
<1> QED
  BY <1>1, <1>2, <1>4, FS_CardinalityType

\* The whole fused ranking, and the candidates of the reranker, have a page of known
\* foods: the foreign foods that Qdrant still has cannot crowd them out.
LEMMA Candidates ==
  ASSUME NEW j, Asked(j), RerankerOK, NEW dense, Ranking(dense),
         Bm25Order[j.query] # <<>>
  PROVE  /\ Cardinality(Range(Fused(j, dense)) \cap Food)
              >= Min({j.limit, Len(Corpus)})
         /\ Cardinality(Range(Top(Fused(j, dense), RerankedSize(j.limit))) \cap Food)
              >= Min({j.limit, Len(Corpus)})
         /\ Min({j.limit, Len(Corpus)}) > 0
<1>1. PICK limit \in Nat \ {0} : limit = j.limit
  BY AskedFacts
<1>2. PICK bm, fused : bm = Bm25Rank(j) /\ fused = Fused(j, dense)
  OBVIOUS
<1>3. PICK menu \in Nat \ {0} : menu = Len(Corpus)
  <2>1. Len(Corpus) > 0
    BY Bm25Facts
  <2>2. Len(Corpus) \in Nat \ {0}
    BY <2>1, MenuFacts
  <2> QED
    BY <2>2
<1>4. PICK size \in Nat : /\ size = RerankedSize(j.limit)
                          /\ size >= limit /\ size >= 2 * limit - 1
  BY <1>1, Bm25Facts
<1>5. PICK m \in Nat \ {0} : m = Min({limit, menu}) /\ m <= limit
  BY RankMin
<1>6. /\ Ranking(bm) /\ Range(bm) \subseteq Food /\ bm # <<>>
      /\ Len(bm) \in Nat /\ Len(bm) >= m
  BY <1>1, <1>2, <1>3, <1>5, Bm25Facts
<1>7. Ranking(fused) /\ Range(fused) = Range(bm) \cup Range(dense)
  BY <1>2, FusedFacts
<1>8. IsFiniteSet(Range(fused))
  BY <1>7, ListsFacts DEF Ranking
<1>9. Cardinality(Range(fused) \cap Food) >= m
  <2>1. Cardinality(Range(fused) \cap Food) >= Len(bm)
        /\ Cardinality(Range(fused) \cap Food) \in Nat
    BY <1>6, <1>7, <1>8, KnownCount
  <2> QED
    BY <1>6, <2>1
<1>10. Cardinality(Range(Top(fused, size)) \cap Food) >= m
  <2>1. CASE dense = <<>>
    <3>1. fused = bm
      BY <1>2, <1>6, <2>1 DEF Fused
    <3>2. PICK top : top = Top(bm, size)
      OBVIOUS
    <3>3. /\ Ranking(top) /\ Range(top) \subseteq Range(bm)
          /\ Len(top) = IF size <= Len(bm) THEN size ELSE Len(bm)
      BY <1>6, <3>2, ListsParts DEF Ranking
    <3>4. Len(top) >= m /\ Len(top) \in Nat
      BY <1>4, <1>5, <1>6, <3>3
    <3>5. IsFiniteSet(Range(top)) /\ Range(top) \subseteq Food
      BY <1>6, <3>3, ListsFacts DEF Ranking
    <3>6. /\ Cardinality(Range(top) \cap Food) >= Len(top)
          /\ Cardinality(Range(top) \cap Food) \in Nat
      BY <3>3, <3>5, KnownCount
    <3> QED
      BY <3>1, <3>2, <3>4, <3>6
  <2>2. CASE dense # <<>>
    <3>1. fused = Fuse(bm, dense)
      BY <1>2, <1>6, <2>2 DEF Fused
    <3>2. 2 * m - 1 <= size
      BY <1>4, <1>5
    <3> QED
      BY <1>6, <3>1, <3>2, EnoughKnown
  <2> QED
    BY <2>1, <2>2
<1> QED
  BY <1>1, <1>2, <1>3, <1>4, <1>5, <1>9, <1>10

\* Whatever becomes of the reranker, the page is full.
LEMMA HybridPages ==
  ASSUME NEW j, Asked(j), RerankerOK, Ranking(j.dense), j.fused = Fused(j, j.dense)
  PROVE  /\ FullPage(KeyOf(j), ToResults(j.fused, j.limit))
         /\ FullPage(KeyOf(j), ToResults(Reranked(j), j.limit))
         /\ RerankPairs(j) = <<>> =>
              FullPage(KeyOf(j), ToResults(Top(j.fused, j.limit), j.limit))
<1>1. PICK limit \in Nat \ {0} : limit = j.limit
  BY AskedFacts
<1>2. PICK size \in Nat : size = RerankedSize(j.limit)
  BY Bm25Facts
<1>3. PICK fused : fused = j.fused
  OBVIOUS
<1>4. Ranking(fused)
  BY <1>3, FusedFacts
<1>5. PICK page : page = Min({j.limit, Len(Corpus)})
  OBVIOUS
<1>6. page \in Int /\ page <= limit
  <2>1. PICK menu \in Nat : menu = Len(Corpus)
    BY MenuFacts
  <2> QED
    BY <1>1, <1>5, <2>1, RankMin
<1>7. Bm25Order[j.query] # <<>> =>
        /\ Cardinality(Range(fused) \cap Food) >= page
        /\ Cardinality(Range(Top(fused, size)) \cap Food) >= page
        /\ page > 0
  BY <1>2, <1>3, <1>5, Candidates
<1>8. FullPage(KeyOf(j), ToResults(fused, j.limit))
  BY <1>4, <1>5, <1>7, PageFrom
<1>9. PICK best, pairs : best = Top(fused, size) /\ pairs = RerankPairs(j)
  OBVIOUS
<1>10. Ranking(best)
  BY <1>4, <1>9, ListsParts DEF Ranking
<1>11. pairs = Keep(best, Food)
  BY <1>2, <1>3, <1>9 DEF RerankPairs, Known
<1>12. Range(pairs) = Range(best) \cap Food /\ Lists(pairs, Range(pairs))
  BY <1>10, <1>11, ListsParts DEF Ranking, Lists
<1>13. FullPage(KeyOf(j), ToResults(Reranked(j), j.limit))
  <2>1. PICK order, kept, top : /\ order = RerankOrder[j.query]
                                /\ kept = Keep(order, Range(pairs))
                                /\ top = Top(kept, limit)
    OBVIOUS
  <2>2. Lists(order, Food) /\ Lists(order, Range(order)) /\ Range(order) = Food
    BY <2>1, AskedFacts DEF Lists
  <2>3. Lists(kept, Range(kept)) /\ Range(kept) = Range(pairs)
    <3>1. Lists(kept, Food \cap Range(pairs))
      BY <2>1, <2>2, ListsParts
    <3>2. Food \cap Range(pairs) = Range(pairs)
      BY <1>12
    <3> QED
      BY <3>1, <3>2 DEF Lists
  <2>4. /\ Ranking(top) /\ Range(top) \subseteq Range(pairs)
        /\ Len(top) = IF limit <= Len(kept) THEN limit ELSE Len(kept)
    BY <2>1, <2>3, ListsParts DEF Ranking
  <2>5. Len(kept) = Cardinality(Range(pairs)) /\ Len(kept) \in Nat
    BY <2>3, ListsFacts
  <2>6. Range(top) \cap Food = Range(top) /\ Cardinality(Range(top)) = Len(top)
    BY <1>12, <2>4, ListsFacts DEF Ranking
  <2>7. Bm25Order[j.query] # <<>> => Cardinality(Range(top) \cap Food) >= page
    BY <1>6, <1>7, <1>9, <1>12, <2>4, <2>5, <2>6
  <2>8. Reranked(j) = top
    BY <1>1, <1>9, <2>1 DEF Reranked
  <2> QED
    BY <1>5, <2>4, <2>7, <2>8, PageFrom
<1>14. ASSUME pairs = <<>>
       PROVE  FullPage(KeyOf(j), ToResults(Top(fused, j.limit), j.limit))
  <2>1. Range(best) \cap Food = {}
    BY <1>12, <1>14, EmptyRanking
  <2>2. Bm25Order[j.query] = <<>>
    <3>1. Cardinality({}) = 0
      BY FS_EmptySet
    <3>2. Bm25Order[j.query] # <<>> => Cardinality({}) >= page /\ page > 0
      BY <1>6, <1>7, <1>9, <2>1
    <3> QED
      BY <1>6, <3>1, <3>2
  <2>3. Ranking(Top(fused, limit))
    BY <1>4, ListsParts DEF Ranking
  <2> QED
    BY <1>1, <2>2, <2>3, PageFrom
<1> QED
  BY <1>3, <1>8, <1>9, <1>13, <1>14
-----------------------------------------------------------------------------
(***************************************************************************)
(* Threads and counters.                                                   *)
(***************************************************************************)
Reporting == {t \in Thread : pc[t] = "report"}

Busy == {t \in Thread : pc[t] \notin {"idle", "report"}}

\* How much a thread at a label counts in each.
InReport(label) == IF label = "report" THEN 1 ELSE 0

InWork(label) == IF label \in {"idle", "report"} THEN 0 ELSE 1

\* What CountersAgree says, with the sizes of the two sets as numbers.
Agree(s, c, cleared, got, r, b) ==
  /\ s.hits <= c.hits
  /\ cleared = 0 => s.hits = c.hits /\ s.misses = c.misses + r
  /\ c.hits + c.misses + r <= got - b

\* CountersAgree, said of the numbers of threads that report and that work.
LEMMA AgreeNow ==
  CountersAgree <=> Agree(stats, counter, clears, received,
                          Cardinality(Reporting), Cardinality(Busy))
  BY DEF CountersAgree, Agree, Reporting, Busy

\* Sets that differ at most in t.
LEMMA OneMoreOrLess ==
  ASSUME NEW A, NEW B, IsFiniteSet(A), IsFiniteSet(B), NEW t,
         \A x : x # t => (x \in A <=> x \in B)
  PROVE  /\ Cardinality(A) \in Nat /\ Cardinality(B) \in Nat
         /\ Cardinality(B) = Cardinality(A) + (IF t \in B THEN 1 ELSE 0)
              - (IF t \in A THEN 1 ELSE 0)
  <1>1. Cardinality(A) \in Nat /\ Cardinality(B) \in Nat
    BY FS_CardinalityType
  <1>2. CASE (t \in A) = (t \in B)
    <2>1. A = B
      BY <1>2
    <2>2. QED
      BY <1>1, <2>1
  <1>3. CASE t \notin A /\ t \in B
    <2>1. B = A \cup {t}
      BY <1>3
    <2>2. Cardinality(B) = Cardinality(A) + 1
      BY <1>3, <2>1, FS_AddElement
    <2>3. QED
      BY <1>1, <1>3, <2>2
  <1>4. CASE t \in A /\ t \notin B
    <2>1. A = B \cup {t}
      BY <1>4
    <2>2. Cardinality(A) = Cardinality(B) + 1
      BY <1>4, <2>1, FS_AddElement
    <2>3. QED
      BY <1>1, <1>4, <2>2
  <1>5. QED
    BY <1>2, <1>3, <1>4

\* How a step of one thread changes the two numbers.
LEMMA WorkCounts ==
  ASSUME ThreadsInv, NEW t \in Thread, NEW label, pc' = [pc EXCEPT ![t] = label]
  PROVE  /\ Cardinality(Reporting) \in Nat /\ Cardinality(Busy) \in Nat
         /\ Cardinality(Reporting') \in Nat /\ Cardinality(Busy') \in Nat
         /\ Cardinality(Reporting') = Cardinality(Reporting)
              + InReport(label) - InReport(pc[t])
         /\ Cardinality(Busy') = Cardinality(Busy)
              + InWork(label)
              - InWork(pc[t])
  <1>1. pc'[t] = label /\ \A x \in Thread \ {t} : pc'[x] = pc[x]
    BY DEF ThreadsInv
  <1>2. /\ IsFiniteSet(Reporting) /\ IsFiniteSet(Reporting')
        /\ IsFiniteSet(Busy) /\ IsFiniteSet(Busy')
    BY SearchAssumption, FS_Subset DEF Reporting, Busy
  <1>3. /\ t \in Reporting <=> pc[t] = "report"
        /\ t \in Reporting' <=> label = "report"
        /\ \A x : x # t => (x \in Reporting <=> x \in Reporting')
    BY <1>1 DEF Reporting
  <1>4. /\ t \in Busy <=> pc[t] \notin {"idle", "report"}
        /\ t \in Busy' <=> label \notin {"idle", "report"}
        /\ \A x : x # t => (x \in Busy <=> x \in Busy')
    BY <1>1 DEF Busy
  <1> DEFINE R == Reporting
             Q == Reporting'
             B == Busy
             C == Busy'
  <1> HIDE DEF R, Q, B, C
  <1>5. /\ Cardinality(R) \in Nat /\ Cardinality(Q) \in Nat
        /\ Cardinality(Q) = Cardinality(R) + (IF t \in Q THEN 1 ELSE 0)
                              - (IF t \in R THEN 1 ELSE 0)
    BY <1>2, <1>3, OneMoreOrLess DEF R, Q
  <1>6. /\ Cardinality(B) \in Nat /\ Cardinality(C) \in Nat
        /\ Cardinality(C) = Cardinality(B) + (IF t \in C THEN 1 ELSE 0)
                              - (IF t \in B THEN 1 ELSE 0)
    BY <1>2, <1>4, OneMoreOrLess DEF B, C
  <1>7. /\ (IF t \in Q THEN 1 ELSE 0) = InReport(label)
        /\ (IF t \in R THEN 1 ELSE 0) = InReport(pc[t])
    BY <1>3 DEF InReport, R, Q
  <1>8. /\ (IF t \in C THEN 1 ELSE 0) = InWork(label)
        /\ (IF t \in B THEN 1 ELSE 0) = InWork(pc[t])
    BY <1>4 DEF InWork, B, C
  <1>9. QED
    BY <1>5, <1>6, <1>7, <1>8 DEF R, Q, B, C

\* A thread goes on.
LEMMA WorkThreads ==
  ASSUME ThreadsInv, NEW t \in Thread, NEW new,
         NEW label \in Working \cup {"idle", "report"}, Work(t, new, label),
         JobOK(label, new), DOMAIN answer' = Thread, now' \in Nat,
         received' \in Nat, clears' \in Nat, stats' \in Counts,
         counter' \in Counts
  PROVE  ThreadsInv'
  <1>1. /\ pc' = [pc EXCEPT ![t] = label] /\ job' = [job EXCEPT ![t] = new]
        /\ pc \in [Thread -> Working \cup {"idle", "report"}]
        /\ DOMAIN job = Thread
    BY DEF Work, ThreadsInv
  <1>2. /\ pc' \in [Thread -> Working \cup {"idle", "report"}]
        /\ DOMAIN job' = Thread /\ pc'[t] = label /\ job'[t] = new
        /\ \A x \in Thread \ {t} : pc'[x] = pc[x] /\ job'[x] = job[x]
    BY <1>1
  <1>3. \A x \in Thread : JobOK(pc'[x], job'[x])
    BY <1>2 DEF ThreadsInv
  <1>4. QED
    BY <1>2, <1>3 DEF ThreadsInv, JobOK

\* Steps of a search that neither touch the cache nor answer.
LEMMA QuietStep ==
  ASSUME SearchInv, NEW t \in Thread, NEW new, NEW label \in Working,
         pc[t] \in Working, Work(t, new, label), JobOK(label, new),
         UNCHANGED <<cache, now, answer, received, clears>>
  PROVE  SearchInv'
  <1>1. CacheInv'
    BY DEF SearchInv, CacheInv, cache, Expiry, Ordered
  <1>2. ThreadsInv'
    BY WorkThreads DEF SearchInv, ThreadsInv, cache
  <1>3. ServedFresh'
    BY DEF SearchInv, ServedFresh
  <1>4. CountersAgree'
    <2>1. pc' = [pc EXCEPT ![t] = label] /\ ThreadsInv
      BY DEF SearchInv, Work
    <2>2. /\ InReport(label) = 0 /\ InReport(pc[t]) = 0
          /\ InWork(label) = 1 /\ InWork(pc[t]) = 1
      BY DEF Working, InReport, InWork
    <2>3. /\ Cardinality(Reporting) \in Nat /\ Cardinality(Busy) \in Nat
          /\ Cardinality(Reporting') = Cardinality(Reporting)
               + InReport(label) - InReport(pc[t])
          /\ Cardinality(Busy') = Cardinality(Busy) + InWork(label) - InWork(pc[t])
      BY <2>1, WorkCounts
    <2>4. /\ Cardinality(Reporting') = Cardinality(Reporting)
          /\ Cardinality(Busy') = Cardinality(Busy)
      BY <2>2, <2>3
    <2>5. QED
      BY <2>4, AgreeNow DEF SearchInv, CountersAgree, Reporting, Busy, cache
  <1>5. QED
    BY <1>1, <1>2, <1>3, <1>4 DEF SearchInv

\* The counters with the thread's step to label taken over.
TakenOver(t, label) ==
  Agree(stats', counter', clears', received',
        Cardinality(Reporting) + InReport(label) - InReport(pc[t]),
        Cardinality(Busy) + InWork(label) - InWork(pc[t]))

\* A step of one thread keeps the counters in agreement when they have taken over what
\* it counted.
LEMMA CountStep ==
  ASSUME ThreadsInv, NEW t \in Thread, NEW label, pc' = [pc EXCEPT ![t] = label],
         TakenOver(t, label)
  PROVE  CountersAgree'
  <1>1. /\ Cardinality(Reporting') = Cardinality(Reporting)
             + InReport(label) - InReport(pc[t])
        /\ Cardinality(Busy') = Cardinality(Busy) + InWork(label) - InWork(pc[t])
    BY WorkCounts
  <1>2. Agree(stats', counter', clears', received',
              Cardinality(Reporting'), Cardinality(Busy'))
    BY <1>1 DEF TakenOver
  <1>3. QED
    BY <1>2 DEF CountersAgree, Agree, Reporting, Busy

\* The answers of the other threads stay; t's may be a hit.
LEMMA AnswerFresh ==
  ASSUME SearchInv, NEW t \in Thread, NEW a, answer' = [answer EXCEPT ![t] = a],
         a.kind = "hit" => a.at < a.done + TTL
  PROVE  ServedFresh' /\ DOMAIN answer' = Thread
  BY DEF SearchInv, ServedFresh, ThreadsInv

\* A step that leaves the entries and their use alone keeps the cache invariant.
LEMMA SameCache ==
  ASSUME CacheInv, store' = store, touched' = touched
  PROVE  CacheInv'
  BY DEF CacheInv, Expiry, Ordered

\* A new request has counted nothing yet.
LEMMA ReceiveStep ==
  ASSUME SearchInv, NEW t \in Thread, NEW r \in Requests, Receive(t, r)
  PROVE  SearchInv'
  <1>1. /\ pc[t] = "idle" /\ received' = received + 1
        /\ Work(t, NewJob(r), "lookup") /\ pc' = [pc EXCEPT ![t] = "lookup"]
        /\ answer' = [answer EXCEPT ![t] = [kind |-> "none"]]
        /\ UNCHANGED <<store, stats, counter, touched, now, clears>>
    BY DEF Receive, cache, Work
  <1>2. ThreadsInv
    BY DEF SearchInv
  <1>3. ServedFresh' /\ DOMAIN answer' = Thread
    BY <1>1, AnswerFresh
  <1>4. JobOK("lookup", NewJob(r))
    BY <1>2 DEF JobOK, NewJob, ThreadsInv
  <1>5. ThreadsInv'
    BY <1>1, <1>2, <1>3, <1>4, WorkThreads DEF ThreadsInv, Working
  <1>6. Cardinality(Reporting) \in Nat /\ Cardinality(Busy) \in Nat
    BY <1>1, <1>2, WorkCounts
  <1>7. CountersAgree'
    <2>1. /\ InReport("lookup") = 0 /\ InReport(pc[t]) = 0
          /\ InWork("lookup") = 1 /\ InWork(pc[t]) = 0
      BY <1>1 DEF InReport, InWork
    <2>2. Agree(stats, counter, clears, received,
                Cardinality(Reporting), Cardinality(Busy))
      BY AgreeNow DEF SearchInv
    <2>3. TakenOver(t, "lookup")
      BY <1>1, <1>2, <1>6, <2>1, <2>2 DEF TakenOver, Agree, ThreadsInv, Counts
    <2>4. QED
      BY <1>1, <1>2, <2>3, CountStep
  <1>8. QED
    BY <1>1, <1>3, <1>5, <1>7, SameCache DEF SearchInv

\* The first critical section of the decorator: a hit is fresh and counted twice, a
\* miss drops what has expired and goes on to compute.
LEMMA LookupStep ==
  ASSUME SearchInv, NEW t \in Thread, Lookup(t)
  PROVE  SearchInv'
  <1> DEFINE j == job[t]
             key == KeyOf(j)
  <1>1. /\ pc[t] = "lookup" /\ UNCHANGED <<now, received, clears>>
        /\ ThreadsInv /\ CacheInv
    BY DEF Lookup, SearchInv
  <1>2. JobOK("lookup", j)
    BY <1>1 DEF ThreadsInv
  <1>3. CASE Hit(key, j.at) /\ Reply(t, [kind |-> "hit", at |-> j.at,
                                         done |-> Entry(key).done])
    <2> DEFINE a == [kind |-> "hit", at |-> j.at, done |-> Entry(key).done]
    <2>1. /\ Has(key) /\ Entry(key).expires > j.at
          /\ stats' = [stats EXCEPT !.hits = @ + 1]
          /\ counter' = [counter EXCEPT !.hits = @ + 1]
          /\ answer' = [answer EXCEPT ![t] = a]
          /\ Work(t, Unused, "idle") /\ pc' = [pc EXCEPT ![t] = "idle"]
      BY <1>3 DEF Hit, Reply, Work
    <2>2. /\ Slot(key) \in 1..Len(store)
          /\ Entry(key).done \in Nat /\ Entry(key).expires = Entry(key).done + TTL
      BY <1>1, <2>1, WithoutFacts DEF Entry, CacheInv, Expiry
    <2>3. a.at < a.done + TTL
      BY <1>2, <2>1, <2>2, CacheAssumption DEF JobOK
    <2> HIDE DEF a
    <2>4. ServedFresh' /\ DOMAIN answer' = Thread
      BY <2>1, <2>3, AnswerFresh
    <2>5. CacheInv'
      BY <1>1, <1>3, HitCache
    <2>6. /\ stats' \in Counts /\ counter' \in Counts
          /\ stats'.hits = stats.hits + 1 /\ stats'.misses = stats.misses
          /\ counter'.hits = counter.hits + 1 /\ counter'.misses = counter.misses
      BY <1>1, <2>1 DEF ThreadsInv, Counts
    <2>7. ThreadsInv'
      BY <1>1, <2>1, <2>4, <2>6, WorkThreads DEF ThreadsInv, JobOK
    <2>8. Cardinality(Reporting) \in Nat /\ Cardinality(Busy) \in Nat
      BY <1>1, <2>1, WorkCounts
    <2>9. CountersAgree'
      <3>1. /\ InReport("idle") = 0 /\ InReport(pc[t]) = 0
            /\ InWork("idle") = 0 /\ InWork(pc[t]) = 1
        BY <1>1 DEF InReport, InWork
      <3>2. Agree(stats, counter, clears, received,
                  Cardinality(Reporting), Cardinality(Busy))
        BY AgreeNow DEF SearchInv
      <3>3. TakenOver(t, "idle")
        BY <1>1, <2>6, <2>8, <3>1, <3>2 DEF TakenOver, Agree, ThreadsInv, Counts
      <3>4. QED
        BY <1>1, <2>1, <3>3, CountStep
    <2>10. QED
      BY <2>4, <2>5, <2>7, <2>9 DEF SearchInv
  <1>4. CASE Miss(key, j.at) /\ Work(t, j, Route) /\ UNCHANGED answer
    <2>1. /\ UNCHANGED <<stats, counter, answer>> /\ Route \in {"count", "cosine"}
          /\ pc' = [pc EXCEPT ![t] = Route]
      BY <1>4 DEF Miss, Route, Work
    <2>2. CacheInv'
      BY <1>1, <1>4, MissCache
    <2>3. JobOK(Route, j) /\ Route \in Working
      BY <1>2, <2>1 DEF JobOK, Working
    <2>4. ThreadsInv'
      BY <1>1, <1>4, <2>1, <2>3, WorkThreads DEF ThreadsInv
    <2>5. Cardinality(Reporting) \in Nat /\ Cardinality(Busy) \in Nat
      BY <1>1, <2>1, WorkCounts
    <2>6. /\ InReport(Route) = 0 /\ InReport(pc[t]) = 0
          /\ InWork(Route) = 1 /\ InWork(pc[t]) = 1
      BY <1>1, <2>1 DEF InReport, InWork
    <2>7. CountersAgree'
      <3>1. Agree(stats, counter, clears, received,
                  Cardinality(Reporting), Cardinality(Busy))
        BY AgreeNow DEF SearchInv
      <3>2. TakenOver(t, Route)
        BY <1>1, <2>1, <2>5, <2>6, <3>1 DEF TakenOver, Agree
      <3>3. QED
        BY <1>1, <2>1, <3>2, CountStep
    <2>8. ServedFresh'
      BY <2>1 DEF SearchInv, ServedFresh
    <2>9. QED
      BY <2>2, <2>4, <2>7, <2>8 DEF SearchInv
  <1>5. QED
    BY <1>3, <1>4 DEF Lookup

\* A search that raises leaves the decorator before the miss is counted.
LEMMA RaisesStep ==
  ASSUME SearchInv, NEW t \in Thread, CosineRaises(t)
  PROVE  SearchInv'
  <1>1. /\ pc[t] = "cosine" /\ Work(t, Unused, "idle")
        /\ pc' = [pc EXCEPT ![t] = "idle"]
        /\ answer' = [answer EXCEPT ![t] = [kind |-> "raised"]]
        /\ UNCHANGED <<store, stats, counter, touched, now, received, clears>>
    BY DEF CosineRaises, Reply, Work, cache
  <1>2. ThreadsInv
    BY DEF SearchInv
  <1>3. ServedFresh' /\ DOMAIN answer' = Thread
    BY <1>1, AnswerFresh
  <1>4. ThreadsInv'
    BY <1>1, <1>2, <1>3, WorkThreads DEF ThreadsInv, JobOK
  <1>5. Cardinality(Reporting) \in Nat /\ Cardinality(Busy) \in Nat
    BY <1>1, <1>2, WorkCounts
  <1>6. /\ InReport("idle") = 0 /\ InReport(pc[t]) = 0
        /\ InWork("idle") = 0 /\ InWork(pc[t]) = 1
    BY <1>1 DEF InReport, InWork
  <1>7. Agree(stats, counter, clears, received,
              Cardinality(Reporting), Cardinality(Busy))
    BY AgreeNow DEF SearchInv
  <1>8. TakenOver(t, "idle")
    BY <1>1, <1>2, <1>5, <1>6, <1>7 DEF TakenOver, Agree, ThreadsInv, Counts
  <1>9. CountersAgree'
    BY <1>1, <1>2, <1>8, CountStep
  <1>10. QED
    BY <1>1, <1>3, <1>4, <1>9, SameCache DEF SearchInv

\* The second critical section: the entry goes to the end, the least recently used
\* one leaves a full cache, and the decorator counts the miss.
LEMMA InsertStep ==
  ASSUME SearchInv, NEW t \in Thread, InsertResult(t)
  PROVE  SearchInv'
  <1> DEFINE j == job[t]
  <1>1. /\ pc[t] = "insert" /\ Insert(KeyOf(j), j.value, j.done)
        /\ Work(t, j, "report") /\ pc' = [pc EXCEPT ![t] = "report"]
        /\ stats' = [stats EXCEPT !.misses = @ + 1] /\ counter' = counter
        /\ UNCHANGED <<now, answer, received, clears>>
        /\ ThreadsInv /\ CacheInv
    BY DEF InsertResult, Insert, Work, SearchInv
  <1>2. j.done \in Nat /\ JobOK("report", j)
    BY <1>1 DEF ThreadsInv, JobOK
  <1>3. CacheInv'
    BY <1>1, <1>2, InsertCache
  <1>4. /\ stats' \in Counts
        /\ stats'.hits = stats.hits /\ stats'.misses = stats.misses + 1
    BY <1>1 DEF ThreadsInv, Counts
  <1>5. ThreadsInv'
    BY <1>1, <1>2, <1>4, WorkThreads DEF ThreadsInv
  <1>6. ServedFresh'
    BY <1>1 DEF SearchInv, ServedFresh
  <1>7. Cardinality(Reporting) \in Nat /\ Cardinality(Busy) \in Nat
    BY <1>1, WorkCounts
  <1>8. /\ InReport("report") = 1 /\ InReport(pc[t]) = 0
        /\ InWork("report") = 0 /\ InWork(pc[t]) = 1
    BY <1>1 DEF InReport, InWork
  <1>9. Agree(stats, counter, clears, received,
              Cardinality(Reporting), Cardinality(Busy))
    BY AgreeNow DEF SearchInv
  <1>10. TakenOver(t, "report")
    BY <1>1, <1>4, <1>7, <1>8, <1>9 DEF TakenOver, Agree, ThreadsInv, Counts
  <1>11. CountersAgree'
    BY <1>1, <1>10, CountStep
  <1>12. QED
    BY <1>3, <1>5, <1>6, <1>11 DEF SearchInv

\* The metrics count the miss that the decorator has counted before.
LEMMA ReportStep ==
  ASSUME SearchInv, NEW t \in Thread, ReportMiss(t)
  PROVE  SearchInv'
  <1>1. /\ pc[t] = "report" /\ Work(t, Unused, "idle")
        /\ pc' = [pc EXCEPT ![t] = "idle"]
        /\ answer' = [answer EXCEPT ![t] = [kind |-> "miss"]]
        /\ counter' = [counter EXCEPT !.misses = @ + 1]
        /\ UNCHANGED <<store, stats, touched, now, received, clears>>
        /\ ThreadsInv
    BY DEF ReportMiss, CountMiss, Reply, Work, SearchInv
  <1>2. ServedFresh' /\ DOMAIN answer' = Thread
    BY <1>1, AnswerFresh
  <1>3. /\ counter' \in Counts
        /\ counter'.hits = counter.hits /\ counter'.misses = counter.misses + 1
    BY <1>1 DEF ThreadsInv, Counts
  <1>4. ThreadsInv'
    BY <1>1, <1>2, <1>3, WorkThreads DEF ThreadsInv, JobOK
  <1>5. Cardinality(Reporting) \in Nat /\ Cardinality(Busy) \in Nat
    BY <1>1, WorkCounts
  <1>6. /\ InReport("idle") = 0 /\ InReport(pc[t]) = 1
        /\ InWork("idle") = 0 /\ InWork(pc[t]) = 0
    BY <1>1 DEF InReport, InWork
  <1>7. Agree(stats, counter, clears, received,
              Cardinality(Reporting), Cardinality(Busy))
    BY AgreeNow DEF SearchInv
  <1>8. TakenOver(t, "idle")
    BY <1>1, <1>3, <1>5, <1>6, <1>7 DEF TakenOver, Agree, ThreadsInv, Counts
  <1>9. CountersAgree'
    BY <1>1, <1>8, CountStep
  <1>10. QED
    BY <1>1, <1>2, <1>4, <1>9, SameCache DEF SearchInv

\* A result is computed, at the present time.
LEMMA ComputedStep ==
  ASSUME SearchInv, NEW t \in Thread, pc[t] \in Working, NEW new,
         new.done = now, "done" \in DOMAIN new, Work(t, new, "insert"),
         UNCHANGED <<cache, now, answer, received, clears>>
  PROVE  SearchInv'
  <1>1. JobOK("insert", new)
    BY DEF JobOK, SearchInv, ThreadsInv
  <1>2. QED
    BY <1>1, QuietStep DEF Working

\* The steps that rank, load and predict.
LEMMA RankStep ==
  ASSUME SearchInv, NEW t \in Thread,
         \/ CosineSearch(t) \/ Count(t) \/ DenseRank(t) \/ FuseRankings(t)
         \/ EnsureLoaded(t) \/ Load(t) \/ Predict(t)
  PROVE  SearchInv'
  <1> DEFINE j == job[t]
  <1>1. /\ pc[t] \in Working \ {"lookup", "insert"} /\ "done" \in DOMAIN j
    BY DEF SearchInv, ThreadsInv, JobOK, Working, CosineSearch, Count, DenseRank,
           FuseRankings, EnsureLoaded, Load, Predict
  <1>2. ASSUME NEW new, DOMAIN new = DOMAIN j,
               NEW label \in Working \ {"lookup", "insert"}, Work(t, new, label),
               UNCHANGED <<cache, now, answer, received, clears>>
        PROVE  SearchInv'
    <2>1. JobOK(label, new)
      BY <1>1, <1>2 DEF JobOK, Working
    <2>2. QED
      BY <1>1, <1>2, <2>1, QuietStep
  <1>3. ASSUME NEW value, Computed(t, value)
        PROVE  SearchInv'
    <2> DEFINE new == [j EXCEPT !.value = value, !.done = now, !.dense = <<>>,
                                !.fused = <<>>]
    <2>1. Work(t, new, "insert") /\ UNCHANGED <<cache, now, answer, received, clears>>
      BY <1>3 DEF Computed, Goto
    <2>2. new.done = now /\ "done" \in DOMAIN new
      BY <1>1
    <2> HIDE DEF new
    <2>3. QED
      BY <1>1, <2>1, <2>2, ComputedStep
  <1>4. CASE CosineSearch(t)
    BY <1>3, <1>4 DEF CosineSearch
  <1>5. CASE Count(t)
    BY <1>2, <1>5 DEF Count, Goto, Working
  <1>6. CASE DenseRank(t)
    <2>1. PICK d : Goto(t, [j EXCEPT !.dense = d], "fuse")
      BY <1>6 DEF DenseRank
    <2>2. DOMAIN [j EXCEPT !.dense = d] = DOMAIN j
      OBVIOUS
    <2>3. QED
      BY <1>2, <2>1, <2>2 DEF Goto, Working
  <1>7. CASE FuseRankings(t)
    <2>1. \/ \E value : Computed(t, value)
          \/ \E fused : Goto(t, [j EXCEPT !.fused = fused], "rerank")
      BY <1>7 DEF FuseRankings
    <2>2. ASSUME NEW fused, Goto(t, [j EXCEPT !.fused = fused], "rerank")
          PROVE  SearchInv'
      <3>1. DOMAIN [j EXCEPT !.fused = fused] = DOMAIN j
        OBVIOUS
      <3>2. QED
        BY <1>2, <2>2, <3>1 DEF Goto, Working
    <2>3. QED
      BY <1>3, <2>1, <2>2
  <1>8. CASE EnsureLoaded(t)
    <2>1. \/ \E value : Computed(t, value)
          \/ Goto(t, j, "predict")
          \/ Goto(t, j, "load")
      BY <1>8 DEF EnsureLoaded, Unavailable
    <2>2. QED
      BY <1>2, <1>3, <2>1 DEF Goto, Working
  <1>9. CASE Load(t)
    <2>1. UNCHANGED <<cache, now, answer, received, clears>>
      BY <1>9 DEF Load
    <2>2. CASE Work(t, j, "predict")
      BY <1>2, <2>1, <2>2 DEF Working
    <2>3. ASSUME NEW value,
                 Work(t, [j EXCEPT !.value = value, !.done = now, !.dense = <<>>,
                                   !.fused = <<>>], "insert")
          PROVE  SearchInv'
      <3> DEFINE new == [j EXCEPT !.value = value, !.done = now, !.dense = <<>>,
                                  !.fused = <<>>]
      <3>1. new.done = now /\ "done" \in DOMAIN new /\ Work(t, new, "insert")
        BY <1>1, <2>3
      <3> HIDE DEF new
      <3>2. QED
        BY <1>1, <2>1, <3>1, ComputedStep
    <2>4. QED
      BY <1>9, <2>2, <2>3 DEF Load
  <1>10. CASE Predict(t)
    BY <1>3, <1>10 DEF Predict, Unavailable
  <1>11. QED
    BY <1>4, <1>5, <1>6, <1>7, <1>8, <1>9, <1>10

\* cache_clear empties the cache and the decorator's counts.
LEMMA ClearStep ==
  ASSUME SearchInv, CacheClear
  PROVE  SearchInv'
  <1>1. /\ store' = <<>> /\ stats' = None /\ clears' = clears + 1
        /\ UNCHANGED <<counter, touched, now, pc, job, answer, received>>
        /\ ThreadsInv /\ CacheInv
    BY DEF CacheClear, Clear, SearchInv
  <1>2. <<>> \in Seq(Range(<<>>)) /\ Len(<<>>) = 0
    BY EmptySeq
  <1>3. CacheInv'
    BY <1>1, <1>2, CacheAssumption DEF CacheInv, Ordered, Expiry
  <1>4. ThreadsInv'
    BY <1>1 DEF ThreadsInv, Counts, None
  <1>5. ServedFresh'
    BY <1>1 DEF SearchInv, ServedFresh
  <1>6. Agree(stats, counter, clears, received,
              Cardinality(Reporting), Cardinality(Busy))
    BY AgreeNow DEF SearchInv
  <1>7. Agree(stats', counter', clears', received',
              Cardinality(Reporting), Cardinality(Busy))
    BY <1>1, <1>6 DEF Agree, ThreadsInv, Counts, None
  <1>8. CountersAgree'
    BY <1>1, <1>7 DEF CountersAgree, Agree, Reporting, Busy
  <1>9. QED
    BY <1>3, <1>4, <1>5, <1>8 DEF SearchInv

\* The clock, and steps that change nothing.
LEMMA TickStep ==
  ASSUME SearchInv, UNCHANGED <<cache, pc, job, answer, received, clears>>,
         now' \in Nat
  PROVE  SearchInv'
  <1>1. CacheInv'
    BY SameCache DEF SearchInv, cache
  <1>2. ThreadsInv'
    BY DEF SearchInv, ThreadsInv, cache
  <1>3. ServedFresh' /\ CountersAgree'
    BY DEF SearchInv, ServedFresh, CountersAgree, cache
  <1>4. QED
    BY <1>1, <1>2, <1>3 DEF SearchInv

\* The empty cache and idle threads.
LEMMA InitSearch == Init => SearchInv
  <1> SUFFICES ASSUME Init PROVE SearchInv
    OBVIOUS
  <1>1. /\ store = <<>> /\ touched = <<>> /\ stats = None /\ counter = None
        /\ now = 0 /\ received = 0 /\ clears = 0
        /\ pc = [t \in Thread |-> "idle"] /\ job = [t \in Thread |-> Unused]
        /\ answer = [t \in Thread |-> [kind |-> "none"]]
    BY DEF Init, CacheInit
  <1>2. <<>> \in Seq(Range(<<>>)) /\ Len(<<>>) = 0
    BY EmptySeq
  <1>3. CacheInv
    BY <1>1, <1>2, CacheAssumption DEF CacheInv, Ordered, Expiry
  <1>4. ThreadsInv
    BY <1>1 DEF ThreadsInv, Counts, None, JobOK
  <1>5. ServedFresh
    BY <1>1 DEF ServedFresh
  <1>6. Reporting = {} /\ Busy = {}
    BY <1>1 DEF Reporting, Busy
  <1>7. Cardinality(Reporting) = 0 /\ Cardinality(Busy) = 0
    BY <1>6, FS_EmptySet
  <1>8. Agree(stats, counter, clears, received,
              Cardinality(Reporting), Cardinality(Busy))
    BY <1>1, <1>7 DEF Agree, None
  <1>9. QED
    BY <1>3, <1>4, <1>5, <1>8, AgreeNow DEF SearchInv

\* Every step of a thread, of the clock and of an administrator.
LEMMA NextSearch == SearchInv /\ [Next]_vars => SearchInv'
  <1> SUFFICES ASSUME SearchInv, [Next]_vars PROVE SearchInv'
    OBVIOUS
  <1>1. ASSUME NEW t \in Thread, SearchStep(t) PROVE SearchInv'
    BY <1>1, LookupStep, RaisesStep, InsertStep, ReportStep, RankStep
       DEF SearchStep
  <1>2. CASE Tick
    <2>1. now' \in Nat
      BY <1>2 DEF Tick, SearchInv, ThreadsInv
    <2>2. QED
      BY <1>2, <2>1, TickStep DEF Tick
  <1>3. CASE UNCHANGED vars
    BY <1>3, TickStep DEF vars, SearchInv, ThreadsInv
  <1>4. QED
    BY <1>1, <1>2, <1>3, ReceiveStep, ClearStep DEF Next
-----------------------------------------------------------------------------
\* The result cache, the threads and the counters, however the threads interleave.
THEOREM SearchInvariance == Spec => []SearchInv
  BY InitSearch, NextSearch, PTL DEF Spec

\* cached() never holds more than maxsize entries, nor two for one key.
THEOREM CacheStaysBounded == Spec => []CacheBounded
  <1>1. SearchInv => CacheBounded
    <2> SUFFICES ASSUME SearchInv PROVE CacheBounded
      OBVIOUS
    <2>1. Ordered(store, touched) /\ Len(store) <= MaxSize
      BY DEF SearchInv, CacheInv
    <2>2. DOMAIN store = 1..Len(store)
      BY <2>1, SeqOverRange DEF Ordered
    <2>3. \A i, j \in 1..Len(store) : store[i].key = store[j].key => i = j
      BY <2>1, OrderedKeys
    <2>4. QED
      BY <2>1, <2>2, <2>3 DEF CacheBounded, IsInjective, Keys
  <1>2. QED
    BY <1>1, SearchInvariance, PTL

\* The entries stand in the order of their last use, so that popitem evicts the
\* least recently used one, also after two threads computed the same key.
THEOREM EvictionIsLru == Spec => []LruOrder
  <1>1. SearchInv => LruOrder
    <2> SUFFICES ASSUME SearchInv, NEW i \in DOMAIN store, NEW j \in DOMAIN store,
                        i < j
                 PROVE  Position(touched, store[i].key)
                          < Position(touched, store[j].key)
      BY DEF LruOrder
    <2>1. Ordered(store, touched)
      BY DEF SearchInv, CacheInv
    <2>2. DOMAIN store = 1..Len(store) /\ DOMAIN touched = 1..Len(touched)
      BY <2>1, SeqOverRange DEF Ordered
    <2>3. ASSUME NEW k \in DOMAIN store
          PROVE  /\ Position(touched, store[k].key) \in 1..Len(touched)
                 /\ touched[Position(touched, store[k].key)] = store[k].key
      <3>1. \E p \in DOMAIN touched : touched[p] = store[k].key
        BY <2>1, <2>2 DEF Ordered
      <3>2. QED
        BY <2>2, <3>1 DEF Position
    <2>4. QED
      BY <2>1, <2>2, <2>3 DEF Ordered
  <1>2. QED
    BY <1>1, SearchInvariance, PTL

\* A cached answer is younger than the time to live at the time its request read
\* the clock.
THEOREM HitsAreFresh == Spec => []ServedFresh
  BY SearchInvariance, PTL DEF SearchInv

\* cache_info() and /ai/stats agree up to the threads between the two counts, and
\* count no more than was asked.
THEOREM CountersKeepAgreeing == Spec => []CountersAgree
  BY SearchInvariance, PTL DEF SearchInv
-----------------------------------------------------------------------------
(***************************************************************************)
(* What the threads carry and the cache keeps.                             *)
(***************************************************************************)
\* Fused, with the wiring of the reranker as a parameter: it never changes.
FusedBy(wired, j, dense) ==
  LET size == RerankedSize(j.limit)
      pool == IF wired THEN Max({PoolSize, size}) ELSE PoolSize
      bm   == Top(Bm25Order[j.query], pool)
  IN  IF bm = <<>> THEN dense ELSE IF dense = <<>> THEN bm ELSE Fuse(bm, dense)

JobFields == {"query", "limit", "at", "dense", "fused", "value", "done"}

\* What a thread at a label has found so far.
JobPage(wired, label, j) ==
  /\ label # "idle" => Asked(j) /\ DOMAIN j = JobFields
  /\ label \in Working => Ranking(j.dense)
  /\ label \in {"rerank", "load", "predict"} => j.fused = FusedBy(wired, j, j.dense)
  /\ label \in {"insert", "report"} => FullPage(KeyOf(j), j.value)

PagesIn(s) == \A e \in Range(s) : FullPage(e.key, e.value)

PageInv ==
  /\ RerankerOK
  /\ PagesIn(store)
  /\ \A t \in Thread : JobPage(reranker.wired, pc[t], job[t])

\* FusedBy is Fused.
LEMMA FusedNow ==
  ASSUME NEW j, NEW dense
  PROVE  Fused(j, dense) = FusedBy(reranker.wired, j, dense)
  BY DEF Fused, FusedBy, Bm25Rank, Pool

\* What a critical section leaves in the cache was there before it.
LEMMA WithoutEntries ==
  ASSUME CacheInv, NEW key
  PROVE  /\ Without(key) \in Seq(Range(store))
         /\ Has(key) => Entry(key) \in Range(store)
<1>1. store \in Seq(Range(store))
  BY DEF CacheInv, Ordered
<1>2. DOMAIN store = 1..Len(store)
  BY <1>1
<1>3. CASE ~Has(key)
  BY <1>1, <1>3 DEF Without
<1>4. CASE Has(key)
  <2>1. Slot(key) \in 1..Len(store)
    BY <1>4, WithoutFacts
  <2>2. Entry(key) \in Range(store)
    BY <1>2, <2>1 DEF Entry, Range
  <2>3. Without(key) \in Seq(Range(store))
    BY <1>1, <1>4, <2>1, RemoveAtFacts DEF Without
  <2> QED
    BY <2>2, <2>3
<1> QED
  BY <1>3, <1>4

\* A lookup adds no page to the cache, and an insert one.
LEMMA EntriesStep ==
  ASSUME CacheInv, PagesIn(store), NEW key, NEW value, NEW at,
         \/ Hit(key, at) \/ Miss(key, at)
         \/ Insert(key, value, at) /\ FullPage(key, value)
  PROVE  PagesIn(store')
<1>1. PICK S : S = Range(store)
  OBVIOUS
<1>2. \A e \in S : FullPage(e.key, e.value)
  BY <1>1 DEF PagesIn
<1>3. Without(key) \in Seq(S) /\ (Has(key) => Entry(key) \in S)
  BY <1>1, WithoutEntries
<1>4. CASE Hit(key, at)
  <2>1. store' \in Seq(S)
    BY <1>3, <1>4, AppendProperties DEF Hit
  <2> QED
    BY <1>2, <2>1, RangeOfSeq DEF PagesIn
<1>5. CASE Miss(key, at)
  <2>1. store' \in Seq(S)
    BY <1>3, <1>5 DEF Miss
  <2> QED
    BY <1>2, <2>1, RangeOfSeq DEF PagesIn
<1>6. CASE Insert(key, value, at) /\ FullPage(key, value)
  <2>1. PICK e : e = [key |-> key, value |-> value, done |-> at, expires |-> at + TTL]
    OBVIOUS
  <2>2. FullPage(e.key, e.value)
    BY <1>6, <2>1
  <2>3. PICK all : all = Append(Without(key), e)
    OBVIOUS
  <2>4. store' = SubSeq(all, Max({1, Len(all) - MaxSize + 1}), Len(all))
    BY <1>6, <2>1, <2>3 DEF Insert
  <2>5. PICK T : T = S \cup {e}
    OBVIOUS
  <2>6. all \in Seq(T) /\ Len(all) \in Nat
    BY <1>3, <2>3, <2>5, SeqMonotonic, AppendProperties, LenProperties
  <2>7. PICK m \in Nat \ {0} : m = Max({1, Len(all) - MaxSize + 1})
    <3>1. PICK low \in Int : low = Len(all) - MaxSize + 1
      BY <2>6, CacheAssumption
    <3>2. Max({1, low}) = IF low <= 1 THEN 1 ELSE low
      BY LargerOfTwo
    <3> QED
      BY <3>1, <3>2
  <2>8. store' \in Seq(T)
    <3>1. PICK n \in Nat : n = Len(all)
      BY <2>6
    <3>2. \A k \in m..n : all[k] \in T
      BY <2>6, <3>1, ElementOfSeq
    <3>3. SubSeq(all, m, n) \in Seq(T)
      BY <3>2, SubSeqProperties
    <3> QED
      BY <2>4, <2>7, <3>1, <3>3
  <2>9. \A x \in T : FullPage(x.key, x.value)
    BY <1>2, <2>2, <2>5
  <2> QED
    BY <2>8, <2>9, RangeOfSeq DEF PagesIn
<1> QED
  BY <1>4, <1>5, <1>6

\* A step of one thread, seen by the others.
LEMMA WorkPages ==
  ASSUME ThreadsInv, PageInv, NEW t \in Thread, NEW new, NEW label,
         Work(t, new, label), reranker' \in [wired : BOOLEAN, model : BOOLEAN,
                                             failed : BOOLEAN],
         reranker'.wired = reranker.wired, PagesIn(store'),
         JobPage(reranker.wired, label, new)
  PROVE  PageInv'
<1>1. PICK w : w = reranker.wired /\ w = reranker'.wired
  OBVIOUS
<1>2. /\ pc' = [pc EXCEPT ![t] = label] /\ job' = [job EXCEPT ![t] = new]
      /\ DOMAIN pc = Thread /\ DOMAIN job = Thread
  BY DEF Work, ThreadsInv
<1>3. ASSUME NEW x \in Thread PROVE JobPage(w, pc'[x], job'[x])
  <2>1. CASE x = t
    BY <1>1, <1>2, <2>1
  <2>2. CASE x # t
    BY <1>1, <1>2, <2>2 DEF PageInv
  <2> QED
    BY <2>1, <2>2
<1> QED
  BY <1>1, <1>3 DEF PageInv, RerankerOK

\* What the job of a thread at work is.
LEMMA JobNow ==
  ASSUME PageInv, NEW t \in Thread, pc[t] # "idle"
  PROVE  /\ Asked(job[t]) /\ DOMAIN job[t] = JobFields
         /\ pc[t] \in Working => Ranking(job[t].dense)
         /\ pc[t] \in {"rerank", "load", "predict"} =>
              job[t].fused = Fused(job[t], job[t].dense)
         /\ pc[t] \in {"insert", "report"} => FullPage(KeyOf(job[t]), job[t].value)
  BY FusedNow DEF PageInv, JobPage

\* A job with a full page as its result.
LEMMA PageJob ==
  ASSUME NEW j, Asked(j), DOMAIN j = JobFields, NEW value, NEW done, NEW wired,
         FullPage(KeyOf(j), value)
  PROVE  JobPage(wired, "insert", [j EXCEPT !.value = value, !.done = done,
                                            !.dense = <<>>, !.fused = <<>>])
<1>1. PICK new : new = [j EXCEPT !.value = value, !.done = done, !.dense = <<>>,
                                 !.fused = <<>>]
  OBVIOUS
<1>2. /\ DOMAIN new = JobFields /\ new.value = value /\ new.dense = <<>>
      /\ new.query = j.query /\ new.limit = j.limit
  BY <1>1 DEF JobFields
<1>3. Asked(new) /\ KeyOf(new) = KeyOf(j)
  BY <1>2 DEF Asked, KeyOf
<1>4. JobPage(wired, "insert", new)
  BY <1>2, <1>3, EmptyRanking DEF JobPage
<1> QED
  BY <1>1, <1>4

\* What Qdrant finds is a ranking.
LEMMA NearestRanks ==
  ASSUME NEW j, Asked(j), PageInv
  PROVE  Ranking(Nearest(j.query, Pool(j.limit)))
<1>1. PICK n \in Nat : n = Pool(j.limit)
  BY Bm25Facts DEF PageInv
<1>2. PICK kept : kept = Keep(DenseOrder[j.query], qdrant.points)
  OBVIOUS
<1>3. Ranking(kept)
  <2>1. Ranking(DenseOrder[j.query])
    BY AskedFacts
  <2>2. PICK D : Lists(kept, D)
    BY <1>2, <2>1, ListsParts DEF Ranking
  <2> QED
    BY <2>2 DEF Ranking, Lists
<1> QED
  BY <1>1, <1>2, <1>3, ListsParts DEF Nearest, Ranking

\* A result that was computed is a full page.
LEMMA ComputedPages ==
  ASSUME SearchInv, PageInv, NEW t \in Thread, pc[t] \in Working, NEW value,
         FullPage(KeyOf(job[t]), value), Computed(t, value)
  PROVE  PageInv'
<1>1. PICK j : j = job[t]
  OBVIOUS
<1>2. Asked(j) /\ DOMAIN j = JobFields
  BY <1>1, JobNow DEF Working
<1>3. PICK new : new = [j EXCEPT !.value = value, !.done = now, !.dense = <<>>,
                                 !.fused = <<>>]
  OBVIOUS
<1>4. /\ Work(t, new, "insert") /\ reranker' = reranker /\ store' = store
  BY <1>1, <1>3 DEF Computed, Goto, services, cache
<1>5. JobPage(reranker.wired, "insert", new)
  BY <1>1, <1>2, <1>3, PageJob
<1> QED
  BY <1>4, <1>5, WorkPages DEF PageInv, RerankerOK, SearchInv

\* The steps that rank a query without the reranker.
LEMMA RankPages ==
  ASSUME SearchInv, PageInv, NEW t \in Thread,
         CosineSearch(t) \/ Count(t) \/ DenseRank(t)
  PROVE  PageInv'
<1>1. PICK j : j = job[t]
  OBVIOUS
<1>2. pc[t] \in {"cosine", "count", "dense"}
  BY DEF CosineSearch, Count, DenseRank
<1>3. pc[t] \in Working /\ Asked(j) /\ DOMAIN j = JobFields /\ Ranking(j.dense)
  BY <1>1, <1>2, JobNow DEF Working
<1>4. ASSUME NEW new, NEW label \in {"dense", "fuse"}, Goto(t, new, label),
             Asked(new), DOMAIN new = JobFields, Ranking(new.dense)
      PROVE  PageInv'
  <2>1. Work(t, new, label) /\ reranker' = reranker /\ store' = store
    BY <1>4 DEF Goto, services, cache
  <2>2. JobPage(reranker.wired, label, new)
    BY <1>4 DEF JobPage
  <2> QED
    BY <2>1, <2>2, WorkPages DEF PageInv, RerankerOK, SearchInv
<1>5. CASE CosineSearch(t)
  BY <1>1, <1>3, <1>5, CosinePage, ComputedPages DEF CosineSearch
<1>6. CASE Count(t)
  BY <1>1, <1>3, <1>4, <1>6 DEF Count
<1>7. CASE DenseRank(t)
  <2>1. PICK d \in {Nearest(j.query, Pool(j.limit)), <<>>} :
          Goto(t, [j EXCEPT !.dense = d], "fuse")
    BY <1>1, <1>7 DEF DenseRank
  <2>2. Ranking(d)
    <3>1. Ranking(Nearest(j.query, Pool(j.limit)))
      BY <1>3, NearestRanks
    <3> QED
      BY <2>1, <3>1, EmptyRanking
  <2>3. PICK new : new = [j EXCEPT !.dense = d]
    OBVIOUS
  <2>4. /\ DOMAIN new = JobFields /\ new.dense = d
        /\ new.query = j.query /\ new.limit = j.limit
    BY <1>3, <2>3 DEF JobFields
  <2>5. Asked(new)
    BY <1>3, <2>4 DEF Asked
  <2> QED
    BY <1>4, <2>1, <2>2, <2>3, <2>4, <2>5
<1> QED
  BY <1>5, <1>6, <1>7

\* Fusing: without a candidate for the reranker, the page is made at once.
LEMMA FusePages ==
  ASSUME SearchInv, PageInv, NEW t \in Thread, FuseRankings(t)
  PROVE  PageInv'
<1>1. PICK j : j = job[t]
  OBVIOUS
<1>2. pc[t] = "fuse" /\ pc[t] \in Working
  BY DEF FuseRankings, Working
<1>3. Asked(j) /\ DOMAIN j = JobFields /\ Ranking(j.dense)
  BY <1>1, <1>2, JobNow
<1>4. PICK fused : fused = Fused(j, j.dense)
  OBVIOUS
<1>5. PICK new : new = [j EXCEPT !.fused = fused]
  OBVIOUS
<1>6. /\ DOMAIN new = JobFields /\ new.dense = j.dense /\ new.fused = fused
      /\ new.query = j.query /\ new.limit = j.limit
  BY <1>3, <1>5 DEF JobFields
<1>7. Asked(new) /\ Ranking(new.dense) /\ KeyOf(new) = KeyOf(j)
  BY <1>3, <1>6 DEF Asked, KeyOf
<1>8. new.fused = Fused(new, new.dense)
  BY <1>4, <1>6 DEF Fused, Bm25Rank
<1>9. /\ FullPage(KeyOf(new), ToResults(new.fused, new.limit))
      /\ RerankPairs(new) = <<>> =>
           FullPage(KeyOf(new), ToResults(Top(new.fused, new.limit), new.limit))
  BY <1>7, <1>8, HybridPages DEF PageInv
<1>10. /\ FullPage(KeyOf(j), ToResults(fused, j.limit))
       /\ RerankPairs(new) = <<>> =>
            FullPage(KeyOf(j), ToResults(Top(fused, j.limit), j.limit))
  BY <1>6, <1>7, <1>9
<1>11. \/ Computed(t, ToResults(fused, j.limit))
       \/ /\ RerankPairs(new) = <<>>
          /\ Computed(t, ToResults(Top(fused, j.limit), j.limit))
       \/ Goto(t, new, "rerank")
  BY <1>1, <1>4, <1>5 DEF FuseRankings
<1>12. CASE Goto(t, new, "rerank")
  <2>1. Work(t, new, "rerank") /\ reranker' = reranker /\ store' = store
    BY <1>12 DEF Goto, services, cache
  <2>2. new.fused = FusedBy(reranker.wired, new, new.dense)
    BY <1>8, FusedNow
  <2>3. JobPage(reranker.wired, "rerank", new)
    BY <1>6, <1>7, <2>2 DEF JobPage
  <2> QED
    BY <2>1, <2>3, WorkPages DEF PageInv, RerankerOK, SearchInv
<1> QED
  BY <1>1, <1>2, <1>10, <1>11, <1>12, ComputedPages

\* The reranker: its model is there, fails to load, or fails to predict.
LEMMA RerankPages ==
  ASSUME SearchInv, PageInv, NEW t \in Thread,
         EnsureLoaded(t) \/ Load(t) \/ Predict(t)
  PROVE  PageInv'
<1>1. PICK j : j = job[t]
  OBVIOUS
<1>2. pc[t] \in {"rerank", "load", "predict"} /\ pc[t] \in Working
  BY DEF EnsureLoaded, Load, Predict, Working
<1>3. /\ Asked(j) /\ DOMAIN j = JobFields /\ Ranking(j.dense)
      /\ j.fused = Fused(j, j.dense) /\ RerankerOK
  BY <1>1, <1>2, JobNow DEF PageInv
<1>4. /\ FullPage(KeyOf(j), ToResults(j.fused, j.limit))
      /\ FullPage(KeyOf(j), ToResults(Reranked(j), j.limit))
  BY <1>3, HybridPages
<1>5. ASSUME NEW label \in {"load", "predict"}
      PROVE  JobPage(reranker.wired, label, j)
  <2>1. j.fused = FusedBy(reranker.wired, j, j.dense)
    BY <1>3, FusedNow
  <2> QED
    BY <1>3, <1>5, <2>1 DEF JobPage
<1>6. CASE EnsureLoaded(t)
  <2>1. ASSUME NEW label \in {"load", "predict"}, Goto(t, j, label)
        PROVE  PageInv'
    <3>1. Work(t, j, label) /\ reranker' = reranker /\ store' = store
      BY <2>1 DEF Goto, services, cache
    <3> QED
      BY <1>5, <3>1, WorkPages DEF PageInv, RerankerOK, SearchInv
  <2>2. \/ \E label \in {"load", "predict"} : Goto(t, j, label)
        \/ Computed(t, ToResults(j.fused, j.limit))
    BY <1>1, <1>6 DEF EnsureLoaded, Unavailable
  <2> QED
    BY <1>1, <1>2, <1>4, <2>1, <2>2, ComputedPages
<1>7. CASE Load(t)
  <2>1. /\ store' = store /\ RerankerOK
        /\ \/ reranker' = [reranker EXCEPT !.model = TRUE]
           \/ reranker' = [reranker EXCEPT !.failed = TRUE]
    BY <1>3, <1>7 DEF Load, cache
  <2>2. /\ reranker' \in [wired : BOOLEAN, model : BOOLEAN, failed : BOOLEAN]
        /\ reranker'.wired = reranker.wired
    BY <2>1 DEF RerankerOK
  <2>3. PagesIn(store')
    BY <2>1 DEF PageInv
  <2>4. PICK new : new = [j EXCEPT !.value = ToResults(j.fused, j.limit),
                                   !.done = now, !.dense = <<>>, !.fused = <<>>]
    OBVIOUS
  <2>5. JobPage(reranker.wired, "insert", new)
    BY <1>3, <1>4, <2>4, PageJob
  <2>6. Work(t, j, "predict") \/ Work(t, new, "insert")
    BY <1>1, <1>7, <2>4 DEF Load
  <2>7. CASE Work(t, j, "predict")
    BY <1>5, <2>2, <2>3, <2>7, WorkPages DEF SearchInv
  <2>8. CASE Work(t, new, "insert")
    BY <2>2, <2>3, <2>5, <2>8, WorkPages DEF SearchInv
  <2> QED
    BY <2>6, <2>7, <2>8
<1>8. CASE Predict(t)
  <2>1. \/ Computed(t, ToResults(Reranked(j), j.limit))
        \/ Computed(t, ToResults(j.fused, j.limit))
    BY <1>1, <1>8 DEF Predict, Unavailable
  <2> QED
    BY <1>1, <1>2, <1>4, <2>1, ComputedPages
<1> QED
  BY <1>6, <1>7, <1>8

\* A new request asks for what the clamp leaves as it is.
LEMMA ReceivePages ==
  ASSUME SearchInv, PageInv, NEW t \in Thread, NEW r \in Requests, Receive(t, r)
  PROVE  PageInv'
<1>1. PICK new : new = NewJob(r)
  OBVIOUS
<1>2. Work(t, new, "lookup") /\ reranker' = reranker /\ store' = store
  BY <1>1 DEF Receive, services, cache
<1>3. Clamp(r.limit) = r.limit
  <2>1. PICK limit \in Nat \ {0} : limit = r.limit /\ limit <= MaxLimit
    BY SearchAssumption
  <2>2. Min({limit, MaxLimit}) = limit
    BY <2>1, Sizes, RankMin
  <2>3. Max({1, limit}) = limit
    BY <2>1, RankMax
  <2> QED
    BY <2>1, <2>2, <2>3 DEF Clamp
<1>4. /\ DOMAIN new = JobFields /\ new.dense = <<>>
      /\ new.query = r.query /\ new.limit = r.limit
  BY <1>1, <1>3 DEF NewJob, JobFields
<1>5. JobPage(reranker.wired, "lookup", new)
  BY <1>4, EmptyRanking DEF JobPage, Asked
<1> QED
  BY <1>2, <1>5, WorkPages DEF PageInv, RerankerOK, SearchInv

\* A thread that has answered carries nothing.
LEMMA IdleJob ==
  ASSUME NEW wired, NEW j
  PROVE  JobPage(wired, "idle", j)
  BY DEF JobPage, Working

\* The critical sections of the cache, and the answers.
LEMMA CachePages ==
  ASSUME SearchInv, PageInv, NEW t \in Thread,
         Lookup(t) \/ CosineRaises(t) \/ InsertResult(t) \/ ReportMiss(t)
  PROVE  PageInv'
<1>1. PICK j : j = job[t]
  OBVIOUS
<1>2. /\ reranker' = reranker /\ PagesIn(store) /\ CacheInv /\ ThreadsInv
      /\ reranker \in [wired : BOOLEAN, model : BOOLEAN, failed : BOOLEAN]
  BY DEF Lookup, CosineRaises, InsertResult, ReportMiss, services, PageInv,
         RerankerOK, SearchInv
<1>3. CASE Lookup(t)
  <2>1. pc[t] = "lookup"
    BY <1>3 DEF Lookup
  <2>2. Asked(j) /\ DOMAIN j = JobFields /\ Ranking(j.dense)
    BY <1>1, <2>1, JobNow DEF Working
  <2>3. ASSUME NEW label \in {"count", "cosine"}
        PROVE  JobPage(reranker.wired, label, j)
    BY <2>2, <2>3 DEF JobPage
  <2>4. \/ Hit(KeyOf(j), j.at) /\ Work(t, Unused, "idle")
        \/ Miss(KeyOf(j), j.at) /\ \E label \in {"count", "cosine"} : Work(t, j, label)
    BY <1>1, <1>3 DEF Lookup, Reply, Route
  <2>5. PagesIn(store')
    BY <1>2, <2>4, EntriesStep
  <2> QED
    BY <1>2, <2>3, <2>4, <2>5, IdleJob, WorkPages
<1>4. CASE CosineRaises(t) \/ ReportMiss(t)
  <2>1. Work(t, Unused, "idle") /\ store' = store
    BY <1>4 DEF CosineRaises, ReportMiss, Reply, CountMiss, cache
  <2> QED
    BY <1>2, <2>1, IdleJob, WorkPages
<1>5. CASE InsertResult(t)
  <2>1. /\ pc[t] = "insert" /\ Insert(KeyOf(j), j.value, j.done)
        /\ Work(t, j, "report")
    BY <1>1, <1>5 DEF InsertResult
  <2>2. Asked(j) /\ DOMAIN j = JobFields /\ FullPage(KeyOf(j), j.value)
    BY <1>1, <2>1, JobNow
  <2>3. PagesIn(store')
    BY <1>2, <2>1, <2>2, EntriesStep
  <2>4. JobPage(reranker.wired, "report", j)
    BY <2>2 DEF JobPage, Working
  <2> QED
    BY <1>2, <2>1, <2>3, <2>4, WorkPages
<1> QED
  BY <1>3, <1>4, <1>5

\* No thread works yet, and nothing is cached.
LEMMA InitPages == Init => PageInv
<1> SUFFICES ASSUME Init PROVE PageInv
  OBVIOUS
<1>1. store = <<>> /\ pc = [t \in Thread |-> "idle"] /\ RerankerOK
  BY DEF Init, CacheInit, RerankerOK
<1>2. PagesIn(store)
  BY <1>1, EmptyRanking DEF PagesIn
<1> QED
  BY <1>1, <1>2, IdleJob DEF PageInv

\* Every step of a thread, of the clock and of an administrator.
LEMMA NextPages == SearchInv /\ PageInv /\ [Next]_vars => PageInv'
<1> SUFFICES ASSUME SearchInv, PageInv, [Next]_vars PROVE PageInv'
  OBVIOUS
<1>1. ASSUME NEW t \in Thread, SearchStep(t) PROVE PageInv'
  BY <1>1, CachePages, RankPages, FusePages, RerankPages DEF SearchStep
<1>2. CASE Tick \/ UNCHANGED vars
  <2>1. UNCHANGED <<store, reranker, pc, job>>
    BY <1>2 DEF Tick, vars, cache, services
  <2> QED
    BY <2>1 DEF PageInv, RerankerOK
<1>3. CASE CacheClear
  <2>1. store' = <<>> /\ UNCHANGED <<reranker, pc, job>>
    BY <1>3 DEF CacheClear, Clear, services
  <2>2. PagesIn(<<>>)
    BY EmptyRanking DEF PagesIn
  <2> QED
    BY <2>1, <2>2 DEF PageInv, RerankerOK
<1> QED
  BY <1>1, <1>2, <1>3, ReceivePages DEF Next

\* Every page that the cache keeps and every page that a thread is about to return,
\* with what the threads carry on the way to it.
THEOREM PageInvariance == Spec => []PageInv
  BY InitPages, NextPages, SearchInvariance, PTL DEF Spec

\* /ai/search answers a query with words by a full page of the menu, however many foods
\* of older menus Qdrant has, whether Qdrant, the embedder and the reranker work or not,
\* and whichever of the threads computed the page.
THEOREM PagesStayFull == Spec => []PagesAreFull
<1>1. SearchInv /\ PageInv => PagesAreFull
  <2> SUFFICES ASSUME SearchInv, PageInv PROVE PagesAreFull
    OBVIOUS
  <2>1. \A i \in DOMAIN store : FullPage(store[i].key, store[i].value)
    BY DEF PageInv, PagesIn, Range
  <2>2. \A t \in Thread :
          pc[t] \in {"insert", "report"} => FullPage(KeyOf(job[t]), job[t].value)
    BY DEF PageInv, JobPage
  <2> QED
    BY <2>1, <2>2 DEF PagesAreFull
<1> QED
  BY <1>1, SearchInvariance, PageInvariance, PTL

\* _rrf_fuse never turns around two foods on whose order both rankings agree, and
\* loses none.
THEOREM FusionKeepsOrder == Spec => []FusionRespectsRankings
<1>1. PageInv => FusionRespectsRankings
  <2> SUFFICES ASSUME PageInv, NEW t \in Thread, pc[t] = "rerank",
                      NEW j, j = job[t]
               PROVE  /\ Range(j.fused) = Range(Bm25Rank(j)) \cup Range(j.dense)
                      /\ \A f, g \in Range(j.fused) :
                           /\ f # g
                           /\ f \in Range(Bm25Rank(j))
                           /\ g \in Range(Bm25Rank(j)) =>
                                Position(Bm25Rank(j), f) < Position(Bm25Rank(j), g)
                           /\ \/ j.dense = <<>>
                              \/ /\ f \in Range(j.dense)
                                 /\ g \in Range(j.dense) =>
                                      Position(j.dense, f) < Position(j.dense, g)
                           => Position(j.fused, f) < Position(j.fused, g)
    BY DEF FusionRespectsRankings
  <2>1. PICK bm, dense, fused : bm = Bm25Rank(j) /\ dense = j.dense /\ fused = j.fused
    OBVIOUS
  <2>2. Asked(j) /\ Ranking(dense) /\ RerankerOK /\ fused = Fused(j, dense)
    BY <2>1, JobNow DEF PageInv, Working
  <2>3. Ranking(bm) /\ Range(fused) = Range(bm) \cup Range(dense)
    BY <2>1, <2>2, Bm25Facts, FusedFacts
  <2>4. ASSUME NEW f \in Range(fused), NEW g \in Range(fused), f \in Range(bm),
               g \in Range(bm) => Position(bm, f) < Position(bm, g),
               \/ dense = <<>>
               \/ /\ f \in Range(dense)
                  /\ g \in Range(dense) => Position(dense, f) < Position(dense, g)
        PROVE  Position(fused, f) < Position(fused, g)
    <3>1. bm # <<>>
      BY <2>4, EmptyRanking
    <3>2. CASE dense = <<>>
      <4>1. fused = bm
        BY <2>1, <2>2, <3>1, <3>2 DEF Fused
      <4> QED
        BY <2>4, <4>1
    <3>3. CASE dense # <<>>
      <4>1. fused = Fuse(bm, dense)
        BY <2>1, <2>2, <3>1, <3>3 DEF Fused
      <4>2. g \in Met(bm, dense)
        BY <2>3, <2>4 DEF Met
      <4> QED
        BY <2>2, <2>3, <2>4, <3>3, <4>1, <4>2, BothBefore
    <3> QED
      BY <3>2, <3>3
  <2> QED
    BY <2>1, <2>3, <2>4
<1> QED
  BY <1>1, PageInvariance, PTL
=============================================================================
