---------------------------- MODULE ResultCache -----------------------------
(***************************************************************************)
(* obs/cache.py: the cached() decorator, a dictionary in the order of use  *)
(* with a time to live and a size limit, as the critical sections of its   *)
(* lock.  The wrapped function runs between two of them, outside of the    *)
(* lock.  Hits and misses are counted twice: by the decorator, for         *)
(* cache_info(), and by obs/metrics.py, for GET /ai/stats.                 *)
(***************************************************************************)
EXTENDS Integers, Sequences, SequencesExt, FiniteSets, FiniteSetsExt

CONSTANTS
  MaxSize,  \* the size limit
  TTL       \* how long an entry may be used

ASSUME CacheAssumption == MaxSize \in Nat \ {0} /\ TTL \in Nat

VARIABLES
  store,    \* the entries, the least recently used first
  stats,    \* hits and misses counted by the decorator
  counter,  \* hits and misses counted by the metrics
  touched   \* for the properties: the keys in the order of their last use

cache == <<store, stats, counter, touched>>

None == [hits |-> 0, misses |-> 0]

CacheInit == store = <<>> /\ stats = None /\ counter = None /\ touched = <<>>

Has(key) == \E i \in DOMAIN store : store[i].key = key

Slot(key) == CHOOSE i \in DOMAIN store : store[i].key = key

Entry(key) == store[Slot(key)]

Without(key) == IF Has(key) THEN RemoveAt(store, Slot(key)) ELSE store

Position(seq, x) == CHOOSE i \in DOMAIN seq : seq[i] = x

\* The key is now the one that was used last.
Touch(key) ==
  LET others == IF key \in Range(touched)
                THEN RemoveAt(touched, Position(touched, key)) ELSE touched
  IN  touched' = Append(others, key)

\* The first critical section, with the clock that was read before it.  An entry
\* that is used moves to the end; the metrics are told inside of the lock.
\* A mutant: a hit renews the entry.
HitRenews(key, at) ==
  /\ Has(key) /\ Entry(key).expires > at
  /\ store' = Append(Without(key), [Entry(key) EXCEPT !.expires = at + TTL])
  /\ stats' = [stats EXCEPT !.hits = @ + 1]
  /\ counter' = [counter EXCEPT !.hits = @ + 1]
  /\ Touch(key)

Hit(key, at) ==
  /\ Has(key) /\ Entry(key).expires > at
  /\ store' = Append(Without(key), Entry(key))
  /\ stats' = [stats EXCEPT !.hits = @ + 1]
  /\ counter' = [counter EXCEPT !.hits = @ + 1]
  /\ Touch(key)

\* No entry, or one that has expired and is dropped; nothing is counted yet.
Miss(key, at) ==
  /\ Has(key) => Entry(key).expires <= at
  /\ store' = Without(key)
  /\ UNCHANGED <<stats, counter, touched>>

\* The second critical section: the entry is new or replaces one that another
\* thread put there meanwhile, moves to the end, and the oldest entries go.
\* Mutants: an entry that is replaced keeps its place (a dictionary does that),
\* and a miss that only the metrics count.
InsertInPlace(key, value, done) ==
  LET new == [key |-> key, value |-> value, done |-> done,
              expires |-> done + TTL]
      all == IF Has(key)
             THEN [i \in DOMAIN store |->
                     IF store[i].key = key THEN new ELSE store[i]]
             ELSE Append(store, new)
  IN  /\ store' = SubSeq(all, Max({1, Len(all) - MaxSize + 1}), Len(all))
      /\ stats' = [stats EXCEPT !.misses = @ + 1]
      /\ Touch(key)
      /\ UNCHANGED counter

InsertUnbounded(key, value, done) ==
  /\ store' = Append(Without(key), [key |-> key, value |-> value, done |-> done,
                                    expires |-> done + TTL])
  /\ stats' = [stats EXCEPT !.misses = @ + 1]
  /\ Touch(key)
  /\ UNCHANGED counter

InsertUncounted(key, value, done) ==
  LET all == Append(Without(key), [key |-> key, value |-> value, done |-> done,
                                   expires |-> done + TTL])
  IN  /\ store' = SubSeq(all, Max({1, Len(all) - MaxSize + 1}), Len(all))
      /\ Touch(key)
      /\ UNCHANGED <<stats, counter>>

Insert(key, value, done) ==
  LET all == Append(Without(key), [key |-> key, value |-> value, done |-> done,
                                   expires |-> done + TTL])
  IN  /\ store' = SubSeq(all, Max({1, Len(all) - MaxSize + 1}), Len(all))
      /\ stats' = [stats EXCEPT !.misses = @ + 1]
      /\ Touch(key)
      /\ UNCHANGED counter

\* After the lock is released.
CountMiss ==
  /\ counter' = [counter EXCEPT !.misses = @ + 1]
  /\ UNCHANGED <<store, stats, touched>>

\* cache_clear: the entries and the decorator's counts, not those of the metrics.
Clear ==
  /\ store' = <<>>
  /\ stats' = None
  /\ UNCHANGED <<counter, touched>>
-----------------------------------------------------------------------------
Keys(s) == [i \in DOMAIN s |-> s[i].key]

\* The limit holds, and a key has one entry.
CacheBounded == Len(store) <= MaxSize /\ IsInjective(Keys(store))

\* The entries are in the order of their last use, so that the one that makes
\* room for a new one is the least recently used, also when two threads computed
\* the same key and the second insert finds the first.
LruOrder ==
  \A i, j \in DOMAIN store :
    i < j => Position(touched, store[i].key) < Position(touched, store[j].key)
=============================================================================
