---------------------------- MODULE SessionStore ----------------------------
(***************************************************************************)
(* The in-memory chat sessions of the AI service                           *)
(* (ai_service/src/fos_ai/services/session_store.py).  The store maps a    *)
(* session id to a ChatSession object; a turn that has fetched an object   *)
(* keeps its reference, so the object lives on and is changed outside of   *)
(* the store's lock, even after the store has dropped it.  Each operator   *)
(* below is one critical section of the store or one append to an object.  *)
(***************************************************************************)
EXTENDS Integers, Sequences, FiniteSets

CONSTANTS
  User,         \* user ids
  Session,      \* the session ids uuid4 can mint (enough for a behaviour)
  Message,      \* the messages of a conversation
  TTL,          \* ttl_seconds: a session idle for longer is expired
  MaxSessions,  \* max_sessions: create refuses when so many are stored
  MaxNow,       \* bound: the last moment of the clock
  NULL

ASSUME StoreAssumption ==
  /\ TTL \in Nat
  /\ MaxSessions \in Nat
  /\ MaxNow \in Nat
  /\ IsFiniteSet(Session)
  /\ NULL \notin Session

VARIABLES
  heap,    \* the ChatSession objects by id; NULL where no id was minted yet
  stored,  \* the ids that are keys of _sessions
  now      \* time.time()

sessions == <<heap, stored, now>>

ChatSession == [user_id        : User,
                messages       : Seq(Message),
                last_active_at : 0..MaxNow]

ASSUME ObjectAssumption == NULL \notin ChatSession

StoreTypeOK ==
  /\ heap \in [Session -> ChatSession \cup {NULL}]
  /\ stored \subseteq Session
  /\ \A s \in stored : heap[s] # NULL
  /\ now \in 0..MaxNow

StoreInit ==
  /\ heap = [s \in Session |-> NULL]
  /\ stored = {}
  /\ now = 0

IsExpired(s) == now - heap[s].last_active_at > TTL

\* The keys that _evict_expired_locked leaves.
Live == {s \in stored : ~IsExpired(s)}

Touch(s) == heap' = [heap EXCEPT ![s].last_active_at = now]

\* ChatSession.append: outside of the store's lock.
AppendMessage(s, m) ==
  heap' = [heap EXCEPT ![s].messages = Append(@, m),
                       ![s].last_active_at = now]

\* Mutant of Finds: no owner check.
FindsAnyones(s, u) == s \in stored /\ ~IsExpired(s)

Finds(s, u) == s \in stored /\ heap[s].user_id = u /\ ~IsExpired(s)

\* get: the session, touched.
GetHit(s, u) == Finds(s, u) /\ Touch(s) /\ UNCHANGED <<stored, now>>

\* get: None.  An expired session of the caller is dropped on the way.
GetMiss(s, u) ==
  /\ ~Finds(s, u)
  /\ stored' = IF s \in stored /\ heap[s].user_id = u
               THEN stored \ {s} ELSE stored
  /\ UNCHANGED <<heap, now>>

\* Mutant of AtCapacity: off by one.
AtCapacityPlusOne == Cardinality(Live) > MaxSessions

AtCapacity == Cardinality(Live) >= MaxSessions

\* create: expired sessions are evicted first, also when it then refuses.
CreateRefused == AtCapacity /\ stored' = Live /\ UNCHANGED <<heap, now>>

CreateNew(s, u) ==
  /\ ~AtCapacity
  /\ heap[s] = NULL
  /\ heap' = [heap EXCEPT ![s] = [user_id |-> u, messages |-> << >>,
                                  last_active_at |-> now]]
  /\ stored' = Live \cup {s}
  /\ UNCHANGED now

\* Mutant of Save: it only touches the object.
SaveTouches(s) == Touch(s) /\ UNCHANGED <<stored, now>>

\* save puts the object back under its key, whatever was evicted meanwhile.
Save(s) == Touch(s) /\ stored' = stored \cup {s} /\ UNCHANGED now

Tick == now < MaxNow /\ now' = now + 1 /\ UNCHANGED <<heap, stored>>

\* The process starts again with an empty store; ids are never minted twice.
Forget == stored' = {} /\ UNCHANGED <<heap, now>>
=============================================================================
