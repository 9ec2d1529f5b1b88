-------------------------- MODULE ChatAgentProofs --------------------------
(***************************************************************************)
(* Proofs about ChatAgent for any number of turns in flight, users,        *)
(* sessions and restarts, any TTL, capacity and iteration cap.             *)
(*                                                                         *)
(* None of the properties is inductive.  That a conversation holds its     *)
(* owner's messages needs that a turn keeps working on a session of its    *)
(* own user after the lock was released (TurnOK); that an answered         *)
(* conversation is kept needs that a session was active no earlier than    *)
(* its last answer (AnswerOK); and the bound on the store needs to count   *)
(* the evicted sessions that turns in flight may still save (Bounded).     *)
(***************************************************************************)
EXTENDS ChatAgent, FiniteSetTheorems, SequenceTheorems, TLAPS

Engine == {"opened", "llm", "tools", "finish"}

TurnOK(t) ==
  /\ tpc[t] # "idle" => treq[t] \in ChatRequest
  /\ tpc[t] = "get" => treq[t].session \in Session
  /\ tpc[t] \in {"get", "create"} => held[t] = NULL
  /\ tpc[t] \in Engine => /\ held[t] \in Session
                          /\ heap[held[t]] # NULL
                          /\ heap[held[t]].user_id = treq[t].user
  /\ tpc[t] = "tools" => loop[t].tool \in Tool

AnswerOK(t) ==
  tpc[t] = "idle" /\ answer[t].code = "ok" =>
    /\ held[t] \in Session
    /\ heap[held[t]] # NULL
    /\ answer[t].at <= heap[held[t]].last_active_at
    /\ held[t] \in stored \/ now - answer[t].at > TTL

ClockInv == \A s \in Session : heap[s] # NULL => heap[s].last_active_at <= now

Bounded ==
  Cardinality(stored \cup InFlight) <= MaxSessions + Cardinality(Turn) - 1

IInv ==
  /\ TypeOK
  /\ \A t \in Turn : TurnOK(t) /\ AnswerOK(t)
  /\ ClockInv
  /\ OwnMessages
  /\ Bounded
-----------------------------------------------------------------------------
(***************************************************************************)
(* What a step does to the objects and to the turns.                       *)
(***************************************************************************)
\* Objects stay, keep their owner and are only active later.
HeapGrows ==
  /\ heap' \in [Session -> ChatSession \cup {NULL}]
  /\ \A s \in Session :
       heap[s] # NULL =>
         /\ heap'[s] # NULL
         /\ heap'[s].user_id = heap[s].user_id
         /\ heap[s].last_active_at <= heap'[s].last_active_at
  /\ ClockInv'
  /\ OwnMessages'

\* Only expired sessions leave the store.
DropsExpired == \A s \in stored \ stored' : IsExpired(s)

\* No turn but t changes.
OnlyTurn(t) ==
  \A u \in Turn \ {t} :
    /\ tpc'[u] = tpc[u] /\ treq'[u] = treq[u] /\ held'[u] = held[u]
    /\ loop'[u] = loop[u] /\ answer'[u] = answer[u]

\* The turns that a step leaves alone keep their invariant.
LEMMA OthersKept ==
  ASSUME IInv, HeapGrows, DropsExpired, now' = now,
         NEW t \in Turn, OnlyTurn(t)
  PROVE  \A u \in Turn \ {t} : TurnOK(u)' /\ AnswerOK(u)'
<1> SUFFICES ASSUME NEW u \in Turn \ {t}
             PROVE  TurnOK(u)' /\ AnswerOK(u)'
  OBVIOUS
<1>1. /\ tpc'[u] = tpc[u] /\ treq'[u] = treq[u] /\ held'[u] = held[u]
      /\ loop'[u] = loop[u] /\ answer'[u] = answer[u]
  BY DEF OnlyTurn
<1>2. TurnOK(u) /\ AnswerOK(u)
  BY DEF IInv
<1>3. TurnOK(u)'
  BY <1>1, <1>2 DEF TurnOK, HeapGrows
<1>4. AnswerOK(u)'
  <2> SUFFICES ASSUME tpc[u] = "idle", answer[u].code = "ok"
               PROVE  /\ held[u] \in Session
                      /\ heap'[held[u]] # NULL
                      /\ answer[u].at <= heap'[held[u]].last_active_at
                      /\ held[u] \in stored' \/ now - answer[u].at > TTL
    BY <1>1 DEF AnswerOK
  <2>1. /\ held[u] \in Session
        /\ heap[held[u]] # NULL
        /\ answer[u].at <= heap[held[u]].last_active_at
        /\ held[u] \in stored \/ now - answer[u].at > TTL
    BY <1>2 DEF AnswerOK
  <2>2. /\ heap[held[u]] \in ChatSession
        /\ heap'[held[u]] \in ChatSession
        /\ answer[u].at \in Int /\ now \in Int /\ TTL \in Int
    BY <2>1, StoreAssumption DEF IInv, TypeOK, StoreTypeOK, HeapGrows
  <2>3. /\ heap[held[u]].last_active_at \in Int
        /\ heap'[held[u]].last_active_at \in Int
        /\ heap[held[u]].last_active_at <= heap'[held[u]].last_active_at
    BY <2>1, <2>2 DEF ChatSession, HeapGrows
  <2>4. CASE held[u] \in stored'
    BY <2>1, <2>2, <2>3, <2>4 DEF HeapGrows
  <2>5. CASE held[u] \notin stored'
    <3>1. held[u] \in stored => now - heap[held[u]].last_active_at > TTL
      BY <2>5 DEF DropsExpired, IsExpired
    <3> QED
      BY <2>1, <2>2, <2>3, <3>1 DEF HeapGrows
  <2> QED
    BY <2>4, <2>5
<1> QED
  BY <1>3, <1>4

\* A message of the owner appended to a session.
LEMMA AppendGrows ==
  ASSUME IInv, NEW t \in Turn, tpc[t] \in Engine,
         NEW kind \in Kind, NEW tool \in Tool \cup {NULL}, NEW e \in BOOLEAN,
         Says(t, kind, tool, e)
  PROVE  HeapGrows /\ DropsExpired /\ stored' = stored /\ now' = now
<1> DEFINE s == held[t]
           m == [kind |-> kind, by |-> t, user |-> treq[t].user,
                 tool |-> tool, error |-> e]
           o == [heap[s] EXCEPT !.messages = Append(@, m),
                                !.last_active_at = now]
<1>1. /\ s \in Session /\ heap[s] \in ChatSession
      /\ heap[s].user_id = treq[t].user
      /\ treq[t] \in ChatRequest
  BY DEF IInv, TypeOK, StoreTypeOK, TurnOK, Engine
<1>2. m \in Message
  BY <1>1, AgentAssumption DEF TurnMessage, ChatRequest
<1>3. heap' = [heap EXCEPT ![s] = o] /\ stored' = stored /\ now' = now
  BY DEF Says, AppendMessage
<1>4. /\ heap \in [Session -> ChatSession \cup {NULL}]
      /\ now \in 0..MaxNow /\ MaxNow \in Nat
  BY StoreAssumption DEF IInv, TypeOK, StoreTypeOK
<1>5. /\ m.user = heap[s].user_id
      /\ o.user_id = heap[s].user_id
      /\ o.messages = Append(heap[s].messages, m)
      /\ o.last_active_at = now
      /\ o \in ChatSession
  <2>1. m.user = heap[s].user_id
    BY <1>1
  <2> HIDE DEF m, s
  <2>2. Append(heap[s].messages, m) \in Seq(Message)
    BY <1>1, <1>2 DEF ChatSession
  <2>3. /\ o.user_id = heap[s].user_id
        /\ o.messages = Append(heap[s].messages, m)
        /\ o.last_active_at = now
    BY <1>1 DEF ChatSession
  <2>4. o \in ChatSession
    BY <1>1, <1>4, <2>2 DEF ChatSession
  <2> QED
    BY <2>1, <2>3, <2>4
<1> HIDE DEF m, o, s
<1>6. /\ heap' \in [Session -> ChatSession \cup {NULL}]
      /\ heap'[s] = o
      /\ \A x \in Session \ {s} : heap'[x] = heap[x]
  BY <1>1, <1>3, <1>4, <1>5
<1>7. o # NULL
  BY <1>5, ObjectAssumption
<1>8. ClockInv /\ OwnMessages
  BY DEF IInv
<1>9. ClockInv'
  <2>1. now' = now /\ now <= now
    BY <1>3, <1>4
  <2> QED
    BY <2>1, <1>5, <1>6, <1>8 DEF ClockInv
<1>10. OwnMessages'
  <2> SUFFICES ASSUME NEW x \in Session, heap'[x] # NULL,
                      NEW k \in 1..Len(heap'[x].messages)
               PROVE  heap'[x].messages[k].user = heap'[x].user_id
    BY DEF OwnMessages
  <2>1. CASE x # s
    BY <1>6, <1>8, <2>1 DEF OwnMessages
  <2>2. CASE x = s
    <3>1. heap[s].messages \in Seq(Message) /\ heap[s] # NULL
      BY <1>1, ObjectAssumption DEF ChatSession
    <3>2. \A j \in 1..Len(heap[s].messages) :
            heap[s].messages[j].user = heap[s].user_id
      BY <1>1, <1>8, <3>1 DEF OwnMessages
    <3>3. k \in 1..(Len(heap[s].messages) + 1)
      BY <1>2, <1>5, <1>6, <2>2, <3>1
    <3>5. CASE k = Len(heap[s].messages) + 1
      <4>1. heap'[x].messages[k] = m
        BY <1>2, <1>5, <1>6, <2>2, <3>1, <3>5
      <4> QED
        BY <4>1, <1>5, <1>6, <2>2
    <3>6. CASE k \in 1..Len(heap[s].messages)
      <4>1. heap'[x].messages[k] = heap[s].messages[k]
        BY <1>2, <1>5, <1>6, <2>2, <3>1, <3>6
      <4> QED
        BY <4>1, <3>2, <3>6, <1>5, <1>6, <2>2
    <3> QED
      BY <3>1, <3>3, <3>5, <3>6
  <2> QED
    BY <2>1, <2>2
<1>11. \A x \in Session :
         heap[x] # NULL => /\ heap'[x] # NULL
                           /\ heap'[x].user_id = heap[x].user_id
                           /\ heap[x].last_active_at <= heap'[x].last_active_at
  <2> SUFFICES ASSUME NEW x \in Session, heap[x] # NULL
               PROVE  /\ heap'[x] # NULL
                      /\ heap'[x].user_id = heap[x].user_id
                      /\ heap[x].last_active_at <= heap'[x].last_active_at
    OBVIOUS
  <2>1. heap[x].last_active_at \in Int /\ heap[x].last_active_at <= now
    BY <1>4, <1>8 DEF ClockInv, ChatSession
  <2> QED
    BY <2>1, <1>4, <1>5, <1>6, <1>7
<1> QED
  BY <1>3, <1>6, <1>9, <1>10, <1>11 DEF HeapGrows, DropsExpired

\* A touch.
LEMMA TouchGrows ==
  ASSUME IInv, NEW s \in Session, heap[s] # NULL, Touch(s), now' = now
  PROVE  /\ HeapGrows
         /\ heap'[s].last_active_at = now
<1> DEFINE o == [heap[s] EXCEPT !.last_active_at = now]
<1>1. /\ heap \in [Session -> ChatSession \cup {NULL}]
      /\ heap[s] \in ChatSession
      /\ now \in 0..MaxNow /\ MaxNow \in Nat
  BY StoreAssumption DEF IInv, TypeOK, StoreTypeOK
<1>2. heap' = [heap EXCEPT ![s] = o]
  BY DEF Touch
<1>3. /\ o.user_id = heap[s].user_id
      /\ o.messages = heap[s].messages
      /\ o.last_active_at = now
      /\ o \in ChatSession
  BY <1>1 DEF ChatSession
<1> HIDE DEF o
<1>4. /\ heap' \in [Session -> ChatSession \cup {NULL}]
      /\ heap'[s] = o
      /\ \A x \in Session \ {s} : heap'[x] = heap[x]
  BY <1>1, <1>2, <1>3
<1>5. o # NULL
  BY <1>3, ObjectAssumption
<1>6. ClockInv /\ OwnMessages
  BY DEF IInv
<1>7. ClockInv'
  BY <1>1, <1>3, <1>4, <1>6 DEF ClockInv
<1>8. OwnMessages'
  BY <1>3, <1>4, <1>6 DEF OwnMessages
<1>9. \A x \in Session :
        heap[x] # NULL => /\ heap'[x] # NULL
                          /\ heap'[x].user_id = heap[x].user_id
                          /\ heap[x].last_active_at <= heap'[x].last_active_at
  <2> SUFFICES ASSUME NEW x \in Session, heap[x] # NULL
               PROVE  /\ heap'[x] # NULL
                      /\ heap'[x].user_id = heap[x].user_id
                      /\ heap[x].last_active_at <= heap'[x].last_active_at
    OBVIOUS
  <2>1. heap[x].last_active_at \in Int /\ heap[x].last_active_at <= now
    BY <1>1, <1>6 DEF ClockInv, ChatSession
  <2> QED
    BY <2>1, <1>1, <1>3, <1>4, <1>5
<1> QED
  BY <1>3, <1>4, <1>7, <1>8, <1>9 DEF HeapGrows

\* A step that leaves the objects and the clock alone.
LEMMA SameHeapGrows ==
  ASSUME IInv, UNCHANGED <<heap, now>>
  PROVE  HeapGrows
<1>1. heap \in [Session -> ChatSession \cup {NULL}]
  BY DEF IInv, TypeOK, StoreTypeOK
<1>2. \A x \in Session : heap[x] # NULL => heap[x].last_active_at \in Int
  BY <1>1 DEF ChatSession
<1>3. ClockInv' /\ OwnMessages'
  BY DEF IInv, ClockInv, OwnMessages
<1> QED
  BY <1>1, <1>2, <1>3 DEF HeapGrows
-----------------------------------------------------------------------------
(***************************************************************************)
(* Counting the stored sessions and those in flight.                       *)
(***************************************************************************)
\* A step after which no other session is stored or in flight.
LEMMA FewerBounded ==
  ASSUME IInv, stored' \cup InFlight' \subseteq stored \cup InFlight
  PROVE  Bounded'
<1>1. stored \cup InFlight \subseteq Session
  BY DEF IInv, TypeOK, StoreTypeOK, InFlight
<1>2. IsFiniteSet(stored \cup InFlight)
  BY <1>1, FS_Subset, StoreAssumption
<1>3. /\ Cardinality(stored' \cup InFlight') <= Cardinality(stored \cup InFlight)
      /\ Cardinality(stored' \cup InFlight') \in Nat
      /\ Cardinality(stored \cup InFlight) \in Nat
      /\ Cardinality(Turn) \in Nat
  BY <1>2, FS_Subset, FS_CardinalityType, AgentAssumption
<1>4. Bounded
  BY DEF IInv
<1>5. MaxSessions \in Nat
  BY StoreAssumption
<1> QED
  BY <1>3, <1>4, <1>5 DEF Bounded

\* The sessions of the turns other than t are fewer than the turns.
LEMMA OtherTurns ==
  ASSUME NEW t \in Turn, NEW f
  PROVE  LET R == {f[u] : u \in Turn \ {t}}
         IN  IsFiniteSet(R) /\ Cardinality(R) <= Cardinality(Turn) - 1
<1> DEFINE R == {f[u] : u \in Turn \ {t}}
           g == [u \in Turn \ {t} |-> f[u]]
<1>1. /\ IsFiniteSet(Turn \ {t})
      /\ Cardinality(Turn \ {t}) = Cardinality(Turn) - 1
  BY FS_RemoveElement, AgentAssumption
<1>2. g \in Surjection(Turn \ {t}, R)
  BY DEF Surjection
<1>3. IsFiniteSet(R) /\ Cardinality(R) <= Cardinality(Turn \ {t})
  BY <1>1, <1>2, FS_Surjection
<1> QED
  BY <1>1, <1>3
-----------------------------------------------------------------------------
(***************************************************************************)
(* What the ends of a step, Goto and End, do to a turn.                    *)
(***************************************************************************)
\* The types of the variables of the turns.
TurnTypes ==
  /\ tpc \in [Turn -> TPC]
  /\ treq \in [Turn -> ChatRequest \cup {NULL}]
  /\ held \in [Turn -> Session \cup {NULL}]
  /\ loop \in [Turn -> Loop]
  /\ answer \in [Turn -> [code : Code, at : 0..MaxNow]]

\* A turn goes on at another program point.
LEMMA GotoFacts ==
  ASSUME TypeOK, NEW t \in Turn, NEW label \in TPC, Goto(t, label),
         held' \in [Turn -> Session \cup {NULL}],
         \A u \in Turn \ {t} : held'[u] = held[u],
         loop' \in [Turn -> Loop],
         \A u \in Turn \ {t} : loop'[u] = loop[u]
  PROVE  /\ TurnTypes' /\ OnlyTurn(t)
         /\ tpc'[t] = label /\ treq'[t] = treq[t] /\ answer'[t] = answer[t]
  BY DEF TypeOK, Goto, TurnTypes, OnlyTurn

\* A turn ends.
LEMMA EndFacts ==
  ASSUME TypeOK, NEW t \in Turn, NEW code \in Code, End(t, code),
         held' \in [Turn -> Session \cup {NULL}],
         \A u \in Turn \ {t} : held'[u] = held[u]
  PROVE  /\ TurnTypes' /\ OnlyTurn(t)
         /\ tpc'[t] = "idle"
         /\ answer'[t].code = code /\ answer'[t].at = now
<1>1. /\ tpc' = [tpc EXCEPT ![t] = "idle"]
      /\ treq' = [treq EXCEPT ![t] = NULL]
      /\ loop' = [loop EXCEPT ![t] = NoLoop]
      /\ answer' = [answer EXCEPT ![t] = [code |-> code, at |-> now]]
  BY DEF End
<1>2. NoLoop \in Loop /\ now \in 0..MaxNow /\ "idle" \in TPC
  BY AgentAssumption DEF NoLoop, Loop, TypeOK, StoreTypeOK, TPC
<1>3. [code |-> code, at |-> now] \in [code : Code, at : 0..MaxNow]
  BY <1>2
<1>4. TurnTypes'
  BY <1>1, <1>2, <1>3 DEF TypeOK, TurnTypes
<1> QED
  BY <1>1, <1>4 DEF TypeOK, OnlyTurn

\* The pieces of the invariant after a step of turn t.
LEMMA Combine ==
  ASSUME IInv, NEW t \in Turn, HeapGrows, DropsExpired, now' = now,
         TurnTypes', OnlyTurn(t), TurnOK(t)', AnswerOK(t)',
         stored' \subseteq Session, \A s \in stored' : heap'[s] # NULL,
         ready' \in BOOLEAN, received' \in 0..MaxTurns, UNCHANGED restarts,
         Bounded'
  PROVE  IInv'
<1>1. \A u \in Turn : TurnOK(u)' /\ AnswerOK(u)'
  BY OthersKept
<1>2. TypeOK'
  BY DEF IInv, TypeOK, StoreTypeOK, HeapGrows, TurnTypes
<1> QED
  BY <1>1, <1>2 DEF IInv, HeapGrows
-----------------------------------------------------------------------------
(***************************************************************************)
(* One lemma per action.                                                   *)
(***************************************************************************)
\* Facts about InFlight: what it gains is what turn t holds.
LEMMA InFlightGains ==
  ASSUME TypeOK, NEW t \in Turn, OnlyTurn(t)
  PROVE  InFlight' \subseteq InFlight \cup ({held'[t]} \ {NULL})
  BY DEF OnlyTurn, InFlight

\* A request arrives.
LEMMA ReceiveStep ==
  ASSUME IInv, NEW t \in Turn, NEW r \in Requests, Receive(t, r)
  PROVE  IInv'
<1>1. TypeOK
  BY DEF IInv
<1>2. UNCHANGED <<heap, stored, now, ready, restarts>>
  BY DEF Receive, sessions
<1>3. HeapGrows /\ DropsExpired
  BY <1>2, SameHeapGrows DEF DropsExpired
<1>4. received' \in 0..MaxTurns
  BY <1>1, AgentAssumption DEF Receive, TypeOK
<1>5. r \in ChatRequest
  BY AgentAssumption DEF Requests, ChatRequest
<1>6. TurnTypes' /\ OnlyTurn(t) /\ held'[t] = NULL /\ TurnOK(t)' /\ AnswerOK(t)'
  <2>1. CASE ~ready
    <3>1. End(t, "not_ready") /\ held' = [held EXCEPT ![t] = NULL]
      BY <2>1 DEF Receive
    <3>2. "not_ready" \in Code
      BY DEF Code
    <3>3. /\ held' \in [Turn -> Session \cup {NULL}] /\ held'[t] = NULL
          /\ \A u \in Turn \ {t} : held'[u] = held[u]
      BY <1>1, <3>1 DEF TypeOK
    <3>4. /\ TurnTypes' /\ OnlyTurn(t)
          /\ tpc'[t] = "idle" /\ answer'[t].code = "not_ready"
      BY <1>1, <3>1, <3>2, <3>3, EndFacts
    <3> QED
      BY <3>3, <3>4 DEF TurnOK, AnswerOK, Engine
  <2>2. CASE ready
    <3>1. /\ tpc' = [tpc EXCEPT ![t] = IF r.session = NULL THEN "create"
                                                            ELSE "get"]
          /\ treq' = [treq EXCEPT ![t] = r]
          /\ held' = [held EXCEPT ![t] = NULL]
          /\ answer' = [answer EXCEPT ![t] = Unanswered]
          /\ loop' = loop
      BY <2>2 DEF Receive
    <3>2. Unanswered \in [code : Code, at : 0..MaxNow]
      BY StoreAssumption DEF Unanswered, Code
    <3>3. TurnTypes' /\ OnlyTurn(t)
      BY <1>1, <1>5, <3>1, <3>2 DEF TypeOK, TurnTypes, OnlyTurn, TPC
    <3>4. /\ tpc'[t] = IF r.session = NULL THEN "create" ELSE "get"
          /\ treq'[t] = r /\ held'[t] = NULL
      BY <1>1, <3>1 DEF TypeOK
    <3>5. r.session \in Session \cup {NULL}
      BY <1>5 DEF ChatRequest
    <3> QED
      BY <1>5, <3>3, <3>4, <3>5 DEF TurnOK, AnswerOK, Engine
  <2> QED
    BY <2>1, <2>2, <1>1 DEF TypeOK
<1>7. stored' \cup InFlight' \subseteq stored \cup InFlight
  BY <1>1, <1>2, <1>6, InFlightGains
<1>8. Bounded'
  BY <1>7, FewerBounded
<1>9. ready' \in BOOLEAN /\ stored' \subseteq Session
      /\ \A s \in stored' : heap'[s] # NULL
  BY <1>1, <1>2 DEF TypeOK, StoreTypeOK
<1> QED
  BY <1>2, <1>3, <1>4, <1>6, <1>8, <1>9, Combine

\* get of get_or_create.
LEMMA GetStep ==
  ASSUME IInv, NEW t \in Turn, GetSession(t)
  PROVE  IInv'
<1> DEFINE s == treq[t].session
           u == treq[t].user
<1>1. /\ TypeOK /\ TurnOK(t) /\ tpc[t] = "get" /\ now' = now
      /\ UNCHANGED <<ready, loop, received, restarts>>
  BY DEF IInv, GetSession, GetHit, GetMiss
<1>2. s \in Session /\ treq[t] \in ChatRequest /\ held[t] = NULL
  BY <1>1 DEF TurnOK
<1>3. loop' \in [Turn -> Loop] /\ \A x \in Turn \ {t} : loop'[x] = loop[x]
  BY <1>1 DEF TypeOK
<1>4. CASE GetHit(s, u) /\ held' = [held EXCEPT ![t] = s] /\ Goto(t, "opened")
  <2>1. s \in stored /\ heap[s] # NULL /\ heap[s].user_id = u
    BY <1>1, <1>4 DEF GetHit, Finds, TypeOK, StoreTypeOK
  <2>2. HeapGrows /\ stored' = stored
    BY <1>1, <1>2, <1>4, <2>1, TouchGrows DEF GetHit
  <2>3. /\ "opened" \in TPC
        /\ held' \in [Turn -> Session \cup {NULL}] /\ held'[t] = s
        /\ \A x \in Turn \ {t} : held'[x] = held[x]
    BY <1>1, <1>2, <1>4 DEF TPC, TypeOK
  <2>4. /\ TurnTypes' /\ OnlyTurn(t)
        /\ tpc'[t] = "opened" /\ treq'[t] = treq[t] /\ held'[t] = s
    BY <1>1, <1>3, <1>4, <2>3, GotoFacts
  <2>5. TurnOK(t)' /\ AnswerOK(t)'
    BY <1>2, <2>1, <2>2, <2>4 DEF TurnOK, AnswerOK, HeapGrows, Engine
  <2>6. stored' \cup InFlight' \subseteq stored \cup InFlight
    BY <1>1, <2>1, <2>2, <2>4, InFlightGains
  <2>7. Bounded' /\ DropsExpired
    BY <2>2, <2>6, FewerBounded DEF DropsExpired
  <2>8. /\ ready' \in BOOLEAN /\ received' \in 0..MaxTurns
        /\ stored' \subseteq Session /\ \A x \in stored' : heap'[x] # NULL
    BY <1>1, <2>2 DEF TypeOK, StoreTypeOK, HeapGrows
  <2> QED
    BY <1>1, <2>2, <2>4, <2>5, <2>7, <2>8, Combine
<1>5. CASE GetMiss(s, u) /\ Goto(t, "create") /\ UNCHANGED held
  <2>1. /\ HeapGrows /\ UNCHANGED <<heap, now>>
        /\ stored' \subseteq stored
    BY <1>5, SameHeapGrows DEF GetMiss
  <2>2. DropsExpired
    BY <1>5 DEF GetMiss, Finds, DropsExpired
  <2>3. /\ "create" \in TPC
        /\ held' \in [Turn -> Session \cup {NULL}] /\ held'[t] = NULL
        /\ \A x \in Turn \ {t} : held'[x] = held[x]
    BY <1>1, <1>2, <1>5 DEF TPC, TypeOK
  <2>5. /\ TurnTypes' /\ OnlyTurn(t)
        /\ tpc'[t] = "create" /\ treq'[t] = treq[t] /\ held'[t] = NULL
    BY <1>1, <1>3, <1>5, <2>3, GotoFacts
  <2>6. TurnOK(t)' /\ AnswerOK(t)'
    BY <1>2, <2>5 DEF TurnOK, AnswerOK, Engine
  <2>7. stored' \cup InFlight' \subseteq stored \cup InFlight
    BY <1>1, <2>1, <2>5, InFlightGains
  <2>8. Bounded'
    BY <2>7, FewerBounded
  <2>9. /\ ready' \in BOOLEAN /\ received' \in 0..MaxTurns
        /\ stored' \subseteq Session /\ \A x \in stored' : heap'[x] # NULL
    BY <1>1, <2>1 DEF TypeOK, StoreTypeOK
  <2> QED
    BY <1>1, <2>1, <2>2, <2>5, <2>6, <2>8, <2>9, Combine
<1> QED
  BY <1>4, <1>5 DEF GetSession

\* A new object changes no other one.
LEMMA NewGrows ==
  ASSUME IInv, NEW s \in Session, NEW u \in User, CreateNew(s, u)
  PROVE  HeapGrows /\ DropsExpired /\ heap'[s] # NULL /\ heap'[s].user_id = u
<1> DEFINE o == [user_id |-> u, messages |-> << >>, last_active_at |-> now]
<1>1. /\ heap \in [Session -> ChatSession \cup {NULL}] /\ heap[s] = NULL
      /\ now \in 0..MaxNow /\ MaxNow \in Nat /\ now' = now
      /\ heap' = [heap EXCEPT ![s] = o]
  BY StoreAssumption DEF IInv, TypeOK, StoreTypeOK, CreateNew
<1>2. << >> \in Seq(Message) /\ Len(<< >>) = 0
  OBVIOUS
<1>3. /\ o \in ChatSession /\ o.user_id = u /\ o.last_active_at = now
      /\ o.messages = << >>
  BY <1>1, <1>2 DEF ChatSession
<1> HIDE DEF o
<1>4. /\ heap' \in [Session -> ChatSession \cup {NULL}]
      /\ heap'[s] = o
      /\ \A x \in Session \ {s} : heap'[x] = heap[x]
      /\ o # NULL
  BY <1>1, <1>3, ObjectAssumption
<1>5. ClockInv /\ OwnMessages
  BY DEF IInv
<1>6. ClockInv'
  <2>1. now <= now'
    BY <1>1
  <2> QED
    BY <2>1, <1>1, <1>3, <1>4, <1>5 DEF ClockInv
<1>7. OwnMessages'
  <2> SUFFICES ASSUME NEW x \in Session, heap'[x] # NULL,
                      NEW k \in 1..Len(heap'[x].messages)
               PROVE  heap'[x].messages[k].user = heap'[x].user_id
    BY DEF OwnMessages
  <2>1. x # s
    <3> SUFFICES ASSUME x = s PROVE FALSE
      OBVIOUS
    <3>1. k \in 1..0
      BY <1>2, <1>3, <1>4
    <3> QED
      BY <3>1
  <2> QED
    BY <2>1, <1>4, <1>5 DEF OwnMessages
<1>8. \A x \in Session :
        heap[x] # NULL => /\ heap'[x] # NULL
                          /\ heap'[x].user_id = heap[x].user_id
                          /\ heap[x].last_active_at <= heap'[x].last_active_at
  <2> SUFFICES ASSUME NEW x \in Session, heap[x] # NULL
               PROVE  /\ heap'[x] # NULL
                      /\ heap'[x].user_id = heap[x].user_id
                      /\ heap[x].last_active_at <= heap'[x].last_active_at
    OBVIOUS
  <2>1. heap[x].last_active_at \in Int
    BY <1>1 DEF ChatSession
  <2> QED
    BY <2>1, <1>1, <1>4
<1>9. DropsExpired
  BY DEF CreateNew, DropsExpired, Live
<1> QED
  BY <1>3, <1>4, <1>6, <1>7, <1>8, <1>9 DEF HeapGrows

\* create of get_or_create: the bound on the store is made here, by the
\* capacity that was left and by the other turns in flight.
LEMMA CreateStep ==
  ASSUME IInv, NEW t \in Turn, CreateSession(t)
  PROVE  IInv'
<1>1. /\ TypeOK /\ TurnOK(t) /\ tpc[t] = "create" /\ now' = now
      /\ UNCHANGED <<ready, received, restarts>>
  BY DEF IInv, CreateSession, CreateRefused, CreateNew
<1>2. treq[t] \in ChatRequest /\ held[t] = NULL
  BY <1>1 DEF TurnOK
<1>3. CASE CreateRefused /\ End(t, "full") /\ UNCHANGED held
  <2>1. HeapGrows /\ stored' \subseteq stored /\ DropsExpired /\ heap' = heap
    BY <1>3, SameHeapGrows DEF CreateRefused, Live, DropsExpired
  <2>2. /\ "full" \in Code /\ held'[t] = NULL
        /\ held' \in [Turn -> Session \cup {NULL}]
        /\ \A x \in Turn \ {t} : held'[x] = held[x]
    BY <1>1, <1>2, <1>3 DEF Code, TypeOK
  <2>3. /\ TurnTypes' /\ OnlyTurn(t)
        /\ tpc'[t] = "idle" /\ answer'[t].code = "full"
    BY <1>1, <1>3, <2>2, EndFacts
  <2>4. TurnOK(t)' /\ AnswerOK(t)'
    BY <2>3 DEF TurnOK, AnswerOK, Engine
  <2>5. stored' \cup InFlight' \subseteq stored \cup InFlight
    BY <1>1, <2>1, <2>2, <2>3, InFlightGains
  <2>6. Bounded'
    BY <2>5, FewerBounded
  <2>7. /\ ready' \in BOOLEAN /\ received' \in 0..MaxTurns
        /\ stored' \subseteq Session /\ \A x \in stored' : heap'[x] # NULL
    BY <1>1, <2>1 DEF TypeOK, StoreTypeOK
  <2> QED
    BY <1>1, <2>1, <2>3, <2>4, <2>6, <2>7, Combine
<1>4. ASSUME NEW s \in Session, CreateNew(s, treq[t].user),
             held' = [held EXCEPT ![t] = s], Goto(t, "opened"), UNCHANGED loop
      PROVE  IInv'
  <2>1. treq[t].user \in User
    BY <1>2 DEF ChatRequest
  <2>2. /\ HeapGrows /\ DropsExpired
        /\ heap'[s] # NULL /\ heap'[s].user_id = treq[t].user
    BY <1>4, <2>1, NewGrows
  <2>3. /\ "opened" \in TPC /\ held'[t] = s
        /\ held' \in [Turn -> Session \cup {NULL}]
        /\ \A x \in Turn \ {t} : held'[x] = held[x]
        /\ loop' \in [Turn -> Loop]
        /\ \A x \in Turn \ {t} : loop'[x] = loop[x]
    BY <1>1, <1>4 DEF TPC, TypeOK
  <2>4. /\ TurnTypes' /\ OnlyTurn(t)
        /\ tpc'[t] = "opened" /\ treq'[t] = treq[t]
    BY <1>1, <1>4, <2>3, GotoFacts
  <2>5. TurnOK(t)' /\ AnswerOK(t)'
    BY <1>2, <2>2, <2>3, <2>4 DEF TurnOK, AnswerOK, Engine
  <2>6. ~AtCapacity /\ stored' = Live \cup {s} /\ heap[s] = NULL
    BY <1>4 DEF CreateNew
  <2>7. /\ stored' \subseteq Session
        /\ \A x \in stored' : heap'[x] # NULL
    BY <1>1, <1>4, <2>2, <2>6 DEF Live, TypeOK, StoreTypeOK, HeapGrows
  <2>8. Bounded'
    <3> DEFINE R == {held[x] : x \in Turn \ {t}}
    <3>1. IsFiniteSet(R) /\ Cardinality(R) <= Cardinality(Turn) - 1
      BY OtherTurns
    <3>2. stored' \cup InFlight' \subseteq stored' \cup R
      <4>1. \A x \in Turn : held'[x] \in stored' \cup R
        BY <2>3, <2>6
      <4> HIDE DEF R
      <4> QED
        BY <4>1 DEF InFlight
    <3> HIDE DEF R
    <3>3. Live \subseteq Session /\ s \notin Live
      BY <1>1, <2>6 DEF Live, TypeOK, StoreTypeOK
    <3>4. IsFiniteSet(Live)
      BY <3>3, FS_Subset, StoreAssumption
    <3>5. /\ IsFiniteSet(stored')
          /\ Cardinality(stored') = Cardinality(Live) + 1
      BY <2>6, <3>3, <3>4, FS_AddElement
    <3>6. Cardinality(Live) < MaxSessions
      BY <2>6, <3>4, FS_CardinalityType, StoreAssumption DEF AtCapacity
    <3>7. /\ IsFiniteSet(stored' \cup R)
          /\ Cardinality(stored' \cup R)
               = Cardinality(stored') + Cardinality(R)
                   - Cardinality(stored' \cap R)
      BY <3>1, <3>5, FS_Union
    <3>8. IsFiniteSet(stored' \cap R)
      BY <3>5, FS_Intersection, <3>1
    <3>9. /\ Cardinality(stored' \cup InFlight') <= Cardinality(stored' \cup R)
          /\ IsFiniteSet(stored' \cup InFlight')
      BY <3>2, <3>7, FS_Subset
    <3>10. /\ Cardinality(stored' \cup InFlight') \in Nat
           /\ Cardinality(stored' \cup R) \in Nat
           /\ Cardinality(stored' \cap R) \in Nat
           /\ Cardinality(stored') \in Nat /\ Cardinality(R) \in Nat
           /\ Cardinality(Live) \in Nat /\ Cardinality(Turn) \in Nat
           /\ MaxSessions \in Nat
      BY <3>1, <3>4, <3>5, <3>7, <3>8, <3>9, FS_CardinalityType,
         AgentAssumption, StoreAssumption
    <3> QED
      BY <3>1, <3>5, <3>6, <3>7, <3>9, <3>10 DEF Bounded
  <2>9. ready' \in BOOLEAN /\ received' \in 0..MaxTurns
    BY <1>1 DEF TypeOK
  <2> QED
    BY <1>1, <2>2, <2>4, <2>5, <2>7, <2>8, <2>9, Combine
<1> QED
  BY <1>3, <1>4 DEF CreateSession

\* A step of a turn that has its session in hand and keeps it.
LEMMA EngineStep ==
  ASSUME IInv, NEW t \in Turn, tpc[t] \in Engine,
         HeapGrows, DropsExpired, now' = now,
         TurnTypes', OnlyTurn(t), TurnOK(t)', AnswerOK(t)',
         stored' \subseteq stored \cup {held[t]},
         UNCHANGED <<held, ready, received, restarts>>
  PROVE  IInv'
<1>1. TypeOK /\ held[t] \in Session /\ heap[held[t]] # NULL
  BY DEF IInv, TurnOK
<1>2. held[t] # NULL /\ held'[t] = held[t]
  BY <1>1, StoreAssumption
<1>3. tpc[t] # "idle"
  BY DEF Engine
<1>4. held[t] \in InFlight
  BY <1>2, <1>3 DEF InFlight
<1>5. stored' \cup InFlight' \subseteq stored \cup InFlight
  BY <1>1, <1>2, <1>4, InFlightGains
<1>6. Bounded'
  BY <1>5, FewerBounded
<1>7. /\ ready' \in BOOLEAN /\ received' \in 0..MaxTurns
      /\ stored' \subseteq Session /\ \A x \in stored' : heap'[x] # NULL
  BY <1>1 DEF TypeOK, StoreTypeOK, HeapGrows
<1> QED
  BY <1>6, <1>7, Combine

\* A turn says something and goes on in the engine.
LEMMA SaysStep ==
  ASSUME IInv, NEW t \in Turn, tpc[t] \in Engine,
         NEW kind \in Kind, NEW tool \in Tool \cup {NULL}, NEW e \in BOOLEAN,
         Says(t, kind, tool, e),
         NEW label \in Engine, Goto(t, label),
         loop' \in [Turn -> Loop],
         \A u \in Turn \ {t} : loop'[u] = loop[u],
         label = "tools" => loop'[t].tool \in Tool,
         UNCHANGED <<held, ready, received, restarts>>
  PROVE  IInv'
<1>1. TypeOK /\ TurnOK(t)
  BY DEF IInv
<1>2. HeapGrows /\ DropsExpired /\ stored' = stored /\ now' = now
  BY AppendGrows
<1>3. /\ label \in TPC
      /\ held' \in [Turn -> Session \cup {NULL}]
      /\ \A u \in Turn \ {t} : held'[u] = held[u]
  BY <1>1 DEF TypeOK, Engine, TPC
<1>4. /\ TurnTypes' /\ OnlyTurn(t)
      /\ tpc'[t] = label /\ treq'[t] = treq[t]
  BY <1>1, <1>3, GotoFacts
<1>5. /\ treq[t] \in ChatRequest /\ held[t] \in Session
      /\ heap[held[t]] # NULL /\ heap[held[t]].user_id = treq[t].user
  BY <1>1 DEF TurnOK, Engine
<1>6. TurnOK(t)'
  BY <1>2, <1>4, <1>5 DEF TurnOK, HeapGrows, Engine
<1>7. AnswerOK(t)'
  BY <1>4 DEF AnswerOK, Engine
<1> QED
  BY <1>2, <1>4, <1>6, <1>7, EngineStep

\* The engine starts with the user's text.
LEMMA StartRunStep ==
  ASSUME IInv, NEW t \in Turn, StartRun(t)
  PROVE  IInv'
<1>1. TypeOK
  BY DEF IInv
<1>2. 1 \in 0..MaxIterations
  BY AgentAssumption
<1>3. loop \in [Turn -> Loop] /\ loop' = [loop EXCEPT ![t].iter = 1]
  BY <1>1 DEF TypeOK, StartRun
<1>4. /\ loop' \in [Turn -> Loop]
      /\ \A u \in Turn \ {t} : loop'[u] = loop[u]
  BY <1>2, <1>3 DEF Loop
<1>5. /\ tpc[t] \in Engine /\ "llm" \in Engine /\ "text" \in Kind
      /\ Says(t, "text", NULL, FALSE) /\ Goto(t, "llm")
      /\ UNCHANGED <<held, ready, received, restarts>>
  BY DEF StartRun, Engine, Kind
<1> QED
  BY <1>4, <1>5, SaysStep

\* The model answers.
LEMMA LlmRepliesStep ==
  ASSUME IInv, NEW t \in Turn, LlmReplies(t)
  PROVE  IInv'
<1>1. /\ loop' \in [Turn -> Loop]
      /\ \A u \in Turn \ {t} : loop'[u] = loop[u]
  BY DEF IInv, TypeOK, LlmReplies
<1>2. /\ tpc[t] \in Engine /\ "finish" \in Engine /\ "reply" \in Kind
      /\ Says(t, "reply", NULL, FALSE) /\ Goto(t, "finish")
      /\ UNCHANGED <<held, ready, received, restarts>>
  BY DEF LlmReplies, Engine, Kind
<1> QED
  BY <1>1, <1>2, SaysStep

\* The loop after the model has asked for a tool.
LEMMA AsksLoop ==
  ASSUME loop \in [Turn -> Loop], NEW t \in Turn, NEW tool \in Tool,
         NEW object \in BOOLEAN, LlmAsks(t, tool, object)
  PROVE  /\ loop' \in [Turn -> Loop]
         /\ loop'[t].tool = tool /\ loop'[t].object = object
         /\ \A u \in Turn \ {t} : loop'[u] = loop[u]
<1>1. PICK l : l = [iter |-> loop[t].iter, tool |-> tool, object |-> object]
  OBVIOUS
<1>2. l \in Loop /\ l.tool = tool /\ l.object = object
  BY <1>1 DEF Loop
<1>3. loop' = [loop EXCEPT ![t] = l]
  BY <1>1 DEF LlmAsks
<1> QED
  BY <1>2, <1>3

\* The model asks for a tool.
LEMMA LlmAsksStep ==
  ASSUME IInv, NEW t \in Turn, NEW tool \in Tools, NEW object \in BOOLEAN,
         LlmAsks(t, tool, object)
  PROVE  IInv'
<1>1. tool \in Tool
  BY AgentAssumption
<1>2. loop \in [Turn -> Loop]
  BY DEF IInv, TypeOK
<1>3. /\ loop' \in [Turn -> Loop] /\ loop'[t].tool = tool
      /\ \A u \in Turn \ {t} : loop'[u] = loop[u]
  BY <1>1, <1>2, AsksLoop
<1>4. /\ tpc[t] \in Engine /\ "tools" \in Engine /\ "tool_use" \in Kind
      /\ Says(t, "tool_use", tool, ~object) /\ Goto(t, "tools")
      /\ UNCHANGED <<held, ready, received, restarts>>
  BY DEF LlmAsks, Engine, Kind
<1>5. (~object) \in BOOLEAN
  OBVIOUS
<1> QED
  BY <1>1, <1>3, <1>4, <1>5, SaysStep

\* A turn with its session in hand ends without an answer.
LEMMA FailStep ==
  ASSUME IInv, NEW t \in Turn, tpc[t] \in Engine,
         HeapGrows, DropsExpired, stored' = stored, now' = now,
         NEW code \in Code, code # "ok", End(t, code),
         UNCHANGED <<held, ready, received, restarts>>
  PROVE  IInv'
<1>1. TypeOK
  BY DEF IInv
<1>2. /\ held' \in [Turn -> Session \cup {NULL}]
      /\ \A u \in Turn \ {t} : held'[u] = held[u]
  BY <1>1 DEF TypeOK
<1>3. /\ TurnTypes' /\ OnlyTurn(t)
      /\ tpc'[t] = "idle" /\ answer'[t].code = code
  BY <1>1, <1>2, EndFacts
<1>4. TurnOK(t)' /\ AnswerOK(t)'
  BY <1>3 DEF TurnOK, AnswerOK, Engine
<1> QED
  BY <1>3, <1>4, EngineStep

\* The client goes away.
LEMMA ClientGoneStep ==
  ASSUME IInv, NEW t \in Turn, ClientGone(t)
  PROVE  IInv'
<1>1. UNCHANGED <<heap, stored, now>>
  BY DEF ClientGone, sessions
<1>2. HeapGrows /\ DropsExpired
  BY <1>1, SameHeapGrows DEF DropsExpired
<1>3. /\ tpc[t] \in Engine /\ "gone" \in Code /\ End(t, "gone")
      /\ UNCHANGED <<held, ready, received, restarts>>
  BY DEF ClientGone, Engine, Code
<1> QED
  BY <1>1, <1>2, <1>3, FailStep

\* The call of the model fails.
LEMMA LlmFailsStep ==
  ASSUME IInv, NEW t \in Turn, LlmFails(t)
  PROVE  IInv'
<1>1. UNCHANGED <<heap, stored, now>>
  BY DEF LlmFails, sessions
<1>2. HeapGrows /\ DropsExpired
  BY <1>1, SameHeapGrows DEF DropsExpired
<1>3. /\ tpc[t] \in Engine /\ "llm_error" \in Code /\ End(t, "llm_error")
      /\ UNCHANGED <<held, ready, received, restarts>>
  BY DEF LlmFails, Engine, Code
<1> QED
  BY <1>1, <1>2, <1>3, FailStep

\* The record of a call raises.
LEMMA RecordRaisesStep ==
  ASSUME IInv, NEW t \in Turn, RecordRaises(t)
  PROVE  IInv'
<1>1. UNCHANGED <<heap, stored, now>>
  BY DEF RecordRaises, sessions
<1>2. HeapGrows /\ DropsExpired
  BY <1>1, SameHeapGrows DEF DropsExpired
<1>3. /\ tpc[t] \in Engine /\ "tool_error" \in Code /\ End(t, "tool_error")
      /\ UNCHANGED <<held, ready, received, restarts>>
  BY DEF RecordRaises, Engine, Code
<1> QED
  BY <1>1, <1>2, <1>3, FailStep

\* The results of the tools.
LEMMA RunToolsStep ==
  ASSUME IInv, NEW t \in Turn, RunTools(t)
  PROVE  IInv'
<1>1. /\ TypeOK /\ TurnOK(t) /\ tpc[t] = "tools" /\ tpc[t] \in Engine
      /\ UNCHANGED <<held, ready, received, restarts>>
  BY DEF IInv, RunTools, Engine
<1>2. loop[t].tool \in Tool /\ loop[t].iter \in 0..MaxIterations
  BY <1>1 DEF TurnOK, TypeOK, Loop
<1>3. PICK e \in ToolErrors(loop[t].tool) :
        Says(t, "tool_result", loop[t].tool, e)
  BY DEF RunTools
<1>4. e \in BOOLEAN
  BY <1>3, Zenon DEF ToolErrors
<1>5. "tool_result" \in Kind
  BY DEF Kind
<1>6. CASE /\ loop[t].iter < MaxIterations
           /\ loop' = [loop EXCEPT ![t] = [iter |-> @.iter + 1, tool |-> NULL,
                                           object |-> TRUE]]
           /\ Goto(t, "llm")
  <2>1. [iter |-> loop[t].iter + 1, tool |-> NULL, object |-> TRUE] \in Loop
    BY <1>2, <1>6, AgentAssumption DEF Loop
  <2>2. /\ loop' \in [Turn -> Loop]
        /\ \A u \in Turn \ {t} : loop'[u] = loop[u]
    BY <1>1, <1>6, <2>1 DEF TypeOK
  <2>3. "llm" \in Engine
    BY DEF Engine
  <2> QED
    BY <1>1, <1>2, <1>3, <1>4, <1>5, <1>6, <2>2, <2>3, SaysStep
<1>7. CASE End(t, "max_iterations")
  <2>1. HeapGrows /\ DropsExpired /\ stored' = stored /\ now' = now
    BY <1>1, <1>2, <1>3, <1>4, <1>5, AppendGrows
  <2>2. "max_iterations" \in Code
    BY DEF Code
  <2> QED
    BY <1>1, <1>7, <2>1, <2>2, FailStep
<1> QED
  BY <1>6, <1>7 DEF RunTools

\* save and the answer.
LEMMA FinishStep ==
  ASSUME IInv, NEW t \in Turn, FinishTurn(t)
  PROVE  IInv'
<1>1. /\ TypeOK /\ TurnOK(t) /\ tpc[t] \in Engine
      /\ UNCHANGED <<held, ready, received, restarts>>
      /\ Touch(held[t]) /\ stored' = stored \cup {held[t]} /\ now' = now
      /\ End(t, "ok")
  BY DEF IInv, FinishTurn, Save, Engine
<1>2. held[t] \in Session /\ heap[held[t]] # NULL
  BY <1>1 DEF TurnOK
<1>3. HeapGrows /\ heap'[held[t]].last_active_at = now
  BY <1>1, <1>2, TouchGrows
<1>4. DropsExpired
  BY <1>1 DEF DropsExpired
<1>5. /\ "ok" \in Code
      /\ held' \in [Turn -> Session \cup {NULL}]
      /\ \A u \in Turn \ {t} : held'[u] = held[u]
  BY <1>1 DEF TypeOK, Code
<1>6. /\ TurnTypes' /\ OnlyTurn(t)
      /\ tpc'[t] = "idle" /\ answer'[t].at = now
  BY <1>1, <1>5, EndFacts
<1>7. TurnOK(t)'
  BY <1>6 DEF TurnOK, Engine
<1>8. AnswerOK(t)'
  <2>1. now \in Int /\ now <= now
    BY <1>1, StoreAssumption DEF TypeOK, StoreTypeOK
  <2>2. heap'[held[t]] # NULL
    BY <1>2, <1>3 DEF HeapGrows
  <2> QED
    BY <1>1, <1>2, <1>3, <1>6, <2>1, <2>2 DEF AnswerOK
<1> QED
  BY <1>1, <1>3, <1>4, <1>6, <1>7, <1>8, EngineStep

\* Time passes.
LEMMA ClockStep ==
  ASSUME IInv, Clock
  PROVE  IInv'
<1>1. /\ TypeOK
      /\ UNCHANGED <<heap, stored, ready, tpc, treq, held, loop, answer,
                     received, restarts>>
      /\ now' = now + 1 /\ now < MaxNow
  BY DEF IInv, Clock, Tick, turns
<1>2. now \in 0..MaxNow /\ MaxNow \in Nat /\ TTL \in Nat
  BY <1>1, StoreAssumption DEF TypeOK, StoreTypeOK
<1>3. now' \in 0..MaxNow
  BY <1>1, <1>2
<1>4. TypeOK'
  BY <1>1, <1>3 DEF TypeOK, StoreTypeOK
<1>5. ASSUME NEW t \in Turn PROVE TurnOK(t)' /\ AnswerOK(t)'
  <2>1. TurnOK(t) /\ AnswerOK(t)
    BY DEF IInv
  <2>2. answer[t].at \in Int
    BY <1>1, <1>2 DEF TypeOK
  <2>3. TurnOK(t)'
    BY <1>1, <2>1 DEF TurnOK
  <2>4. now - answer[t].at > TTL => now' - answer[t].at > TTL
    BY <1>1, <1>2, <2>2
  <2>5. AnswerOK(t)'
    BY <1>1, <2>1, <2>4 DEF AnswerOK
  <2> QED
    BY <2>3, <2>5
<1>6. ClockInv'
  <2> SUFFICES ASSUME NEW s \in Session, heap[s] # NULL
               PROVE  heap[s].last_active_at <= now'
    BY <1>1 DEF ClockInv
  <2>1. heap[s].last_active_at \in Int /\ heap[s].last_active_at <= now
    BY <1>1, <1>2 DEF IInv, TypeOK, StoreTypeOK, ChatSession, ClockInv
  <2> QED
    BY <1>1, <1>2, <2>1
<1>7. OwnMessages'
  BY <1>1 DEF IInv, OwnMessages
<1>8. Bounded'
  BY <1>1 DEF IInv, Bounded, InFlight
<1> QED
  BY <1>4, <1>5, <1>6, <1>7, <1>8 DEF IInv

\* The process starts again.
LEMMA RestartStep ==
  ASSUME IInv, Restart
  PROVE  IInv'
<1>1. /\ TypeOK /\ ready' \in BOOLEAN /\ received' = received
      /\ heap' = heap /\ now' = now /\ stored' = {}
      /\ restarts < MaxRestarts /\ restarts' = restarts + 1
      /\ tpc' = [t \in Turn |-> "idle"]
      /\ treq' = [t \in Turn |-> NULL]
      /\ held' = [t \in Turn |-> NULL]
      /\ loop' = [t \in Turn |-> NoLoop]
      /\ answer' = [t \in Turn |-> Unanswered]
  BY DEF IInv, Restart, Forget
<1>2. HeapGrows
  BY <1>1, SameHeapGrows
<1>3. restarts' \in 0..MaxRestarts
  BY <1>1, AgentAssumption DEF TypeOK
<1>4. /\ "idle" \in TPC /\ NoLoop \in Loop
      /\ Unanswered \in [code : Code, at : 0..MaxNow]
  BY AgentAssumption, StoreAssumption DEF TPC, NoLoop, Loop, Unanswered, Code
<1>5. TypeOK'
  BY <1>1, <1>2, <1>3, <1>4 DEF TypeOK, StoreTypeOK, HeapGrows
<1>6. \A t \in Turn : TurnOK(t)' /\ AnswerOK(t)'
  BY <1>1 DEF TurnOK, AnswerOK, Engine, Unanswered
<1>7. Bounded'
  <2>1. stored' \cup InFlight' \subseteq stored \cup InFlight
    BY <1>1 DEF InFlight
  <2> QED
    BY <2>1, FewerBounded
<1> QED
  BY <1>2, <1>5, <1>6, <1>7 DEF IInv, HeapGrows
-----------------------------------------------------------------------------
\* The first state has the invariant.
LEMMA InitOK ==
  ASSUME Init
  PROVE  IInv
<1>1. /\ heap = [s \in Session |-> NULL] /\ stored = {} /\ now = 0
      /\ tpc = [t \in Turn |-> "idle"]
      /\ answer = [t \in Turn |-> Unanswered]
  BY DEF Init, StoreInit
<1>2. /\ "idle" \in TPC /\ NoLoop \in Loop
      /\ Unanswered \in [code : Code, at : 0..MaxNow]
      /\ 0 \in 0..MaxNow /\ 0 \in 0..MaxTurns /\ 0 \in 0..MaxRestarts
  BY AgentAssumption, StoreAssumption DEF TPC, NoLoop, Loop, Unanswered, Code
<1>3. TypeOK
  BY <1>1, <1>2 DEF Init, TypeOK, StoreTypeOK
<1>4. \A t \in Turn : TurnOK(t) /\ AnswerOK(t)
  BY <1>1 DEF TurnOK, AnswerOK, Engine, Unanswered
<1>5. ClockInv /\ OwnMessages
  BY <1>1 DEF ClockInv, OwnMessages
<1>6. Bounded
  <2>1. stored \cup InFlight = {}
    BY <1>1 DEF InFlight
  <2>2. Cardinality(stored \cup InFlight) = 0
    BY <2>1, FS_EmptySet
  <2>3. PICK t \in Turn : TRUE
    BY AgentAssumption
  <2>4. Cardinality(Turn) \in Nat /\ Cardinality(Turn) # 0
    BY <2>3, FS_CardinalityType, FS_EmptySet, AgentAssumption
  <2> QED
    BY <2>2, <2>4, StoreAssumption DEF Bounded
<1> QED
  BY <1>3, <1>4, <1>5, <1>6 DEF IInv

\* Every step keeps the invariant.
LEMMA StepOK ==
  ASSUME IInv, [Next]_vars
  PROVE  IInv'
<1>1. ASSUME NEW t \in Turn, TurnStep(t) PROVE IInv'
  BY <1>1, GetStep, CreateStep, StartRunStep, LlmRepliesStep, LlmFailsStep,
     LlmAsksStep, RunToolsStep, RecordRaisesStep, FinishStep DEF TurnStep
<1>2. CASE UNCHANGED vars
  <2>1. UNCHANGED <<heap, stored, now, ready, tpc, treq, held, loop, answer,
                    received, restarts>>
    BY <1>2 DEF vars, sessions, turns
  <2>2. TypeOK' /\ ClockInv' /\ OwnMessages'
    BY <2>1 DEF IInv, TypeOK, StoreTypeOK, ClockInv, OwnMessages
  <2>3. \A t \in Turn : TurnOK(t)' /\ AnswerOK(t)'
    BY <2>1 DEF IInv, TurnOK, AnswerOK
  <2>4. Bounded'
    BY <2>1 DEF IInv, Bounded, InFlight
  <2> QED
    BY <2>2, <2>3, <2>4 DEF IInv
<1> QED
  BY <1>1, <1>2, ReceiveStep, ClientGoneStep, ClockStep, RestartStep DEF Next

\* The inductive invariant holds in every behaviour of the chat service.
THEOREM ChatInvariance == Spec => []IInv
<1>1. Init => IInv
  BY InitOK
<1>2. IInv /\ [Next]_vars => IInv'
  BY StepOK
<1> QED
  BY <1>1, <1>2, PTL DEF Spec

\* The store, the turns and the loop counters keep their types; the tool loop
\* never counts beyond its cap.
THEOREM ChatTypeCorrect == Spec => []TypeOK
<1>1. IInv => TypeOK
  BY DEF IInv
<1> QED
  BY <1>1, ChatInvariance, PTL

\* Whatever id a client names and however the critical sections of the store
\* interleave, a conversation only holds messages of its owner.
THEOREM ConversationsPrivate == Spec => []OwnMessages
<1>1. IInv => OwnMessages
  BY DEF IInv
<1> QED
  BY <1>1, ChatInvariance, PTL

\* An answered conversation can be continued for TTL, although another turn
\* may have evicted it while the model was thinking.
THEOREM AnsweredConversationsKept == Spec => []AnsweredIsKept
<1>1. IInv => AnsweredIsKept
  BY DEF IInv, AnswerOK, AnsweredIsKept
<1> QED
  BY <1>1, ChatInvariance, PTL

\* The store outgrows its capacity by less than the turns in flight.
THEOREM StoreStaysBounded == Spec => []StoreBounded
<1>1. ASSUME IInv PROVE StoreBounded
  <2>1. stored \cup InFlight \subseteq Session
    BY <1>1 DEF IInv, TypeOK, StoreTypeOK, InFlight
  <2>2. IsFiniteSet(stored \cup InFlight)
    BY <2>1, FS_Subset, StoreAssumption
  <2>3. /\ IsFiniteSet(stored)
        /\ Cardinality(stored) <= Cardinality(stored \cup InFlight)
    BY <2>2, FS_Subset
  <2>4. /\ Cardinality(stored) \in Nat
        /\ Cardinality(stored \cup InFlight) \in Nat
        /\ Cardinality(Turn) \in Nat
    BY <2>2, <2>3, FS_CardinalityType, AgentAssumption
  <2>5. Cardinality(stored \cup InFlight)
          <= MaxSessions + Cardinality(Turn) - 1
    BY <1>1 DEF IInv, Bounded
  <2> QED
    BY <2>3, <2>4, <2>5, StoreAssumption DEF StoreBounded
<1> QED
  BY <1>1, ChatInvariance, PTL
-----------------------------------------------------------------------------
(***************************************************************************)
(* The history of a conversation can always be sent to the model provider, *)
(* for any number of sessions, turns and restarts, as long as clients do   *)
(* not overlap turns of one session (OneTurnPerSession).                   *)
(*                                                                         *)
(* ToolsPaired is not inductive.  A message may be appended only if the    *)
(* history does not end in a tool_use of somebody else: that needs that    *)
(* two turns in flight share no session (Alone), also not one that is      *)
(* still to be created (Minted), and a turn that runs its tools must find  *)
(* its own request at the end of the history (Pending).                    *)
(***************************************************************************)

\* The sessions a turn in flight has named or works on.
Uses(t) == {treq[t].session, held[t]} \ {NULL}

Alone ==
  \A t, u \in Turn :
    t # u /\ tpc[t] # "idle" /\ tpc[u] # "idle" => Uses(t) \cap Uses(u) = {}

Minted ==
  \A t \in Turn : tpc[t] # "idle" => \A s \in Uses(t) : heap[s] # NULL

\* The history h ends in a request for a tool, made by turn t; its arguments are
\* an object or not.
AsksLast(h, t, object) ==
  /\ h # << >>
  /\ h[Len(h)].kind = "tool_use" /\ h[Len(h)].by = t
  /\ h[Len(h)].error <=> ~object

Pending ==
  \A t \in Turn :
    tpc[t] = "tools" => AsksLast(heap[held[t]].messages, t, loop[t].object)

\* The tool_use messages of h that are not followed by their tool_result are those
\* whose arguments are no object, but for the last message when open is true.
Paired(h, open) ==
  \A k \in 1..Len(h) :
    h[k].kind = "tool_use" =>
      \/ AnsweredAt(h, k) <=> ~h[k].error
      \/ k = Len(h) /\ open

Known == stored \cup InFlight

AllPaired == \A s \in Known : Paired(heap[s].messages, PendingIn(s))

PairsInv ==
  /\ IInv
  /\ Alone
  /\ Minted
  /\ Pending
  /\ AllPaired
-----------------------------------------------------------------------------
(***************************************************************************)
(* Histories.                                                              *)
(***************************************************************************)
\* Whether the k-th message is answered does not depend on later ones.
LEMMA AnsweredStays ==
  ASSUME NEW h \in Seq(Message), NEW m \in Message, NEW k \in 1..Len(h)
  PROVE  /\ Append(h, m)[k] = h[k]
         /\ k < Len(h) => (AnsweredAt(Append(h, m), k) <=> AnsweredAt(h, k))
         /\ k = Len(h) => /\ ~AnsweredAt(h, k)
                          /\ AnsweredAt(Append(h, m), k) <=>
                               m.kind = "tool_result" /\ m.by = h[k].by
  <1>1. /\ Len(h) \in Nat /\ Len(Append(h, m)) = Len(h) + 1
        /\ \A j \in 1..Len(h) : Append(h, m)[j] = h[j]
        /\ Append(h, m)[Len(h) + 1] = m
    BY AppendProperties, LenProperties
  <1>2. CASE k < Len(h)
    <2>1. k + 1 \in 1..Len(h) /\ k < Len(h) + 1
      BY <1>1, <1>2
    <2>2. QED
      BY <1>1, <1>2, <2>1 DEF AnsweredAt
  <1>3. CASE k = Len(h)
    BY <1>1, <1>3 DEF AnsweredAt
  <1>4. QED
    BY <1>1, <1>2, <1>3

\* An appended message that is no result closes no gap of a closed history, and
\* opens none.
LEMMA AppendPaired ==
  ASSUME NEW h \in Seq(Message), NEW m \in Message, NEW open \in BOOLEAN,
         Paired(h, FALSE), m.kind = "tool_use" => open, m.kind # "tool_result"
  PROVE  Paired(Append(h, m), open)
  <1> SUFFICES ASSUME NEW k \in 1..Len(Append(h, m)),
                      Append(h, m)[k].kind = "tool_use"
               PROVE  \/ AnsweredAt(Append(h, m), k) <=> ~Append(h, m)[k].error
                      \/ k = Len(Append(h, m)) /\ open
    BY DEF Paired
  <1>1. /\ Len(h) \in Nat /\ Len(Append(h, m)) = Len(h) + 1
        /\ Append(h, m)[Len(h) + 1] = m
    BY AppendProperties, LenProperties
  <1>2. CASE k = Len(h) + 1
    BY <1>1, <1>2
  <1>3. CASE k \in 1..Len(h)
    <2>1. Append(h, m)[k] = h[k] /\ h[k].kind = "tool_use"
      BY <1>3, AnsweredStays
    <2>2. AnsweredAt(h, k) <=> ~h[k].error
      BY <1>3, <2>1 DEF Paired
    <2>3. AnsweredAt(Append(h, m), k) <=> AnsweredAt(h, k)
      BY <1>1, <1>3, AnsweredStays
    <2>4. QED
      BY <2>1, <2>2, <2>3
  <1>4. QED
    BY <1>1, <1>2, <1>3

\* The result that follows its request closes the history.
LEMMA ResultPaired ==
  ASSUME NEW h \in Seq(Message), NEW m \in Message, NEW t,
         Paired(h, TRUE), AsksLast(h, t, TRUE), m.kind = "tool_result", m.by = t
  PROVE  Paired(Append(h, m), FALSE)
  <1> SUFFICES ASSUME NEW k \in 1..Len(Append(h, m)),
                      Append(h, m)[k].kind = "tool_use"
               PROVE  AnsweredAt(Append(h, m), k) <=> ~Append(h, m)[k].error
    BY DEF Paired
  <1>1. /\ Len(h) \in Nat /\ Len(Append(h, m)) = Len(h) + 1
        /\ Append(h, m)[Len(h) + 1] = m
    BY AppendProperties, LenProperties
  <1>2. k \in 1..Len(h)
    BY <1>1
  <1>3. Append(h, m)[k] = h[k] /\ h[k].kind = "tool_use"
    BY <1>2, AnsweredStays
  <1>4. CASE k = Len(h)
    <2>1. AnsweredAt(Append(h, m), k)
      BY <1>2, <1>4, AnsweredStays DEF AsksLast
    <2>2. ~h[k].error
      BY <1>4 DEF AsksLast
    <2>3. QED
      BY <1>3, <2>1, <2>2
  <1>5. CASE k < Len(h)
    <2>1. AnsweredAt(h, k) <=> ~h[k].error
      BY <1>1, <1>2, <1>3, <1>5 DEF Paired
    <2>2. AnsweredAt(Append(h, m), k) <=> AnsweredAt(h, k)
      BY <1>2, <1>5, AnsweredStays
    <2>3. QED
      BY <1>3, <2>1, <2>2
  <1>6. QED
    BY <1>1, <1>2, <1>4, <1>5

\* A request whose arguments are no object is the gap that its turn leaves.
LEMMA RaisePaired ==
  ASSUME NEW h \in Seq(Message), NEW t, Paired(h, TRUE), AsksLast(h, t, FALSE)
  PROVE  Paired(h, FALSE)
  <1> SUFFICES ASSUME NEW k \in 1..Len(h), h[k].kind = "tool_use"
               PROVE  AnsweredAt(h, k) <=> ~h[k].error
    BY DEF Paired
  <1>1. Len(h) \in Nat
    BY LenProperties
  <1>2. CASE k = Len(h)
    <2>1. ~AnsweredAt(h, k)
      BY <1>1, <1>2 DEF AnsweredAt
    <2>2. h[k].error
      BY <1>2 DEF AsksLast
    <2>3. QED
      BY <2>1, <2>2
  <1>3. CASE k # Len(h)
    BY <1>1, <1>3 DEF Paired
  <1>4. QED
    BY <1>2, <1>3

\* A history with no messages is paired.
LEMMA EmptyPaired == \A open : Paired(<< >>, open)
  BY DEF Paired
-----------------------------------------------------------------------------
(***************************************************************************)
(* Steps.                                                                  *)
(***************************************************************************)
\* A step of turn t that appends nothing and works on no other session.
LEMMA QuietPairs ==
  ASSUME PairsInv, IInv', NEW t \in Turn, OnlyTurn(t),
         tpc[t] # "tools", tpc'[t] # "tools",
         \A s \in Session : heap[s] # NULL =>
           heap'[s] # NULL /\ heap'[s].messages = heap[s].messages,
         Known' \subseteq Known,
         tpc'[t] # "idle" =>
           /\ \A u \in Turn \ {t} : tpc[u] # "idle" =>
                Uses(t)' \cap Uses(u) = {}
           /\ \A s \in Uses(t)' : s \in Session /\ heap[s] # NULL
  PROVE  PairsInv'
  <1>1. /\ IInv /\ Alone /\ Minted /\ Pending /\ AllPaired
    BY DEF PairsInv
  <1>2. \A u \in Turn \ {t} :
          /\ tpc'[u] = tpc[u] /\ treq'[u] = treq[u] /\ held'[u] = held[u]
          /\ loop'[u] = loop[u]
    BY DEF OnlyTurn
  <1>3. \A u \in Turn \ {t} : Uses(u)' = Uses(u)
    BY <1>2 DEF Uses
  <1>4. \A u \in Turn : tpc[u] # "idle" => Uses(u) \subseteq Session
    BY <1>1 DEF IInv, TypeOK, TurnOK, Uses, ChatRequest
  <1>5. Alone'
    BY <1>1, <1>2, <1>3 DEF Alone
  <1>6. Minted'
    BY <1>1, <1>2, <1>3, <1>4 DEF Minted
  <1>7. \A u \in Turn : tpc'[u] = "tools" =>
          /\ u # t /\ tpc[u] = "tools" /\ held'[u] = held[u]
          /\ loop'[u] = loop[u] /\ held[u] \in Session /\ heap[held[u]] # NULL
    BY <1>1, <1>2 DEF IInv, TurnOK, Engine
  <1>8. Pending'
    BY <1>1, <1>7 DEF Pending
  <1>9. \A s : PendingIn(s)' <=> PendingIn(s)
    BY <1>2 DEF PendingIn
  <1>10. Known \subseteq Session /\ \A s \in Known : heap[s] # NULL
    BY <1>1 DEF Known, InFlight, IInv, TypeOK, StoreTypeOK, TurnOK, Engine, TPC
  <1>11. AllPaired'
    <2> SUFFICES ASSUME NEW s \in Known'
                 PROVE  Paired(heap'[s].messages, PendingIn(s)')
      BY DEF AllPaired
    <2>1. Paired(heap[s].messages, PendingIn(s)) /\ heap'[s].messages = heap[s].messages
      BY <1>1, <1>10 DEF AllPaired
    <2>2. QED
      BY <1>9, <2>1 DEF Paired
  <1>12. QED
    BY <1>5, <1>6, <1>8, <1>11 DEF PairsInv

\* Such a step that ends the turn, or keeps its sessions.
LEMMA SameUsesPairs ==
  ASSUME PairsInv, IInv', NEW t \in Turn, OnlyTurn(t),
         tpc[t] \notin {"tools", "idle"}, tpc'[t] # "tools",
         \A s \in Session : heap[s] # NULL =>
           heap'[s] # NULL /\ heap'[s].messages = heap[s].messages,
         Known' \subseteq Known,
         tpc'[t] # "idle" => Uses(t)' \subseteq Uses(t)
  PROVE  PairsInv'
  <1>1. tpc'[t] # "idle" => \A u \in Turn \ {t} :
          tpc[u] # "idle" => Uses(t)' \cap Uses(u) = {}
    BY DEF PairsInv, Alone
  <1>2. Uses(t) \subseteq Session /\ \A s \in Uses(t) : heap[s] # NULL
    BY DEF PairsInv, Minted, IInv, TypeOK, TurnOK, Uses, ChatRequest
  <1>3. QED
    BY <1>1, <1>2, QuietPairs

\* A request arrives: the turn uses the session it names, and no other does.
LEMMA ReceivePairs ==
  ASSUME OneTurnPerSession, PairsInv, IInv', NEW t \in Turn,
         NEW r \in Requests, Receive(t, r)
  PROVE  PairsInv'
  <1>1. TypeOK /\ tpc[t] = "idle" /\ UNCHANGED <<heap, stored>>
    BY DEF PairsInv, IInv, Receive, sessions
  <1>2. /\ OnlyTurn(t) /\ held'[t] = NULL
        /\ tpc'[t] \in {"idle", "create", "get"}
        /\ tpc'[t] # "idle" => treq'[t] = r
    BY <1>1 DEF Receive, End, OnlyTurn, TypeOK
  <1>3. Known' \subseteq Known
    BY <1>1, <1>2, InFlightGains DEF Known
  <1>4. tpc'[t] # "idle" => Uses(t)' = {r.session} \ {NULL}
    BY <1>2 DEF Uses
  <1>5. r.session \in Session \cup {NULL}
    BY DEF Requests
  <1>6. r.session # NULL =>
          /\ heap[r.session] # NULL
          /\ \A u \in Turn : tpc[u] # "idle" => r.session \notin Uses(u)
    BY DEF Receive, InUse, Uses
  <1>7. QED
    BY <1>1, <1>2, <1>3, <1>4, <1>5, <1>6, QuietPairs

\* A touched object has the same messages.
LEMMA TouchMessages ==
  ASSUME TypeOK, NEW s \in Session, heap[s] # NULL, Touch(s), HeapGrows
  PROVE  \A x \in Session : heap[x] # NULL =>
           heap'[x] # NULL /\ heap'[x].messages = heap[x].messages
  <1>1. /\ heap \in [Session -> ChatSession \cup {NULL}]
        /\ heap[s] \in ChatSession
        /\ heap' = [heap EXCEPT ![s].last_active_at = now]
    BY DEF TypeOK, StoreTypeOK, Touch
  <1>2. heap'[s].messages = heap[s].messages
    BY <1>1 DEF ChatSession
  <1>3. \A x \in Session \ {s} : heap'[x] = heap[x]
    BY <1>1
  <1>4. QED
    BY <1>2, <1>3 DEF HeapGrows

\* get_session hands out an object that the turn already uses by name.
LEMMA GetPairs ==
  ASSUME PairsInv, IInv', NEW t \in Turn, GetSession(t)
  PROVE  PairsInv'
  <1> DEFINE s == treq[t].session
             u == treq[t].user
  <1>1. /\ TypeOK /\ TurnOK(t) /\ tpc[t] = "get" /\ loop' = loop /\ IInv
        /\ now' = now
    BY DEF PairsInv, IInv, GetSession, GetHit, GetMiss
  <1>2. s \in Session /\ s # NULL
    BY <1>1, StoreAssumption DEF TurnOK
  <1>3. CASE GetHit(s, u) /\ held' = [held EXCEPT ![t] = s] /\ Goto(t, "opened")
    <2>1. s \in stored /\ heap[s] # NULL /\ Touch(s) /\ stored' = stored
      BY <1>1, <1>3 DEF GetHit, Finds, TypeOK, StoreTypeOK
    <2>2. HeapGrows
      BY <1>1, <1>2, <2>1, TouchGrows
    <2>3. \A x \in Session : heap[x] # NULL =>
            heap'[x] # NULL /\ heap'[x].messages = heap[x].messages
      BY <1>1, <1>2, <2>1, <2>2, TouchMessages
    <2>4. /\ OnlyTurn(t) /\ tpc'[t] = "opened" /\ treq'[t] = treq[t]
          /\ held'[t] = s
      BY <1>1, <1>3 DEF Goto, TypeOK, OnlyTurn
    <2>5. Uses(t)' \subseteq Uses(t)
      BY <2>4 DEF Uses
    <2>6. Known' \subseteq Known
      BY <1>1, <2>1, <2>4, InFlightGains DEF Known
    <2>7. QED
      BY <1>1, <2>3, <2>4, <2>5, <2>6, SameUsesPairs
  <1>4. CASE GetMiss(s, u) /\ Goto(t, "create") /\ held' = held
    <2>1. /\ heap' = heap /\ stored' \subseteq stored
      BY <1>4 DEF GetMiss
    <2>2. /\ OnlyTurn(t) /\ tpc'[t] = "create" /\ treq'[t] = treq[t]
          /\ held'[t] = held[t] /\ held[t] = NULL
      BY <1>1, <1>4 DEF Goto, TypeOK, OnlyTurn, TurnOK
    <2>3. Uses(t)' \subseteq Uses(t)
      BY <2>2 DEF Uses
    <2>4. Known' \subseteq Known
      BY <1>1, <2>1, <2>2, InFlightGains DEF Known
    <2>5. QED
      BY <1>1, <2>1, <2>2, <2>3, <2>4, SameUsesPairs
  <1>5. QED
    BY <1>3, <1>4 DEF GetSession

\* A turn that ends where its history has no gap.
LEMMA EndPairs ==
  ASSUME PairsInv, IInv', NEW t \in Turn, NEW code, End(t, code),
         tpc[t] \notin {"idle", "tools"},
         \A s \in Session : heap[s] # NULL =>
           heap'[s] # NULL /\ heap'[s].messages = heap[s].messages,
         UNCHANGED held, stored' \subseteq Known
  PROVE  PairsInv'
  <1>1. TypeOK
    BY DEF PairsInv, IInv
  <1>2. OnlyTurn(t) /\ tpc'[t] = "idle"
    BY <1>1 DEF End, OnlyTurn, TypeOK
  <1>3. InFlight' \subseteq InFlight
    BY <1>2 DEF InFlight, OnlyTurn
  <1>4. QED
    BY <1>2, <1>3, SameUsesPairs DEF Known

\* A new session has an empty history, and no turn has it in use.
LEMMA CreatePairs ==
  ASSUME PairsInv, IInv', NEW t \in Turn, CreateSession(t)
  PROVE  PairsInv'
  <1>1. TypeOK /\ TurnOK(t) /\ tpc[t] = "create" /\ IInv
    BY DEF PairsInv, IInv, CreateSession
  <1>2. CASE CreateRefused /\ End(t, "full") /\ UNCHANGED held
    BY <1>1, <1>2, EndPairs DEF CreateRefused, Live, Known
  <1>3. ASSUME NEW s \in Session, CreateNew(s, treq[t].user),
               held' = [held EXCEPT ![t] = s], Goto(t, "opened"),
               UNCHANGED loop
        PROVE  PairsInv'
    <2>1. /\ heap[s] = NULL /\ stored' \subseteq stored \cup {s}
          /\ heap'[s] = [user_id |-> treq[t].user, messages |-> << >>,
                         last_active_at |-> now]
          /\ \A x \in Session \ {s} : heap'[x] = heap[x]
      BY <1>1, <1>3 DEF CreateNew, Live, TypeOK, StoreTypeOK
    <2>2. heap'[s].messages = << >> /\ heap'[s] # NULL
      <3>1. treq[t].user \in User
        BY <1>1 DEF TurnOK, ChatRequest
      <3>2. heap'[s] # NULL
        BY <1>1, <1>3, <3>1, NewGrows
      <3>3. QED
        BY <2>1, <3>2
    <2>3. /\ OnlyTurn(t) /\ tpc'[t] = "opened" /\ treq'[t] = treq[t]
          /\ held'[t] = s
      BY <1>1, <1>3 DEF Goto, TypeOK, OnlyTurn
    <2>4. \A u \in Turn \ {t} :
            /\ tpc'[u] = tpc[u] /\ held'[u] = held[u] /\ Uses(u)' = Uses(u)
            /\ loop'[u] = loop[u]
      BY <2>3 DEF OnlyTurn, Uses
    <2>5. \A u \in Turn : tpc[u] # "idle" =>
            Uses(u) \subseteq Session \ {s} /\ \A x \in Uses(u) : heap[x] # NULL
      BY <1>1, <2>1
         DEF PairsInv, Minted, IInv, TypeOK, TurnOK, Uses, ChatRequest
    <2>6. Uses(t)' \subseteq Uses(t) \cup {s}
      BY <2>3 DEF Uses
    <2>7. Alone'
      BY <1>1, <2>4, <2>5, <2>6 DEF PairsInv, Alone
    <2>8. Minted'
      <3> SUFFICES ASSUME NEW u \in Turn, tpc'[u] # "idle", NEW x \in Uses(u)'
                   PROVE  heap'[x] # NULL
        BY DEF Minted
      <3>1. x = s \/ (x \in Session \ {s} /\ heap[x] # NULL)
        BY <1>1, <2>4, <2>5, <2>6
      <3>2. QED
        BY <2>1, <2>2, <3>1
    <2>9. \A u \in Turn : tpc'[u] = "tools" =>
            /\ u # t /\ tpc[u] = "tools" /\ held'[u] = held[u]
            /\ loop'[u] = loop[u] /\ held[u] \in Session \ {s}
      <3>1. ASSUME NEW u \in Turn, tpc'[u] = "tools"
            PROVE  /\ u # t /\ tpc[u] = "tools" /\ held'[u] = held[u]
                   /\ loop'[u] = loop[u]
        BY <2>3, <2>4, <3>1
      <3>2. ASSUME NEW u \in Turn, tpc[u] = "tools"
            PROVE  held[u] \in Session \ {s}
        BY <1>1, <2>1, <3>2 DEF IInv, TurnOK, Engine
      <3>3. QED
        BY <3>1, <3>2
    <2>10. Pending'
      BY <2>1, <2>9 DEF PairsInv, Pending
    <2>11. AllPaired'
      <3> SUFFICES ASSUME NEW x \in Known'
                   PROVE  Paired(heap'[x].messages, PendingIn(x)')
        BY DEF AllPaired
      <3>1. CASE x = s
        BY <2>2, <3>1, EmptyPaired
      <3>2. CASE x # s
        <4>1. x \in Known
          BY <1>1, <2>1, <2>3, <3>2, InFlightGains DEF Known
        <4>2. x \in Session
          BY <1>1, <4>1 DEF Known, InFlight, TypeOK, StoreTypeOK
        <4>3. PendingIn(x)' <=> PendingIn(x)
          BY <1>1, <2>3, <2>4, <3>2 DEF PendingIn
        <4>4. Paired(heap[x].messages, PendingIn(x))
          BY <4>1 DEF PairsInv, AllPaired
        <4>5. QED
          BY <2>1, <3>2, <4>2, <4>3, <4>4 DEF Paired
      <3>3. QED
        BY <3>1, <3>2
    <2>12. QED
      BY <2>7, <2>8, <2>10, <2>11 DEF PairsInv
  <1>4. QED
    BY <1>2, <1>3 DEF CreateSession

\* The message m of turn t is the new last one of the session that it holds.
Appended(t, kind, e, m) ==
  /\ m.kind = kind /\ m.by = t /\ (m.error <=> e)
  /\ heap'[held[t]].messages = Append(heap[held[t]].messages, m)

\* What Says does to the objects.
LEMMA SaysFacts ==
  ASSUME IInv, NEW t \in Turn, tpc[t] \in Engine,
         NEW kind \in Kind, NEW tool \in Tool \cup {NULL}, NEW e \in BOOLEAN,
         Says(t, kind, tool, e)
  PROVE  /\ held[t] \in Session /\ heap[held[t]] # NULL
         /\ heap[held[t]].messages \in Seq(Message)
         /\ \E m \in Message : Appended(t, kind, e, m)
         /\ \A x \in Session \ {held[t]} : heap'[x] = heap[x]
         /\ \A x \in Session : heap[x] # NULL => heap'[x] # NULL
         /\ stored' = stored
  <1> DEFINE s == held[t]
             m == [kind |-> kind, by |-> t, user |-> treq[t].user,
                   tool |-> tool, error |-> e]
             o == [heap[s] EXCEPT !.messages = Append(@, m),
                                  !.last_active_at = now]
  <1>1. /\ s \in Session /\ heap[s] \in ChatSession /\ heap[s] # NULL
        /\ treq[t] \in ChatRequest
        /\ heap \in [Session -> ChatSession \cup {NULL}]
    BY DEF IInv, TypeOK, StoreTypeOK, TurnOK, Engine
  <1>2. /\ m \in Message /\ m.kind = kind /\ m.by = t
        /\ m.error <=> e
    BY <1>1, AgentAssumption DEF TurnMessage, ChatRequest
  <1>3. heap' = [heap EXCEPT ![s] = o] /\ stored' = stored
    BY DEF Says, AppendMessage
  <1>4. HeapGrows
    BY AppendGrows
  <1> HIDE DEF m, s
  <1>5. o.messages = Append(heap[s].messages, m)
    BY <1>1 DEF ChatSession
  <1>6. heap[s].messages \in Seq(Message)
    BY <1>1 DEF ChatSession
  <1> HIDE DEF o
  <1>7. heap'[s] = o /\ \A x \in Session \ {s} : heap'[x] = heap[x]
    BY <1>1, <1>3
  <1>8. QED
    BY <1>1, <1>2, <1>3, <1>4, <1>5, <1>6, <1>7 DEF HeapGrows, Appended, s

\* A turn says something: it is alone at the end of its history.
LEMMA SaysPairs ==
  ASSUME PairsInv, IInv', NEW t \in Turn, tpc[t] \in Engine,
         NEW kind \in Kind, NEW tool \in Tool \cup {NULL}, NEW e \in BOOLEAN,
         Says(t, kind, tool, e),
         OnlyTurn(t), held' = held, tpc'[t] # "idle" => treq'[t] = treq[t],
         kind = "tool_use" <=> tpc'[t] = "tools",
         kind = "tool_use" => (e <=> ~loop'[t].object),
         kind = "tool_result" <=> tpc[t] = "tools",
         kind = "tool_result" => loop[t].object
  PROVE  PairsInv'
  <1> DEFINE s == held[t]
             h == heap[s].messages
  <1>1. /\ IInv /\ Alone /\ Minted /\ Pending /\ AllPaired /\ TypeOK
        /\ tpc[t] # "idle"
    BY DEF PairsInv, IInv, Engine
  <1>2. /\ s \in Session /\ heap[s] # NULL /\ h \in Seq(Message)
        /\ \A x \in Session \ {s} : heap'[x] = heap[x]
        /\ \A x \in Session : heap[x] # NULL => heap'[x] # NULL
        /\ stored' = stored
    BY <1>1, SaysFacts
  <1>3. PICK m \in Message : Appended(t, kind, e, m)
    BY <1>1, SaysFacts
  <1>4. m.kind = kind /\ m.by = t /\ heap'[s].messages = Append(h, m)
    BY <1>3 DEF Appended
  <1>5. s # NULL
    BY <1>2, StoreAssumption
  <1>6. \A u \in Turn : held'[u] = held[u]
    OBVIOUS
  <1>7. \A u \in Turn \ {t} : tpc'[u] = tpc[u] /\ Uses(u)' = Uses(u)
    BY DEF OnlyTurn, Uses
  <1>8. tpc'[t] # "idle" => Uses(t)' = Uses(t)
    BY DEF Uses
  <1>9. \A u \in Turn \ {t} : tpc[u] # "idle" => held[u] # s
    <2>1. ASSUME NEW u \in Turn \ {t}, tpc[u] # "idle", held[u] = s
          PROVE  FALSE
      <3>1. s \in Uses(t) \cap Uses(u)
        BY <1>5, <2>1 DEF Uses
      <3>2. QED
        BY <1>1, <2>1, <3>1 DEF Alone
    <2>2. QED
      BY <2>1
  <1>10. \A u \in Turn : tpc[u] # "idle" => Uses(u) \subseteq Session
    BY <1>1 DEF IInv, TypeOK, TurnOK, Uses, ChatRequest
  <1>11. Alone'
    BY <1>1, <1>7, <1>8 DEF Alone
  <1>12. Minted'
    BY <1>1, <1>2, <1>7, <1>8, <1>10 DEF Minted
  <1>13. PendingIn(s) <=> tpc[t] = "tools"
    BY <1>1, <1>9 DEF PendingIn
  <1>14. PendingIn(s)' <=> tpc'[t] = "tools"
    BY <1>1, <1>6, <1>7, <1>9 DEF PendingIn
  <1>15. s \in Known
    BY <1>1, <1>5 DEF Known, InFlight
  <1>16. Paired(h, PendingIn(s))
    BY <1>1, <1>15 DEF AllPaired
  <1>17. Paired(Append(h, m), PendingIn(s)')
    <2>1. CASE tpc[t] # "tools"
      <3>1. Paired(h, FALSE)
        BY <1>13, <1>16, <2>1 DEF Paired
      <3>0. m.kind # "tool_result"
        BY <1>4, <2>1
      <3>2. CASE kind = "tool_use"
        <4>1. Paired(Append(h, m), TRUE)
          BY <1>2, <3>0, <3>1, AppendPaired
        <4>2. QED
          BY <1>14, <3>2, <4>1 DEF Paired
      <3>3. CASE kind # "tool_use"
        <4>1. Paired(Append(h, m), FALSE)
          BY <1>2, <1>4, <3>0, <3>1, <3>3, AppendPaired
        <4>2. QED
          BY <4>1 DEF Paired
      <3>4. QED
        BY <3>2, <3>3
    <2>2. CASE tpc[t] = "tools"
      <3>0. loop[t].object
        BY <2>2
      <3>1. Paired(h, TRUE) /\ AsksLast(h, t, TRUE)
        BY <1>1, <1>13, <1>16, <2>2, <3>0 DEF Pending, Paired, AsksLast
      <3>2. Paired(Append(h, m), FALSE)
        BY <1>2, <1>4, <2>2, <3>1, ResultPaired
      <3>3. QED
        BY <3>2 DEF Paired
    <2>3. QED
      BY <2>1, <2>2
  <1>18. Pending'
    <2> SUFFICES ASSUME NEW u \in Turn, tpc'[u] = "tools"
                 PROVE  AsksLast(heap'[held[u]].messages, u, loop'[u].object)
      BY <1>6 DEF Pending
    <2>1. CASE u = t
      <3>1. /\ Len(h) \in Nat /\ Len(Append(h, m)) = Len(h) + 1
            /\ Append(h, m)[Len(h) + 1] = m
        BY <1>2, AppendProperties, LenProperties
      <3>2. Append(h, m) # << >>
        BY <1>2, AppendProperties
      <3>3. m.error <=> ~loop'[t].object
        BY <1>3, <2>1 DEF Appended
      <3>4. QED
        BY <1>4, <2>1, <3>1, <3>2, <3>3 DEF AsksLast
    <2>2. CASE u # t
      <3>1. tpc[u] = "tools" /\ held[u] # s
        BY <1>7, <1>9, <2>2
      <3>2. held[u] \in Session
        BY <1>1, <3>1 DEF IInv, TurnOK, Engine
      <3>3. heap'[held[u]] = heap[held[u]]
        BY <1>2, <3>1, <3>2
      <3>4. AsksLast(heap[held[u]].messages, u, loop[u].object)
        BY <1>1, <3>1 DEF Pending
      <3>5. loop'[u] = loop[u]
        BY <2>2 DEF OnlyTurn
      <3>6. QED
        BY <3>3, <3>4, <3>5
    <2>3. QED
      BY <2>1, <2>2
  <1>19. AllPaired'
    <2> SUFFICES ASSUME NEW x \in Known'
                 PROVE  Paired(heap'[x].messages, PendingIn(x)')
      BY DEF AllPaired
    <2>1. CASE x = s
      BY <1>4, <1>17, <2>1
    <2>2. CASE x # s
      <3>1. x \in Known
        BY <1>1, <1>2, <1>5, <1>6, <1>15, <2>2, InFlightGains DEF Known
      <3>2. x \in Session
        BY <1>1, <3>1 DEF Known, InFlight, TypeOK, StoreTypeOK
      <3>3. PendingIn(x)' <=> PendingIn(x)
        BY <1>6, <1>7, <2>2 DEF PendingIn
      <3>4. Paired(heap[x].messages, PendingIn(x))
        BY <1>1, <3>1 DEF AllPaired
      <3>5. QED
        BY <1>2, <2>2, <3>2, <3>3, <3>4 DEF Paired
    <2>3. QED
      BY <2>1, <2>2
  <1>20. QED
    BY <1>11, <1>12, <1>18, <1>19 DEF PairsInv

\* The steps of the engine that say something.
LEMMA EnginePairs ==
  ASSUME PairsInv, IInv', NEW t \in Turn,
         \/ StartRun(t) \/ LlmReplies(t) \/ RunTools(t)
         \/ \E tool \in Tools, object \in BOOLEAN : LlmAsks(t, tool, object)
  PROVE  PairsInv'
  <1>1. TypeOK /\ IInv /\ held' = held /\ tpc[t] \in Engine
    BY DEF PairsInv, IInv, StartRun, LlmReplies, RunTools, LlmAsks, Engine
  <1>2. OnlyTurn(t) /\ (tpc'[t] # "idle" => treq'[t] = treq[t])
    BY <1>1 DEF StartRun, LlmReplies, RunTools, LlmAsks, Goto, End, OnlyTurn,
                TypeOK
  <1>3. CASE StartRun(t)
    <2>1. tpc[t] = "opened" /\ tpc'[t] = "llm" /\ Says(t, "text", NULL, FALSE)
      BY <1>1, <1>3 DEF StartRun, Goto, TypeOK
    <2>2. QED
      BY <1>1, <1>2, <2>1, SaysPairs DEF Kind
  <1>4. CASE LlmReplies(t)
    <2>1. tpc[t] = "llm" /\ tpc'[t] = "finish" /\ Says(t, "reply", NULL, FALSE)
      BY <1>1, <1>4 DEF LlmReplies, Goto, TypeOK
    <2>2. QED
      BY <1>1, <1>2, <2>1, SaysPairs DEF Kind
  <1>5. ASSUME NEW tool \in Tools, NEW object \in BOOLEAN,
               LlmAsks(t, tool, object)
        PROVE  PairsInv'
    <2>1. /\ tpc[t] = "llm" /\ tpc'[t] = "tools" /\ tool \in Tool
          /\ Says(t, "tool_use", tool, ~object)
      BY <1>1, <1>5, AgentAssumption DEF LlmAsks, Goto, TypeOK
    <2>2. ~object <=> ~loop'[t].object
      BY <1>1, <1>5, <2>1, AsksLoop DEF TypeOK
    <2>3. (~object) \in BOOLEAN
      OBVIOUS
    <2>4. QED
      BY <1>1, <1>2, <2>1, <2>2, <2>3, SaysPairs DEF Kind
  <1>6. CASE RunTools(t)
    <2>1. PICK e \in ToolErrors(loop[t].tool) :
            Says(t, "tool_result", loop[t].tool, e)
      BY <1>6 DEF RunTools
    <2>2. e \in BOOLEAN
      BY <2>1, Zenon DEF ToolErrors
    <2>3. tpc[t] = "tools" /\ loop[t].tool \in Tool /\ loop[t].object
      BY <1>1, <1>6 DEF RunTools, IInv, TurnOK
    <2>4. tpc'[t] \in {"llm", "idle"}
      BY <1>1, <1>6 DEF RunTools, Goto, End, TypeOK
    <2>5. QED
      BY <1>1, <1>2, <2>1, <2>2, <2>3, <2>4, SaysPairs DEF Kind
  <1>7. QED
    BY <1>3, <1>4, <1>5, <1>6

\* The record of a call raises: the history keeps the request without a result,
\* and no turn is about to answer it.
LEMMA RaisePairs ==
  ASSUME PairsInv, IInv', NEW t \in Turn, RecordRaises(t)
  PROVE  PairsInv'
  <1>1. /\ IInv /\ Alone /\ Minted /\ Pending /\ AllPaired /\ TypeOK
        /\ tpc[t] = "tools" /\ UNCHANGED <<heap, stored, held>>
    BY DEF PairsInv, IInv, RecordRaises, sessions
  <1>2. ~loop[t].object
    BY DEF RecordRaises
  <1>3. OnlyTurn(t) /\ tpc'[t] = "idle"
    BY <1>1 DEF RecordRaises, End, OnlyTurn, TypeOK
  <1>4. \A u \in Turn \ {t} :
          /\ tpc'[u] = tpc[u] /\ loop'[u] = loop[u] /\ Uses(u)' = Uses(u)
    BY <1>3 DEF OnlyTurn, Uses
  <1>5. Alone' /\ Minted'
    BY <1>1, <1>3, <1>4 DEF Alone, Minted
  <1>6. Pending'
    BY <1>1, <1>3, <1>4 DEF Pending
  <1>7. Known' \subseteq Known
    BY <1>1, <1>3 DEF Known, InFlight, OnlyTurn
  <1>8. held[t] \in Session /\ held[t] # NULL /\ heap[held[t]] \in ChatSession
    BY <1>1, StoreAssumption DEF IInv, TurnOK, Engine, TypeOK, StoreTypeOK
  <1>9. AllPaired'
    <2> SUFFICES ASSUME NEW x \in Known
                 PROVE  Paired(heap[x].messages, PendingIn(x)')
      BY <1>1, <1>7 DEF AllPaired
    <2>1. Paired(heap[x].messages, PendingIn(x))
      BY <1>1 DEF AllPaired
    <2>2. CASE x = held[t]
      <3>1. heap[x].messages \in Seq(Message)
        BY <1>8, <2>2 DEF ChatSession
      <3>2. AsksLast(heap[x].messages, t, FALSE)
        BY <1>1, <1>2, <2>2 DEF Pending, AsksLast
      <3>3. Paired(heap[x].messages, TRUE)
        BY <2>1 DEF Paired
      <3>4. Paired(heap[x].messages, FALSE)
        BY <3>1, <3>2, <3>3, RaisePaired
      <3>5. QED
        BY <3>4 DEF Paired
    <2>3. CASE x # held[t]
      <3>1. PendingIn(x)' <=> PendingIn(x)
        BY <1>1, <1>3, <1>4, <2>3 DEF PendingIn
      <3>2. QED
        BY <2>1, <3>1 DEF Paired
    <2>4. QED
      BY <2>2, <2>3
  <1>10. QED
    BY <1>5, <1>6, <1>9 DEF PairsInv

\* The steps that end a turn outside of its tools.
LEMMA EndingPairs ==
  ASSUME PairsInv, IInv', NEW t \in Turn,
         ClientGone(t) \/ LlmFails(t) \/ FinishTurn(t)
  PROVE  PairsInv'
  <1>1. TypeOK /\ IInv /\ held' = held
    BY DEF PairsInv, IInv, ClientGone, LlmFails, FinishTurn
  <1>2. CASE ClientGone(t) \/ LlmFails(t)
    BY <1>1, <1>2, EndPairs DEF ClientGone, LlmFails, sessions, Known
  <1>3. CASE FinishTurn(t)
    <2>1. /\ tpc[t] = "finish" /\ tpc[t] \in Engine /\ Touch(held[t])
          /\ stored' = stored \cup {held[t]} /\ now' = now /\ End(t, "ok")
      BY <1>3 DEF FinishTurn, Save, Engine
    <2>2. held[t] \in Session /\ heap[held[t]] # NULL /\ held[t] # NULL
      BY <1>1, <2>1, StoreAssumption DEF IInv, TurnOK
    <2>3. HeapGrows
      BY <1>1, <2>1, <2>2, TouchGrows
    <2>4. \A x \in Session : heap[x] # NULL =>
            heap'[x] # NULL /\ heap'[x].messages = heap[x].messages
      BY <1>1, <2>1, <2>2, <2>3, TouchMessages
    <2>5. stored' \subseteq Known
      BY <2>1, <2>2 DEF Known, InFlight
    <2>6. QED
      BY <1>1, <2>1, <2>4, <2>5, EndPairs
  <1>4. QED
    BY <1>2, <1>3

\* A restart forgets every session, with the gaps that turns have left.
LEMMA RestartPairs ==
  ASSUME IInv', Restart
  PROVE  PairsInv'
  <1>1. /\ stored' = {} /\ \A t \in Turn : tpc'[t] = "idle"
    BY DEF Restart, Forget
  <1>2. Known' = {}
    BY <1>1 DEF Known, InFlight
  <1>3. QED
    BY <1>1, <1>2 DEF PairsInv, Alone, Minted, Pending, AllPaired

\* Time passes, or nothing happens.
LEMMA StutterPairs ==
  ASSUME PairsInv, IInv', UNCHANGED <<heap, stored, turns>>
  PROVE  PairsInv'
  <1>1. UNCHANGED <<heap, stored, tpc, treq, held, loop>>
    BY DEF turns
  <1>2. /\ Known' = Known /\ \A s : PendingIn(s)' <=> PendingIn(s)
        /\ \A t \in Turn : Uses(t)' = Uses(t)
    BY <1>1 DEF Known, InFlight, PendingIn, Uses
  <1>3. Alone' /\ Minted' /\ Pending'
    BY <1>1, <1>2 DEF PairsInv, Alone, Minted, Pending
  <1>4. AllPaired'
    BY <1>1, <1>2 DEF PairsInv, AllPaired, Paired
  <1>5. QED
    BY <1>3, <1>4 DEF PairsInv
-----------------------------------------------------------------------------
\* The first state has the invariant.
LEMMA InitPairs == Init => PairsInv
  <1> SUFFICES ASSUME Init PROVE PairsInv
    OBVIOUS
  <1>1. IInv
    BY InitOK
  <1>2. stored = {} /\ \A t \in Turn : tpc[t] = "idle"
    BY DEF Init, StoreInit
  <1>3. Known = {}
    BY <1>2 DEF Known, InFlight
  <1>4. QED
    BY <1>1, <1>2, <1>3 DEF PairsInv, Alone, Minted, Pending, AllPaired

\* Every step keeps it, if clients do not overlap turns of one session.
LEMMA NextPairs ==
  ASSUME OneTurnPerSession
  PROVE  PairsInv /\ [Next]_vars => PairsInv'
  <1> SUFFICES ASSUME PairsInv, [Next]_vars PROVE PairsInv'
    OBVIOUS
  <1>1. IInv'
    BY StepOK DEF PairsInv
  <1>2. ASSUME NEW t \in Turn, TurnStep(t) \/ ClientGone(t) PROVE PairsInv'
    BY <1>1, <1>2, GetPairs, CreatePairs, EnginePairs, EndingPairs, RaisePairs
       DEF TurnStep
  <1>3. CASE Clock \/ UNCHANGED vars
    BY <1>1, <1>3, StutterPairs DEF Clock, Tick, vars, sessions
  <1>4. QED
    BY <1>1, <1>2, <1>3, ReceivePairs, RestartPairs DEF Next

\* When clients do not overlap turns of one session, every request for a tool is
\* followed by its result before anything else, unless its arguments are no object:
\* then the engine has raised, and the conversation keeps the gap.
THEOREM HistoriesPaired ==
  ASSUME OneTurnPerSession
  PROVE  Spec => []ToolsPaired
  <1>1. PairsInv => ToolsPaired
    BY DEF PairsInv, AllPaired, Known, Paired, ToolsPaired
  <1>2. QED
    BY <1>1, InitPairs, NextPairs, PTL DEF Spec
=============================================================================
