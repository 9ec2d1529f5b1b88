------------------------------ MODULE ChatAgent ------------------------------
(***************************************************************************)
(* POST /ai/chat of the AI service: routers/chat.py, services/             *)
(* chat_engine.py and services/chat_tools.py on top of the session store.  *)
(* Starlette serves requests in threads, so several turns are in flight at *)
(* once, also turns of one session.  A turn fetches or creates its session *)
(* and then runs the engine: the user's text, then calls of the language   *)
(* model and of the tools it asks for, each of them taking any time, until *)
(* the model answers in plain text.  The history of a session is the list  *)
(* of messages that the next call sends to the model.                      *)
(***************************************************************************)
EXTENDS SessionStore

CONSTANTS
  Turn,           \* the turns that may be in flight at once
  MaxIterations,  \* MAX_ITERATIONS of the engine's tool loop
  MaxTurns,       \* bound: requests received in a behaviour
  MaxRestarts,    \* bound: restarts of the process
  Streams,        \* the values that the "stream" field may have
  Tools,          \* the tools the model may ask for
  OneTurnPerSession  \* clients never overlap turns of one session

Kind == {"text", "reply", "tool_use", "tool_result"}

Tool == {"check_order_status", "other"}

\* A message: the turn and the user it was written for, and the tool.  The error
\* of a tool_use is that its arguments are no JSON object, that of a tool_result
\* that the call failed.
TurnMessage == [kind  : Kind,
                by    : Turn,
                user  : User,
                tool  : Tool \cup {NULL},
                error : BOOLEAN]

ChatRequest == [user    : User,
                session : Session \cup {NULL},
                stream  : BOOLEAN]

ASSUME AgentAssumption ==
  /\ MaxIterations \in Nat \ {0}
  /\ MaxTurns \in Nat
  /\ MaxRestarts \in Nat
  /\ Streams \subseteq BOOLEAN
  /\ Tools \subseteq Tool
  /\ OneTurnPerSession \in BOOLEAN
  /\ IsFiniteSet(Turn) /\ Turn # {}
  /\ NULL \notin ChatRequest
  /\ Message = TurnMessage

Code == {"none", "ok", "not_ready", "full", "llm_error", "tool_error",
         "max_iterations", "gone"}

VARIABLES
  ready,     \* the menu corpus was built at startup
  tpc,       \* where each turn is
  treq,      \* the request a turn in flight serves
  held,      \* the session object of each turn, kept after its end
  loop,      \* the iteration of the tool loop and the call asked for
  answer,    \* how the last turn ended and when
  received,  \* requests received so far
  restarts   \* restarts so far

turns == <<tpc, treq, held, loop, answer>>
vars == <<sessions, ready, turns, received, restarts>>

TPC == {"idle", "get", "create", "opened", "llm", "tools", "finish"}

\* object: the arguments of the call are a JSON object.
Loop == [iter : 0..MaxIterations, tool : Tool \cup {NULL}, object : BOOLEAN]

NoLoop == [iter |-> 0, tool |-> NULL, object |-> TRUE]

Unanswered == [code |-> "none", at |-> 0]

TypeOK ==
  /\ StoreTypeOK
  /\ ready \in BOOLEAN
  /\ tpc \in [Turn -> TPC]
  /\ treq \in [Turn -> ChatRequest \cup {NULL}]
  /\ held \in [Turn -> Session \cup {NULL}]
  /\ loop \in [Turn -> Loop]
  /\ answer \in [Turn -> [code : Code, at : 0..MaxNow]]
  /\ received \in 0..MaxTurns
  /\ restarts \in 0..MaxRestarts

Init ==
  /\ StoreInit
  /\ ready \in BOOLEAN
  /\ tpc = [t \in Turn |-> "idle"]
  /\ treq = [t \in Turn |-> NULL]
  /\ held = [t \in Turn |-> NULL]
  /\ loop = [t \in Turn |-> NoLoop]
  /\ answer = [t \in Turn |-> Unanswered]
  /\ received = 0
  /\ restarts = 0

Goto(t, label) == tpc' = [tpc EXCEPT ![t] = label] /\ UNCHANGED <<treq, answer>>

\* The turn ends: a response, an "error" or "done" event, or nobody to read it.
End(t, code) ==
  /\ tpc' = [tpc EXCEPT ![t] = "idle"]
  /\ treq' = [treq EXCEPT ![t] = NULL]
  /\ loop' = [loop EXCEPT ![t] = NoLoop]
  /\ answer' = [answer EXCEPT ![t] = [code |-> code, at |-> now]]
-----------------------------------------------------------------------------
(***************************************************************************)
(* The router: get_or_create is two critical sections.                     *)
(***************************************************************************)
InUse(s) == \E t \in Turn : tpc[t] # "idle" /\ s \in {treq[t].session, held[t]}

\* A client names a session only once its id has been minted.
Receive(t, r) ==
  /\ tpc[t] = "idle"
  /\ received < MaxTurns
  /\ r.session # NULL => heap[r.session] # NULL
  /\ OneTurnPerSession /\ r.session # NULL => ~InUse(r.session)
  /\ received' = received + 1
  /\ held' = [held EXCEPT ![t] = NULL]
  /\ \/ /\ ~ready
        /\ End(t, "not_ready")
     \/ /\ ready
        /\ tpc' = [tpc EXCEPT ![t] = IF r.session = NULL THEN "create"
                                                         ELSE "get"]
        /\ treq' = [treq EXCEPT ![t] = r]
        /\ answer' = [answer EXCEPT ![t] = Unanswered]
        /\ UNCHANGED loop
  /\ UNCHANGED <<sessions, ready, restarts>>

GetSession(t) ==
  LET r == treq[t] IN
  /\ tpc[t] = "get"
  /\ \/ /\ GetHit(r.session, r.user)
        /\ held' = [held EXCEPT ![t] = r.session]
        /\ Goto(t, "opened")
     \/ /\ GetMiss(r.session, r.user)
        /\ Goto(t, "create")
        /\ UNCHANGED held
  /\ UNCHANGED <<ready, loop, received, restarts>>

CreateSession(t) ==
  /\ tpc[t] = "create"
  /\ \/ /\ CreateRefused
        /\ End(t, "full")
        /\ UNCHANGED held
     \/ \E s \in Session :
          /\ CreateNew(s, treq[t].user)
          /\ held' = [held EXCEPT ![t] = s]
          /\ Goto(t, "opened")
          /\ UNCHANGED loop
  /\ UNCHANGED <<ready, received, restarts>>

\* The client of an event stream goes away at one of the generator's yields:
\* after the "session" event or after the engine has run.  A JSON request and
\* a running engine are not interrupted.
ClientGone(t) ==
  /\ tpc[t] \in {"opened", "finish"}
  /\ treq[t].stream
  /\ End(t, "gone")
  /\ UNCHANGED <<sessions, ready, held, received, restarts>>
-----------------------------------------------------------------------------
(***************************************************************************)
(* The engine.                                                             *)
(***************************************************************************)
Says(t, kind, tool, error) ==
  /\ AppendMessage(held[t], [kind |-> kind, by |-> t, user |-> treq[t].user,
                             tool |-> tool, error |-> error])
  /\ UNCHANGED <<stored, now>>

StartRun(t) ==
  /\ tpc[t] = "opened"
  /\ Says(t, "text", NULL, FALSE)
  /\ loop' = [loop EXCEPT ![t].iter = 1]
  /\ Goto(t, "llm")
  /\ UNCHANGED <<ready, held, received, restarts>>

\* The model answers in plain text, which ends the loop.
LlmReplies(t) ==
  /\ tpc[t] = "llm"
  /\ Says(t, "reply", NULL, FALSE)
  /\ Goto(t, "finish")
  /\ UNCHANGED <<ready, held, loop, received, restarts>>

\* The model asks for a tool.  Its arguments are any JSON text: OpenAI's client
\* hands on what it parses to, and an empty value stands for an empty object.
LlmAsks(t, tool, object) ==
  /\ tpc[t] = "llm"
  /\ Says(t, "tool_use", tool, ~object)
  /\ loop' = [loop EXCEPT ![t] = [iter |-> @.iter, tool |-> tool,
                                  object |-> object]]
  /\ Goto(t, "tools")
  /\ UNCHANGED <<ready, held, received, restarts>>

\* The provider's client raises: the router answers 502 or an "error" event.
\* What was appended stays in the session, and save is not called.
LlmFails(t) ==
  /\ tpc[t] = "llm"
  /\ End(t, "llm_error")
  /\ UNCHANGED <<sessions, ready, held, received, restarts>>

\* The columns of orders, and the ones the status query names.
OrdersColumns == {"id", "user_id", "restaurant_id", "restaurant_name",
                  "status", "total_price", "discount_pct", "delivery_type",
                  "delivery_fee", "payment_method", "rider_name",
                  "rider_phone", "rating", "created_at"}

StatusColumns == {"id", "user_id", "status", "total_amount", "rating",
                  "created_at", "restaurant_id"}

\* Whether a call fails: check_order_status is called here for an order that
\* exists and that the user owns, so only its query can fail; any other call
\* may fail or not.
ToolErrors(tool) ==
  IF tool = "check_order_status"
  THEN {~(StatusColumns \subseteq OrdersColumns)}
  ELSE BOOLEAN

\* Mutants of RunTools: one iteration too many, the cap tested before the
\* results are recorded, and a call that is retried instead of counted.
RunToolsOffByOne(t) ==
  /\ tpc[t] = "tools" /\ loop[t].object
  /\ \E e \in ToolErrors(loop[t].tool) :
       Says(t, "tool_result", loop[t].tool, e)
  /\ IF loop[t].iter <= MaxIterations
     THEN /\ loop' = [loop EXCEPT ![t].iter = @ + 1]
          /\ Goto(t, "llm")
     ELSE End(t, "max_iterations")
  /\ UNCHANGED <<ready, held, received, restarts>>

RunToolsCapFirst(t) ==
  /\ tpc[t] = "tools" /\ loop[t].object
  /\ IF loop[t].iter = MaxIterations
     THEN End(t, "max_iterations") /\ UNCHANGED sessions
     ELSE /\ \E e \in ToolErrors(loop[t].tool) :
               Says(t, "tool_result", loop[t].tool, e)
          /\ loop' = [loop EXCEPT ![t].iter = @ + 1]
          /\ Goto(t, "llm")
  /\ UNCHANGED <<ready, held, received, restarts>>

RunToolsForever(t) ==
  /\ tpc[t] = "tools" /\ loop[t].object
  /\ heap' = [heap EXCEPT ![held[t]].messages = SubSeq(@, 1, Len(@) - 1)]
  /\ Goto(t, "llm")
  /\ UNCHANGED <<stored, now, ready, held, loop, received, restarts>>

\* Every tool call ends in one block of the next message, a failed one too;
\* then the loop goes on or its cap is reached.
RunTools(t) ==
  /\ tpc[t] = "tools" /\ loop[t].object
  /\ \E e \in ToolErrors(loop[t].tool) :
       Says(t, "tool_result", loop[t].tool, e)
  /\ \/ /\ loop[t].iter < MaxIterations
        /\ loop' = [loop EXCEPT ![t] = [iter |-> @.iter + 1, tool |-> NULL,
                                        object |-> TRUE]]
        /\ Goto(t, "llm")
     \/ /\ loop[t].iter = MaxIterations
        /\ End(t, "max_iterations")
  /\ UNCHANGED <<ready, held, received, restarts>>

\* The executor turns arguments that are no object into an error of the tool, but
\* the record of the call refuses them: its validation raises out of the engine,
\* and no result is appended.  The router answers 502 or an "error" event.
RecordRaises(t) ==
  /\ tpc[t] = "tools" /\ ~loop[t].object
  /\ End(t, "tool_error")
  /\ UNCHANGED <<sessions, ready, held, received, restarts>>

\* save, then the response or the "done" event.
FinishTurn(t) ==
  /\ tpc[t] = "finish"
  /\ Save(held[t])
  /\ End(t, "ok")
  /\ UNCHANGED <<ready, held, received, restarts>>
-----------------------------------------------------------------------------
\* Time passes; nothing else in the process runs by itself.
Clock == Tick /\ UNCHANGED <<ready, turns, received, restarts>>

Restart ==
  /\ restarts < MaxRestarts
  /\ restarts' = restarts + 1
  /\ Forget
  /\ ready' \in BOOLEAN
  /\ tpc' = [t \in Turn |-> "idle"]
  /\ treq' = [t \in Turn |-> NULL]
  /\ held' = [t \in Turn |-> NULL]
  /\ loop' = [t \in Turn |-> NoLoop]
  /\ answer' = [t \in Turn |-> Unanswered]
  /\ UNCHANGED received

TurnStep(t) ==
  \/ GetSession(t) \/ CreateSession(t)
  \/ StartRun(t) \/ LlmReplies(t) \/ LlmFails(t)
  \/ \E tool \in Tools, object \in BOOLEAN : LlmAsks(t, tool, object)
  \/ RunTools(t) \/ RecordRaises(t) \/ FinishTurn(t)

Requests == [user : User, session : Session \cup {NULL}, stream : Streams]

Next ==
  \/ \E t \in Turn, r \in Requests : Receive(t, r)
  \/ \E t \in Turn : TurnStep(t) \/ ClientGone(t)
  \/ Clock
  \/ Restart

Spec == Init /\ [][Next]_vars

\* A thread goes on with its turn, and the provider's client returns or raises
\* (the SDKs bound a call by their default timeout).
Fairness == \A t \in Turn : WF_vars(TurnStep(t))

FairSpec == Spec /\ Fairness
-----------------------------------------------------------------------------
\* The sessions that turns in flight work on.
InFlight == {held[t] : t \in {u \in Turn : tpc[u] # "idle"}} \ {NULL}

\* A conversation only ever holds messages of the user who owns it: no turn
\* gets into somebody else's session, whatever id it names and however get,
\* expiry, eviction and save of other turns are interleaved with it.
OwnMessages ==
  \A s \in Session :
    heap[s] # NULL =>
      \A k \in 1..Len(heap[s].messages) :
        heap[s].messages[k].user = heap[s].user_id

\* A call is answered: its result is the next message, of the same turn.
AnsweredAt(h, k) ==
  k < Len(h) /\ h[k + 1].kind = "tool_result" /\ h[k + 1].by = h[k].by

\* A turn is about to run the tools of the last message.
PendingIn(s) == \E t \in Turn : tpc[t] = "tools" /\ held[t] = s

\* The model provider refuses a history in which a tool_use message is not
\* followed by its tool_result message.  As long as turns of one session do not
\* overlap, the iteration cap, failing tools and models, clients that go away and
\* restarts leave no such gap for the next turn.  Only a call whose arguments are
\* no object does, and its gap is never closed, although chat_tools.py has errors
\* of tools returned to the model as tool_result.
ToolsPaired ==
  \A s \in stored \cup InFlight :
    LET h == heap[s].messages IN
    \A k \in 1..Len(h) :
      h[k].kind = "tool_use" =>
        \/ AnsweredAt(h, k) <=> ~h[k].error
        \/ k = Len(h) /\ PendingIn(s)

\* A conversation that was answered can be continued for TTL after the answer,
\* even when its session was evicted while the model was thinking: save has
\* put it back.
AnsweredIsKept ==
  \A t \in Turn :
    tpc[t] = "idle" /\ answer[t].code = "ok" =>
      held[t] \in stored \/ now - answer[t].at > TTL

\* The store can outgrow max_sessions, because save puts evicted sessions
\* back, but only by the turns in flight.
StoreBounded ==
  Cardinality(stored) <= MaxSessions + Cardinality(Turn) - 1

\* Every turn ends, or dies with its process: the tool loop is capped.
TurnEnds == \A t \in Turn : tpc[t] # "idle" ~> tpc[t] = "idle"
=============================================================================
