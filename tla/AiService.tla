------------------------------ MODULE AiService ------------------------------
(***************************************************************************)
(* The process of the AI service: the startup of main.py, whose steps may  *)
(* fail one by one and leave the service degraded, the singletons of       *)
(* deps.py, and the endpoints health, search (up to the search itself, see *)
(* MenuSearch), parse-order, recommend and intent.  The chat tools         *)
(* create_order_draft and get_recommendations take the same paths.         *)
(* Requests run in threads and share one MySQL connection, which has no    *)
(* lock and on which nothing is ever committed, while customers order.     *)
(***************************************************************************)
EXTENDS OrderParser, Recommender, TLC

CONSTANTS
  Configs,      \* settings: provider, keys, qdrant, rerank, adapter
  DbMenu,       \* the foods in the database, in the order of the query
  User,
  Requests,     \* the requests that may be received
  Replies,      \* what the language model may answer to an order
  Labels,       \* INTENT_LABELS
  Guesses,      \* what it may answer to an utterance
  Thread,
  NULL,
  MaxRequests,  \* bound: requests
  MaxOrders     \* bound: orders of customers

Llm == INSTANCE LlmClient WITH JsonTexts <- {}

Ids(menu) == [i \in DOMAIN menu |-> menu[i].food_id]

Foods == Range(Ids(DbMenu))

\* The similarity ranks the whole menu.
ASSUME AiAssumption ==
  /\ IsInjective(Ids(DbMenu))
  /\ DbMenu \in Seq(MenuItem)
  /\ \A S \in SUBSET Foods : Lists(Similar[S], Foods)
  /\ RecommendMax \in Nat \ {0}
  /\ \A r \in Requests :
       /\ r.kind \in {"health", "search", "parse", "recommend", "intent"}
       /\ r.tool \in BOOLEAN /\ (r.tool => r.kind \in {"parse", "recommend"})
       /\ r.kind = "recommend" => r.user \in User /\ r.limit \in Int
  /\ \A r \in Replies :
       r.tool = "create_order_draft" =>
         r.restaurant_name \in DOMAIN Lower /\ r.items \in Seq(NamedItem)
  /\ \A g \in Guesses : g.tool /\ g.numeric => g.confidence \in Int

VARIABLES
  ordered,   \* external: the foods that each user has ordered
  phase,     \* where the startup is
  config,    \* the settings
  wired,     \* the singletons of deps.py
  snapshot,  \* what the connection's transaction sees of the orders
  unread,    \* the driver has marked that a result was not read to its end
  wire,      \* external: the queries whose rows the server sends, in order
  overlapped,  \* for the properties: two queries were on the connection at once
  lora,      \* the model and the labels of the LoRA classifier
  parsed,    \* the cache of parse-order
  pc, job, answer,
  received, placed

process == <<phase, config, wired>>
database == <<ordered, snapshot, placed>>
threads == <<pc, job, answer>>
driver == <<unread, wire, overlapped>>
vars == <<process, database, driver, lora, parsed, threads, received>>

Unwired == [conn |-> "none", menu |-> <<>>, embedder |-> FALSE, corpus |-> <<>>,
            vector_store |-> FALSE, reranker |-> FALSE, llm |-> FALSE,
            intent |-> "none"]

Init ==
  /\ ordered = [u \in User |-> {}]
  /\ phase = "config"
  /\ config \in Configs
  /\ wired = Unwired
  /\ snapshot = NULL
  /\ unread = FALSE /\ wire = <<>> /\ overlapped = FALSE
  /\ lora = [model |-> FALSE, labels |-> FALSE]
  /\ parsed = <<>>
  /\ pc = [t \in Thread |-> "idle"]
  /\ job = [t \in Thread |-> NULL]
  /\ answer = [t \in Thread |-> NULL]
  /\ received = 0 /\ placed = 0
-----------------------------------------------------------------------------
(***************************************************************************)
(* Startup.                                                                *)
(***************************************************************************)
Started(from, to, new) ==
  /\ phase = from
  /\ phase' = to
  /\ wired' = new
  /\ UNCHANGED <<config, ordered, placed, driver, lora, parsed, threads, received>>

\* Only an unknown provider ends the process; a missing key is a warning.
ValidateLlm ==
  /\ Started("config",
             IF config.provider \in Llm!Provider THEN "connect" ELSE "aborted", wired)
  /\ UNCHANGED snapshot

ConnectDb ==
  /\ \/ Started("connect", "menu", [wired EXCEPT !.conn = "open"])
     \/ Started("connect", "corpus", wired)
  /\ UNCHANGED snapshot

\* The first query of the connection opens the transaction whose snapshot all
\* later ones read.
FetchMenu ==
  \/ /\ Started("menu", "corpus", [wired EXCEPT !.menu = DbMenu])
     /\ snapshot' = ordered
  \/ /\ Started("menu", "corpus", wired)
     /\ UNCHANGED snapshot

\* build_corpus encodes the whole menu; without one, or when the encoder raises,
\* there is no corpus.
BuiltFrom(menu) == {<<>>, menu}

\* The embedder is wired before the corpus; either may fail.
\* Mutant: the embedder is kept local.
BuildCorpusOnly ==
  /\ \E corpus \in BuiltFrom(wired.menu) :
       Started("corpus", "qdrant", [wired EXCEPT !.corpus = corpus])
  /\ UNCHANGED snapshot

BuildCorpus ==
  /\ \/ Started("corpus", "qdrant", wired)
     \/ \E corpus \in BuiltFrom(wired.menu) :
          Started("corpus", "qdrant",
                  [wired EXCEPT !.embedder = TRUE, !.corpus = corpus])
  /\ UNCHANGED snapshot

WireVectorStore ==
  /\ \E store \in BOOLEAN :
       /\ store => config.qdrant /\ wired.corpus # <<>> /\ wired.embedder
       /\ Started("qdrant", "rerank", [wired EXCEPT !.vector_store = store])
  /\ UNCHANGED snapshot

WireReranker ==
  /\ \E on \in BOOLEAN :
       /\ on => config.rerank
       /\ Started("rerank", "llm", [wired EXCEPT !.reranker = on])
  /\ UNCHANGED snapshot

\* A missing key is a ValueError, which leaves the service without a client; any
\* other error of the SDK's constructor ends the process.
CreateLlm ==
  /\ \/ Started("llm", "intent",
                [wired EXCEPT !.llm = Llm!CreateClient(config.provider, config.keys)
                                        # "error"])
     \/ Started("llm", "aborted", wired)
  /\ UNCHANGED snapshot

\* The constructor tests for the adapter's directory once more, which may have
\* vanished since; the model is loaded later.
Lora == IF config.adapter THEN {"lora"} ELSE {}

WireIntentClassifier ==
  LET fallback == IF wired.llm THEN "fallback" ELSE "none" IN
  /\ \E source \in {fallback} \cup Lora :
       Started("intent", "serving", [wired EXCEPT !.intent = source])
  /\ UNCHANGED snapshot

\* The server waits for its requests before the shutdown closes the connection.
Shutdown ==
  /\ phase = "serving"
  /\ received = MaxRequests
  /\ \A t \in Thread : pc[t] = "idle"
  /\ phase' = "stopped"
  /\ wired' = [wired EXCEPT !.conn = "none"]
  /\ UNCHANGED <<config, database, driver, lora, parsed, threads, received>>
-----------------------------------------------------------------------------
(***************************************************************************)
(* The world: customers order through the other service, and the database  *)
(* drops connections.                                                      *)
(***************************************************************************)
PlaceOrder(u, food) ==
  /\ placed < MaxOrders
  /\ placed' = placed + 1
  /\ ordered' = [ordered EXCEPT ![u] = @ \cup {food}]
  /\ UNCHANGED <<process, snapshot, driver, lora, parsed, threads, received>>

LoseConnection ==
  /\ phase = "serving" /\ wired.conn = "open"
  /\ wired' = [wired EXCEPT !.conn = "lost"]
  /\ UNCHANGED <<phase, config, database, driver, lora, parsed, threads, received>>
-----------------------------------------------------------------------------
(***************************************************************************)
(* Requests.                                                               *)
(***************************************************************************)
Goto(t, label) == pc' = [pc EXCEPT ![t] = label] /\ UNCHANGED <<job, answer>>

Answer(t, r, status, body) ==
  /\ pc' = [pc EXCEPT ![t] = "idle"]
  /\ job' = [job EXCEPT ![t] = NULL]
  /\ answer' = [answer EXCEPT ![t] = [req |-> r, status |-> status, body |-> body]]

Reply(t, status, body) == Answer(t, job[t], status, body)

\* An error of a tool goes to the language model.
Fail(t, status) == Reply(t, IF job[t].tool THEN "tool_error" ELSE status, NULL)

\* What an endpoint, or the chat that calls a tool, tests before it starts: the
\* status of a refusal or a failed assertion, or the label of the first step.
Checks(r) ==
  CASE r.tool ->
         IF wired.corpus = <<>> THEN "503"
         ELSE IF ~wired.embedder \/ ~wired.llm \/ wired.conn = "none" THEN "500"
         ELSE IF r.kind = "parse" THEN "ask" ELSE "execute"
    [] ~r.tool /\ r.kind = "health" -> "200"
    [] ~r.tool /\ r.kind = "search" ->
         IF wired.corpus = <<>> THEN "503" ELSE IF wired.embedder THEN "200" ELSE "500"
    [] ~r.tool /\ r.kind = "parse" ->
         IF wired.menu = <<>> THEN "503" ELSE IF wired.llm THEN "lookup" ELSE "500"
    [] ~r.tool /\ r.kind = "recommend" ->
         IF wired.corpus = <<>> THEN "503" ELSE "execute"
    [] ~r.tool /\ r.kind = "intent" ->
         CASE wired.intent = "none" -> "503"
           [] wired.intent = "lora" -> "load"
           [] wired.intent = "fallback" -> "guess"

\* What health tells; the other answers of this step have no body that matters.
Health == [ready |-> wired.corpus # <<>>]

Receive(t, r) ==
  /\ phase = "serving"
  /\ pc[t] = "idle"
  /\ received < MaxRequests
  /\ received' = received + 1
  /\ IF Checks(r) \in {"200", "500", "503"}
     THEN Answer(t, r, Checks(r), Health)
     ELSE /\ pc' = [pc EXCEPT ![t] = Checks(r)]
          /\ job' = [job EXCEPT ![t] = r]
          /\ answer' = [answer EXCEPT ![t] = NULL]
  /\ UNCHANGED <<process, database, driver, lora, parsed>>

Same == UNCHANGED <<process, database, received>>
-----------------------------------------------------------------------------
(***************************************************************************)
(* parse-order.                                                            *)
(***************************************************************************)
\* Mutant: the hint is not part of the key.
CacheKeyOfText(r) == r.text

\* The menu's signature does not change while the process lives.
CacheKey(r) == <<r.text, r.hint>>

\* An entry may have expired or been evicted.
LookupParse(t) ==
  LET key == CacheKey(job[t]) IN
  /\ pc[t] = "lookup"
  /\ \/ key \in DOMAIN parsed /\ Reply(t, "200", parsed[key])
     \/ Goto(t, "ask")
  /\ Same /\ UNCHANGED <<driver, lora, parsed>>

Put(entries, key, value) ==
  [k \in DOMAIN entries \cup {key} |-> IF k = key THEN value ELSE entries[k]]

\* A draft is cached, by the endpoint only; refusals and errors never are.
AskForDraft(t, reply) ==
  LET r      == job[t]
      result == ParseOrder(reply, wired.menu, r.hint)
      body   == [draft |-> result, asked |-> reply, text |-> r.text,
                 hint |-> r.hint]
  IN  /\ pc[t] = "ask"
      /\ \/ /\ result.kind = "draft"
            /\ Reply(t, "200", body)
            /\ parsed' = IF r.tool THEN parsed ELSE Put(parsed, CacheKey(r), body)
         \/ result.kind = "refused" /\ Fail(t, "422") /\ UNCHANGED parsed
         \/ result.kind = "invalid" /\ Fail(t, "400") /\ UNCHANGED parsed
      /\ Same /\ UNCHANGED <<driver, lora>>

\* 400 when the exception is a ValueError.
AskRaises(t) ==
  /\ pc[t] = "ask"
  /\ Fail(t, "502") \/ Fail(t, "400")
  /\ Same /\ UNCHANGED <<driver, lora, parsed>>
-----------------------------------------------------------------------------
(***************************************************************************)
(* recommend: a cursor executes a query and fetches its rows.  The driver  *)
(* refuses a query while rows are unread, but it tests for them, sends and *)
(* reads the header of the answer, which marks the rows unread, one after  *)
(* the other: two threads may both have sent, and each then reads whatever *)
(* the server sends next, or an error when the answers are torn.           *)
(***************************************************************************)
\* had is for the properties: what the user had ordered when the query ran.
Recommended(t, history, had) ==
  LET r == Recommend(Ids(wired.corpus), history, job[t].limit) IN
  Reply(t, "200", [strategy |-> r.strategy, user_has_history |-> r.user_has_history,
                   items |-> r.items, had |-> had])

\* Without the history the endpoint recommends as to a new customer.
NoHistory(t) ==
  IF job[t].tool THEN Reply(t, "tool_error", NULL) ELSE Recommended(t, {}, {})

\* The threads that have sent a query and wait for its rows.
InDriver(t) == pc[t] \in {"header", "fetch"}

Query(t) == [user |-> job[t].user, had |-> ordered[job[t].user]]

Execute(t) ==
  /\ pc[t] = "execute"
  /\ \/ wired.conn = "open" /\ ~unread /\ Goto(t, "send")
     \/ (wired.conn # "open" \/ unread) /\ NoHistory(t)
  /\ Same /\ UNCHANGED <<driver, lora, parsed>>

\* Another thread may have come first; the client library may notice.
Send(t) ==
  /\ pc[t] = "send"
  /\ \/ /\ wired.conn = "open"
        /\ wire' = Append(wire, Query(t))
        /\ overlapped' = (overlapped \/ \E u \in Thread : InDriver(u))
        /\ Goto(t, "header")
     \/ /\ wired.conn # "open" \/ unread
        /\ NoHistory(t)
        /\ UNCHANGED <<wire, overlapped>>
  /\ Same /\ UNCHANGED <<unread, lora, parsed>>

\* What a thread that finds the answers torn leaves behind: all or but the first.
Torn == {wire} \cup (IF wire = <<>> THEN {} ELSE {Tail(wire)})

ReadHeader(t) ==
  /\ pc[t] = "header"
  /\ \/ /\ wired.conn = "open" /\ wire # <<>> /\ ~unread
        /\ unread' = TRUE
        /\ Goto(t, "fetch")
        /\ UNCHANGED wire
     \/ /\ wired.conn # "open" \/ Len(wire) # 1 \/ unread
        /\ wire' \in Torn
        /\ NoHistory(t)
        /\ UNCHANGED unread
  /\ Same /\ UNCHANGED <<overlapped, lora, parsed>>

\* Mutant: the mark is taken away, but the rows are left to the next query.
FetchLeavesRows(t) ==
  /\ pc[t] = "fetch"
  /\ wired.conn = "open" /\ wire # <<>>
  /\ Recommended(t, snapshot[Head(wire).user], Head(wire).had)
  /\ unread' = FALSE
  /\ Same /\ UNCHANGED <<wire, overlapped, lora, parsed>>

Fetch(t) ==
  /\ pc[t] = "fetch"
  /\ \/ /\ wired.conn = "open" /\ wire # <<>>
        /\ Recommended(t, snapshot[Head(wire).user], Head(wire).had)
        /\ wire' = Tail(wire)
     \/ /\ wired.conn # "open" \/ Len(wire) # 1
        /\ wire' \in Torn
        /\ NoHistory(t)
  /\ unread' = FALSE
  /\ Same /\ UNCHANGED <<overlapped, lora, parsed>>
-----------------------------------------------------------------------------
(***************************************************************************)
(* intent.                                                                 *)
(***************************************************************************)
\* _ensure_loaded has no lock: it returns when there is a model, and assigns the
\* model before the labels.  A failure is not remembered.
EnsureLoaded(t) ==
  /\ pc[t] = "load"
  /\ \/ lora.model /\ Goto(t, "classify")
     \/ ~lora.model /\ Goto(t, "assign")
     \/ ~lora.model /\ Reply(t, "502", NULL)
  /\ Same /\ UNCHANGED <<driver, lora, parsed>>

AssignModel(t) ==
  /\ pc[t] = "assign"
  /\ lora' = [lora EXCEPT !.model = TRUE]
  /\ Goto(t, "labels")
  /\ Same /\ UNCHANGED <<driver, parsed>>

AssignLabels(t) ==
  /\ pc[t] = "labels"
  /\ lora' = [lora EXCEPT !.labels = TRUE]
  /\ Goto(t, "classify")
  /\ Same /\ UNCHANGED <<driver, parsed>>

\* Mutant: the labels are taken to be there when the model is.
ClassifyHalfLoaded(t) ==
  /\ pc[t] = "classify"
  /\ \E label \in Labels, confidence \in {0, 100} :
       Reply(t, "200", [label |-> label, confidence |-> confidence,
                        source |-> wired.intent])
  /\ Same /\ UNCHANGED <<driver, lora, parsed>>

\* The most likely of the labels, if they are there; the model may raise.
Classify(t) ==
  /\ pc[t] = "classify"
  /\ \/ /\ lora.labels
        /\ \E label \in Labels, confidence \in {0, 100} :
             Reply(t, "200", [label |-> label, confidence |-> confidence,
                              source |-> wired.intent])
     \/ Reply(t, "502", NULL)
  /\ Same /\ UNCHANGED <<driver, lora, parsed>>

\* Percent; a number that is none counts as 1.0.
Clip(confidence) == Max({0, Min({100, confidence})})

\* The language model's guess, refused without a known label and a number.
Guess(t, g) ==
  /\ pc[t] = "guess"
  /\ \/ /\ g.tool /\ g.label \in Labels /\ g.numeric
        /\ Reply(t, "200", [label |-> g.label, confidence |-> Clip(g.confidence),
                            source |-> wired.intent])
     \/ /\ ~(g.tool /\ g.label \in Labels /\ g.numeric)
        /\ Reply(t, "502", NULL)
  /\ Same /\ UNCHANGED <<driver, lora, parsed>>
-----------------------------------------------------------------------------
Startup ==
  \/ ValidateLlm \/ ConnectDb \/ FetchMenu \/ BuildCorpus \/ WireVectorStore
  \/ WireReranker \/ CreateLlm \/ WireIntentClassifier

ServiceStep(t) ==
  \/ LookupParse(t) \/ AskRaises(t) \/ \E reply \in Replies : AskForDraft(t, reply)
  \/ Execute(t) \/ Send(t) \/ ReadHeader(t) \/ Fetch(t)
  \/ EnsureLoaded(t) \/ AssignModel(t) \/ AssignLabels(t) \/ Classify(t)
  \/ \E g \in Guesses : Guess(t, g)

Next ==
  \/ Startup \/ Shutdown \/ LoseConnection
  \/ \E u \in User, food \in Foods : PlaceOrder(u, food)
  \/ \E t \in Thread, r \in Requests : Receive(t, r)
  \/ \E t \in Thread : ServiceStep(t)

Spec == Init /\ [][Next]_vars
-----------------------------------------------------------------------------
Answered(t, kind) ==
  answer[t] # NULL /\ answer[t].req.kind = kind /\ answer[t].status = "200"

\* When health says ready, search and recommend neither refuse nor fail an
\* assertion, whichever steps of the startup have failed.
ReadyServes ==
  \A t \in Thread :
    /\ answer[t] # NULL /\ wired.corpus # <<>>
    /\ answer[t].req.kind \in {"search", "recommend"}
    /\ ~answer[t].req.tool
    => answer[t].status = "200"

FoodsOf(name) ==
  {DbMenu[i].food_id : i \in {k \in DOMAIN DbMenu :
                               Lower[DbMenu[k].restaurant_name] = Lower[name]}}

RestaurantsOf(name) ==
  {DbMenu[i].restaurant_id : i \in {k \in DOMAIN DbMenu :
                               Lower[DbMenu[k].restaurant_name] = Lower[name]}}

\* A draft that has found its restaurant is an order of that restaurant: all of
\* its foods are on the menu of a restaurant of that name, and the id is the id
\* of one.
DraftsScoped ==
  \A t \in Thread :
    Answered(t, "parse") =>
      LET d == answer[t].body.draft IN
      0 \notin d.issues =>
        /\ d.restaurant_id \in RestaurantsOf(d.restaurant_name)
        /\ \A k \in DOMAIN d.items :
             d.items[k].food_id \in FoodsOf(d.restaurant_name)

\* A draft holds each item the model named, with a quantity of at least one, or
\* an issue for it, and its confidence is full only when there is no issue.
NothingDropped ==
  \A t \in Thread :
    Answered(t, "parse") =>
      LET d == answer[t].body.draft IN
      /\ Cardinality(DOMAIN d.items) + Cardinality(d.issues \ {0})
           = Len(answer[t].body.asked.items)
      /\ d.confidence = 100 <=> d.issues = {}
      /\ d.confidence \in 0..100
      /\ \A k \in DOMAIN d.items : d.items[k].quantity >= 1

\* A cached draft is only ever the answer to its own text and hint.
DraftsForRequest ==
  \A t \in Thread :
    Answered(t, "parse") =>
      /\ answer[t].body.text = answer[t].req.text
      /\ answer[t].body.hint = answer[t].req.hint

\* Content-based recommendations are new to the user, as far as the connection's
\* transaction sees, and fill the page, whatever other threads read in between,
\* as long as no two queries were on the unlocked connection at once.
NewToUser ==
  \A t \in Thread :
    ~overlapped /\ Answered(t, "recommend") =>
      LET a     == answer[t]
          known == snapshot[a.req.user]
          foods == Range(Ids(wired.corpus))
      IN  a.body.strategy = "content_based" =>
            /\ known \cap foods # {}
            /\ Range(a.body.items) \cap known = {}
            /\ Len(a.body.items) = Min({RecommendLimit(a.req.limit),
                                        Cardinality(foods \ known)})

\* An intent is one of the labels, with a confidence between 0 and 1 and the
\* source that was wired, and never comes from a classifier that another thread
\* has not finished loading.
IntentValid ==
  \A t \in Thread :
    Answered(t, "intent") =>
      /\ answer[t].body.label \in Labels
      /\ answer[t].body.confidence \in 0..100
      /\ answer[t].body.source \in {"lora", "fallback"}
      /\ answer[t].body.source = "lora" => lora.model /\ lora.labels
      /\ answer[t].body.source = "fallback" => wired.llm
-----------------------------------------------------------------------------
(***************************************************************************)
(* What the tests say and the code does not do.                            *)
(***************************************************************************)
\* tests/test_recommender.py: recommended items do not include foods already
\* ordered (when the query for the history ran).
RecommendsUnseen ==
  \A t \in Thread :
    Answered(t, "recommend") =>
      LET body == answer[t].body IN
      body.strategy = "content_based" => Range(body.items) \cap body.had = {}

\* menu_repo.py: the history is that of the user.  A recommendation "similar to
\* items in your past orders" is only made to a user who has some.
HistoryIsOwn ==
  \A t \in Thread :
    Answered(t, "recommend") /\ answer[t].body.strategy = "content_based" =>
      ordered[answer[t].req.user] \cap Range(Ids(wired.corpus)) # {}
=============================================================================
