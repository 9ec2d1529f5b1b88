# A TLA+ verification of FoodOrderSystem

FoodOrderSystem is a food-ordering program in three processes that share one
MySQL database:

* a **console program** (`src/src/core`, `src/src/auth`, `src/src/model`), used by
  customers and by the administrator;
* a **REST service** in C++ on Drogon (`src/src/api`, `src/src/service`,
  `src/src/db`), with JSON Web Tokens;
* an **AI service** in Python on FastAPI (`src/ai_service/src/fos_ai`), which the
  REST service calls through a proxy: semantic search, recommendations, parsing of
  orders, intent classification and a chat agent that calls tools.

The project models the parts in which steps of several actors meet: the orders
(REST threads, console and database), the chat (concurrent turns over a shared
session store), and the rest of the AI service (its startup, its endpoints in
threads over shared singletons, the calls of the language model and the result
cache). Every definition is taken from the source lines that `PROJECT.json` ("map")
names. Paths below are relative to the repository as it is named in `PROJECT.json`,
with `src/` in front.

## 1. Inventory

| Component | State | Operations | What is hard | What makes it correct |
|---|---|---|---|---|
| Order status machine (`service/OrderStatusMachine.h`) | none | `isValidTransition`, `canRate`, `isValidRating` | used by check-then-write code | statuses move along the table only |
| Order service (`service/OrderService.cpp`) | none of its own | create, get, list, update status, rate | several repository calls per request, other threads and the console in between | orders whole, private, as requested |
| Order controller (`api/controllers/OrderController.cc`) | none | JSON checks, status codes | | every request is answered |
| Database layer (`db/Database.cpp`) | one connection, one mutex, the tables | one method per statement or group | a transaction on a connection shared by threads, failing statements, lost connections | no foreign statement in a transaction, no mutex kept on an error path |
| Console: orders, catalogue (`core/FoodOrderSystem.cpp`) | the user's menu position | place, reorder, modify, rate, delete, prices, dishes, restaurants | a second process without transactions, ids typed freely | API orders are not damaged |
| Console: cart and pricing (`core/Order.cpp`, `model/*`) | the cart | add, delete, modify item, discount, total | floating point money, index arithmetic | total equals the lines |
| Console: login (`auth/*`) | the logged-in user | login, register, change password | | |
| Accounts and tokens (`service/AuthService.cpp`, `service/JwtService.cpp`, `api/filters/JwtAuthFilter.cc`) | users table, tokens in the clients' hands | register, login, verify | two registrations at once, stale role in a token, expiry boundary | one account per name, no access after expiry |
| Restaurant endpoints (`service/RestaurantService.cpp`) | none | list, menu | two reads in a row | |
| AI proxy (`api/controllers/AiController.cc`) | none | forward, map statuses | timeouts, stream or JSON | the answer of the AI service arrives |
| API startup (`api/main_api.cpp`) | configuration | connect or start degraded | | health tells the truth |
| Chat sessions (`services/session_store.py`) | sessions by id, last activity | get, create, get_or_create, save, evict | objects used outside of the lock, expiry during a turn, capacity | private, kept for TTL, bounded |
| Chat agent (`routers/chat.py`, `services/chat_engine.py`) | the history of a session | one turn: text, model calls, tool calls | turns at once, failures in the middle, clients going away | history accepted by the provider, turns end |
| Chat tools (`services/chat_tools.py`, `db/order_repo.py`) | one shared MySQL connection | menu search, drafts, recommendations, order status | errors must become results | |
| Result cache (`obs/cache.py`) | entries in the order of use, two pairs of counters | look up, insert, clear | computed outside of the lock, time passes meanwhile | bounded, least recently used leaves, never older than TTL, counters agree |
| Metrics (`obs/metrics.py`, `routers/stats.py`) | a ring buffer of calls | record, sum up | full buffer, window boundaries | every call that ran is counted once |
| Menu search (`services/search.py`, `hybrid_search.py`, `ml/*`, `routers/search.py`) | corpus, Qdrant's points, a lazily loaded reranker | search in steps with fallbacks | points of older menus, Qdrant down, a reranker that cannot be loaded | foods of the menu, each once, a full page |
| Recommender (`services/recommender.py`, `routers/recommend.py`) | the connection and its transaction | history, then ranking | two queries on one unlocked connection, an old snapshot | new to the user |
| Order text parser (`services/parser.py`, `routers/parse.py`) | a cache of drafts | ask the model, resolve names | names that match partly or not at all, cached drafts | foods of the right restaurant, nothing left out silently |
| Intent classifier (`services/intent_classifier.py`) | model and labels, loaded by the first request | load, classify, fall back | loading without a lock | a known label from a loaded classifier |
| Language model client (`services/llm_client.py`, `obs/tracing.py`) | buffers of a stream | calls, streams, format conversion | chunks in any order, failures and dropped streams in the middle | the caller gets the reply, every call is reported |
| AI startup (`main.py`, `deps.py`, `config.py`) | the singletons | eight steps, each of which may fail | partial startup | ready means that the endpoints serve |
| Evaluation and training | reports, adapters | | | not modelled: offline batch work |

The components interact as follows. The console and the REST service write the same
tables over a connection each. REST worker threads share a connection and the mutex
of `Database`. The REST service calls the AI service over HTTP; the AI service reads
`orders` and the menu over its own connection. Inside the AI service, requests run in
threads that share the session store, the caches, the lazily loaded models and the
connection. `PROJECT.json` ("hazards") lists, line by line, what can go wrong in
these meetings and which property watches it.

## 2. Modules

| Module | Models | State and actions |
|---|---|---|
| `OrderStatusMachine` | `OrderStatusMachine.h`, the status conversion of `core/Order.cpp` | operators |
| `OrderTables` | the durable tables and the SQL statements of `Database.cpp` on orders, order_items, restaurants and foods | `orders nextId restaurants foods`; one operator per statement |
| `OrderService` | the five order endpoints down to each SQL statement, the connection, the mutex, the transaction | `conn lock txn pc req loc resp accepted`; one action per statement with the local code up to the next one |
| `CliOrders` | the console as a second writer | `cpc cid clines`; one action per console statement |
| `OrderSystem` | both processes on the tables, and the properties | composition |
| `OrderLifecycle` | abstract: the life of an order | `life`; `Place`, `Advance`, `Rate` |
| `SessionStore` | `session_store.py` | `heap stored now`; one operator per critical section |
| `ChatAgent` | `routers/chat.py`, `chat_engine.py`, `chat_tools.py` on the store | `ready tpc treq held loop answer`; one action per critical section, model call or tool round |
| `Rankings` | what Python's `sorted`, comprehensions, slices and list building in a loop return; used by the three modules on lists below | operators |
| `LlmClient` | the conversions and the factory of `llm_client.py` | operators |
| `LlmCalls` | calls in flight: `llm_client.py` inside of `obs/tracing.py`, and `obs/metrics.py` | `calls records now`; one action per chunk, event or end of a call |
| `ResultCache` | `obs/cache.py` and its counts in `obs/metrics.py` | `store stats counter`; one operator per critical section |
| `MenuSearch` | `GET /ai/search`: router, search, hybrid search, vector store, reranker, on the cache | `qdrant reranker pc job answer`; one action per call that may fail or touches shared state |
| `OrderParser` | `services/parser.py` after the model's answer | operators |
| `Recommender` | `services/recommender.py` | operators |
| `AiService` | `main.py`, `deps.py`, and the endpoints health, parse-order, recommend and intent with the two chat tools that take the same paths; composes `OrderParser`, `Recommender` and the factory of `LlmClient` | `phase config wired` (startup), `snapshot` (the connection's transaction), `unread wire overlapped` (its driver and what is on the wire), `lora`, `parsed`, `pc job answer`; one action per startup step and per step of a request |
| `MCOrderSystem`, `MCChatAgent`, `MCLlmCalls`, `MCMenuSearch`, `MCAiService` | instances for TLC | |
| `OrderSystemProofs`, then `OrderAnswersProofs`, then `OrderLifecycleProofs` | theorems on the orders, each module on top of the one before | |
| `ChatAgentProofs` | theorems on the chat | |
| `RankingsProofs` | lemmas on sorting, filtering, cutting and joining lists | |
| `MenuSearchProofs`, `AiServiceProofs`, `LlmCallsProofs` | theorems on the result cache and the search, on the AI endpoints and on the calls of the language model, each on top of `RankingsProofs` | |

Definitions whose comment calls them mutants are plausible bugs of the definition
that follows them. They are used in no specification; each one, put in place of the
original, makes TLC report the property it is listed with in `PROJECT.json`.

### Orders

A REST request is taken by an idle worker thread after parsing and
authentication (`Accept`). `Start` is the `isConnected` test with the checks that
need no query. `createOrder` then goes through `FindRestaurant`, `LoadMenu`,
`Begin`, `InsertHeader`, one `InsertItem` per line, `Commit` and the read of the
new order (`FindHeader`, `Reread`); the mutex is held from `Begin` to `Commit` and
free between the others. Reads of an order are two statements under one mutex
(`FindHeader`, then the lines), `listOrders` one such read per id. `updateStatus`
and `rateOrder` are a read with its checks (`CheckUpdate`, `CheckRate`), a `Write`
in a call of its own and a second read. Every statement may fail; a lost
connection makes all of them fail until a restart, because the handle is not null
and nothing reconnects; a crash of the process loses the open transaction and the
requests. During `COMMIT` the connection can also break after the server has
applied it.

The console is one user at a time at a menu. Its statements take effect at once.
A header and its lines are separate statements, and a kill can come in between.

### Chat

A turn (`Receive`) is served by a thread. `GetSession` and `CreateSession` are the
two critical sections of `get_or_create`. From then on the turn holds a reference to
the session object (`held`), and changes the object (`heap`) without the lock, also
when the store (`stored`) has dropped it. `StartRun` appends the user's text; each
call of the model ends in `LlmReplies`, `LlmAsks` or `LlmFails`. `LlmAsks` comes with
arguments that are a JSON object or another JSON value, because OpenAI's client hands
on what it parses. `RunTools` appends the results and counts the iteration. For
arguments that are no object `RecordRaises` takes its place: the record of the call
is made outside of the executor's `try` and refuses them, so the turn ends without a
result. `FinishTurn` is `save` and the answer. `ClientGone` is an event-stream client
that leaves at a yield of the generator. `Clock` is time, `Restart` a new process
with an empty store.

### Language model calls

A plain method is `Begin`, then `Return` or `Raise`, then the report. A stream is a
Python generator: nothing runs before the first `next()` (`Iterate`), each text
delta hands control to the consumer (`TextChunk`), which goes on (`Resume`) or drops
the generator (`Close`). The provider sends text pieces, fragments of the function
calls in any interleaving and the finish reason; `StopEvent` is the last event with
the whole content. `RecordCall` appends to the ring buffer under its lock.

### Menu search

`Lookup` is the first critical section of the cache decorator, with the clock read
before it; then the wrapped search runs without the lock: without Qdrant the
in-memory search (`CosineSearch`, which may raise), with it `Count`, `DenseRank`
(each of which may fail), `FuseRankings`, and with a reranker `EnsureLoaded`, `Load`
and `Predict`. `InsertResult` is the second critical section and `ReportMiss` the
count of the metrics after it. `CacheClear` and `Tick` come at any time.

### AI service

The startup runs its eight steps in order; each may fail, and the service then starts
degraded; only an unknown provider and an error of the model client's constructor
other than a missing key end the process. A request first tests the singletons
(`Checks`: a refusal, a failed assertion or the first step). parse-order looks into
its cache and asks the model (`AskForDraft` for each of its answers, `AskRaises`);
recommend takes four steps on the shared connection: the driver tests for unread rows
(`Execute`), sends the query (`Send`), reads the header of the answer and marks its
rows unread (`ReadHeader`) and reads them (`Fetch`); intent loads the classifier in
two assignments (`AssignModel`, `AssignLabels`) and classifies, or asks the model
(`Guess`). Meanwhile customers order (`PlaceOrder`) and the connection may be lost.

### Abstractions

* Requests are modelled after JSON parsing and authentication; the caller's id and
  role come with the request.
* Prices are integers (cents), ratings integers: only sums and the comparison with
  0, 1 and 5 matter. The largest DECIMAL(10,2) is the constant `MaxTotal`; an
  amount beyond it is refused by the header INSERT.
* `ROLLBACK` on a connection that is up has its effect. MySQL's automatic
  reconnection is off, as the code leaves it.
* A session id is minted once (uuid4), and clients name only ids that have been
  minted; other ids behave as unknown ones.
* A model answer asks for one tool; several calls of one answer are executed in a
  row and reported in one message, so the pairing of messages is the same. One call
  among several whose arguments are no object ends the turn as a single one does.
  Arguments that are false in Python (null, 0, an empty list) count as an object,
  because `or {}` makes them one.
* For `check_order_status` the model has orders that exist and that the user owns;
  what can fail is its query, compared with the columns of the table.
* `OneTurnPerSession` is an assumption on clients, used only by the run
  `chat_turns`. Without it two turns of one session interleave their messages,
  and the code does not prevent it.

* Texts and JSON arguments in `LlmClient` are sequences of the pieces a
  provider sends; which of them are JSON is a constant. What is JSON is handed on as
  it is, object or not, and everything else becomes `{}`. In a converted history only
  the order, the roles, the ids and whether there is a text are kept.
* `Rankings` says what a list contains and in which order by counting: the element
  at place k of a sorted list is the one with k - 1 elements before it, and the
  element k of list i stands, in the lists one after the other, after all elements
  of the lists before i. That is what the loops of the code build, without their
  recursion, so that it can be proved about for lists of every length.
* Scores in `MenuSearch` and `Recommender` are rankings given by constants; rank
  fusion itself is computed exactly, with fractions where the code has floats, and
  equal sums keep the order in which the foods were met, as a stable sort over a
  dictionary does. Names in `OrderParser` are
  values, and lower case, blanks and substrings are given by constants.
* A draft keeps its items, and its issues name the missing ones, by their place in
  the model's answer; the wording of an issue is left out. The rows that `summary()`
  selects are places in the ring buffer.
* A cached draft may be gone at any time (`LookupParse`): the cache itself is
  checked in `ResultCache`, of which parse-order is a second user.
* InnoDB's default isolation is REPEATABLE READ, which the code does not change: the
  first query of the connection fixes what all later ones see.
* mysql-connector is external. It refuses a query while rows of an earlier one are
  unread, but its test, its sending and its mark are separate steps and its
  connections are not thread-safe. A thread whose query has met another one on the
  wire gets the answer that comes next, whole, or an error, which may or may not
  take an answer off the wire. Left out are answers with mixed rows, a thread that
  hangs, a crash of the client library, and the query of `check_order_status` on the
  same connection. `overlapped` is a history variable that no action reads.
* The labels of the classifier stand for its tokenizer, too: both are assigned
  around the model, and `classify` tests all three.

## 3. Runs

Passing runs:

| Run | What it checks | Bounds, and why they are enough |
|---|---|---|
| `order_race` | `RestOrdersWhole`, `OwnOrdersOnly`, `TransactionGuarded`, `CreatedAsRequested` with two threads, the console placing and deleting, one failing statement and one crash or lost connection | three requests: two that overlap and one more to read or overwrite; two-line orders, so that a transaction has a middle; thread symmetry |
| `order_api` | `TypeOK`, `RestOrdersWhole` and `LifecycleSpec` over every kind of request and refusal, with the admin changing the catalogue: with one thread the service implements `OrderLifecycle` | six requests take an order from placement to a rating, with a failure and a restart on the way; two prices, so that a price can change |
| `order_console` | `OwnOrdersOnly`, `ContentsImmutable` and `Answered` against a console that places, modifies and rates | two orders, one of each origin; two threads, so that one waits for the mutex of the other, and one failing statement |
| `chat_sessions` | `OwnMessages`, `AnsweredIsKept`, `StoreBounded` with two turns at once | capacity 1 and three sessions, so that the store is full, is evicted and overflows; a clock that passes TTL twice |
| `chat_turns` | `TypeOK`, `ToolsPaired`, `TurnEnds` with event streams, tools, failures and a restart | cap of two iterations: one tool round inside and one at the cap; calls with and without an object as arguments; two turns, so that a broken history would meet a later turn; the model may ask for tools in every iteration |
| `llm_calls` | `TypeOK`, `StreamIsTheReply`, `HistoryAccepted`, `StatsCountEveryCall`, `NearestRank`, `EveryCallReported` with three calls at once | a ring buffer of two, so that the third call pushes one out; a reply with two function calls, one of them in two pieces, so that fragments alternate; cut-off arguments and empty replies; histories of up to two exchanges, with several calls answered in another order |
| `menu_search` | `CacheBounded`, `LruOrder`, `PagesAreFull`, `FusionRespectsRankings`, `ServedFresh`, `CountersAgree` with two threads | three keys for a cache of two; three requests: two that overlap on a key and one that hits or evicts; TTL 2 within a clock of 2, so that entries expire at the boundary; four foreign foods fill the pool of four, a query without words leaves only the dense ranking; one clear |
| `ai_service` | `ReadyServes`, `DraftsScoped`, `NothingDropped`, `DraftsForRequest`, `NewToUser`, `IntentValid` after every outcome of the startup | two requests at once or in a row, so that queries meet on the connection at each of their four steps, a draft is served from the cache and a classifier is half loaded; two users, of whom one may have ordered, before or after the startup (`recommend_unseen` has two orders, one on each side); a menu with two restaurants of one name and names that contain one another |

Deadlock checking is off in all runs: requests, faults, crashes and time are
bounded, so a behaviour ends when they are used up. That a request or turn does not
hang is what `Answered` and `TurnEnds` check.

Runs that show a disagreement between the code and what the sources say of it:

| Run | What the sources say | What the code does |
|---|---|---|
| `order_terminal` | Delivered and Cancelled are terminal (`OrderStatusMachine.h:10-11`) | `updateStatus` checks and writes in two calls: with two threads, two admins move an order out of Cancelled. `HTTP_THREADS` defaults to 1 (`main_api.cpp:127`), with which `order_api` shows that it cannot happen |
| `order_rated_once` | a rated order is refused (`tests/test_order_status.cpp:162`) | the query does not select the rating, so the check compares a default |
| `recommend_own` | the history is that of the user (`menu_repo.py:55`) | the connection is shared by threads without a lock (`menu_repo.py:57`, `deps.py:109`): two that have both passed the driver's test read each other's answers |
| `recommend_unseen` | recommendations are unseen items (`recommender.py:51`, `tests/test_recommender.py:36`) | the connection has no autocommit and nothing commits (`main.py:41`): the history is that of the startup, and a dish ordered since is recommended |

Smaller differences are part of the model and have no run of their own:

* `main_api.cpp:10` says that HTTP_THREADS defaults to 4; the code takes 1 (line 127).
* An admin may rate any order, although `OrderService.cpp:260` speaks of the
  customer who placed it.
* After the connection is lost, `findOrderById` returns nothing for the failed query
  (`Database.cpp:1007`) and the service answers ORDER_NOT_FOUND for an order that
  exists, although `OrderService.h:30` reserves that code for no such order or not
  the owner.
* The error of a tool that cannot complete is "returned to the LLM as tool_result"
  (`chat_tools.py:127`), as `_exec_single` does. For arguments that are JSON but no
  object (`llm_client.py:330` hands on a list or a number) the record of the call,
  whose input is a dict (`schemas_chat.py:25`), raises after that, at
  `chat_engine.py:108`, and no result is appended. The turn ends with 502 or an error
  event, and the session keeps a call without a result, which the provider refuses in
  every later turn. `ToolsPaired` says that this is the only such gap.
* `check_order_status` fails for every order: its query names the column
  `total_amount` (`order_repo.py:14`), the table has `total_price`
  (`Database.cpp:147`). `ToolErrors` compares the two.
* `save` stores without a capacity test, so the store can exceed the 1000 sessions
  of `plan/sprint_5_chat_agent.md:285`, by the amount `StoreBounded` states. Nothing
  calls `evict_expired`, although the plan (line 42) has a background task for it.
* `obs/cache.py:5` says that calls of the language model are never cached;
  `routers/parse.py:24` caches the draft, and with it the call.
* `ml/corpus.py:4` says that the corpus is refreshed periodically; it is built once.
* OpenAI's finish reason is translated by `messages` and `messages_stream` and left
  as it is by `tool_call`; Anthropic's `tool_call` keeps the last of several tool
  calls and OpenAI's the first.
* The clients return dataclasses without token usage, so tokens and costs in
  `/ai/stats` are always 0 (`obs/tracing.py:128`).
* `services/parser.py:193` finds the empty restaurant name in every name: without a
  name the first restaurant of the menu is taken, without an issue and before the
  hint. Restaurants of one name are told apart nowhere (`parser.py:115`), so the
  foods of a draft may be those of another branch than its id; `DraftsScoped` is
  stated by name for that reason.
* Without a configured model, parse-order fails an assertion and answers 500, and a
  chat request does so after its session has been created (`routers/chat.py:51`).

### Fairness

`OrderSystem!Fairness` is weak fairness of the step of each worker that serves a
request: Drogon runs a handler to its end, a statement returns or fails, and a thread
gets a mutex that stays free. `ChatAgent!Fairness` is weak fairness of each turn: its
thread runs on, and a call of the model returns or raises, because the provider's SDK
bounds it by a timeout. `LlmCalls!FairSpec` is weak fairness of each call: the SDK
returns, raises or times out, and a consumer goes on with a generator or drops it,
which Python turns into `GeneratorExit`. Clients, the console, failures, crashes and
the clock are never forced to act. Weak fairness does not promise a thread a mutex
that is free only now and then; it is enough here because requests are finitely many
in an instance.

## 4. Proofs

The theorems hold for every value of the constants that satisfies the named
assumptions, so for any number of threads, users, foods, orders, sessions, turns,
cache entries and calls, any requests and any number of faults and crashes. The
shape of each proof is the same: an invariant that is inductive, one lemma per
action that preserves it, and the properties as consequences.

### Assumptions

* Typing of the constants, and that `NULL` is none of the values it is told apart
  from: `TablesAssumption`, `RowAssumption`, `ServiceAssumption`, `CliAssumption`,
  `StoreAssumption`, `ObjectAssumption`, `AgentAssumption`, `CacheAssumption`,
  `CallsAssumption`. A process has finitely many threads, turns and sessions; there is
  at least one turn; a cache and a ring buffer have room for one entry.
* `SearchAssumption`: a request's limit is at least 1 and at most the largest the
  router admits (20); a ranking has each of its foods once, and those by BM25 (unless
  the query has no words) and by the reranker have the foods of the menu and no
  others, while the one by similarity may have any foreign foods, too. The pool is no
  smaller than the largest limit (50 and 20 in the code), and the reranker's
  candidates are at least twice that limit minus one (50 against 39); the fused
  ranking needs it, see below.
* `CallsAssumption` also says that a history is a list of messages of the user or
  the assistant, whose content is a list when it is not a text, as the chat engine
  builds them.
* `AiAssumption`: the menu is a sequence of foods with different ids (a primary key),
  and what the model calls a draft has the fields that the tool's schema requires.
  Nothing is assumed of the quantities, names or number of the items.
* Three theorems have a hypothesis of their own, in their statement. `Implements` and
  `TerminalWhenSingle` are under `SingleWriter`: one worker thread, which is the
  default of `HTTP_THREADS`, and a console that only edits the catalogue.
  `HistoriesPaired` is under `OneTurnPerSession`. Without them the properties are
  false: `order_terminal` shows it for the first, and the second is a limit of the
  code that no source denies.
* `NewToUser` has its premise inside: it speaks of answers given while no two queries
  have met on the connection. `recommend_own` shows that one is needed.
* `HistoryAccepted` itself speaks of histories in which what a message calls is what
  the next one answers (`PairedHistory`). `ToolsPaired` shows that the conversations
  of the chat agent are such, except for calls whose arguments are no object.

### Orders

`OrderSystemProofs` proves `TypeOK`, `RestOrdersWhole` and `TransactionGuarded`.
Neither of the last two is inductive. That a committed order is whole needs that the
open transaction contains the first lines of the thread's priced cart and its
header the total of the cart (`TxnInv`), which needs that no one else touches it
(`MutexInv`, `TransactionGuarded`), what each program point of a handler knows
(`HandlerInv`: for instance that the cart was priced from the menu of the requested
restaurant), and that the console adds lines only to its own orders
(`ConsoleInv`). `IInv` is their conjunction; there is one lemma per action.

`OrderAnswersProofs` proves `OwnOrdersOnly`, `CreatedAsRequested` and the action
property `ContentsImmutable`. A handler checks an order on one read and acts on a
later one, so the id it keeps must not come to mean another order: ids are handed
out once (`IdsFresh`), an id a handler holds is below the counter and not the one of
an open transaction (`Settled`), and what any step of anybody leaves of a settled
order is stated once (`Stable`). `KnowsOK` then says, for each program point, what
the handler still knows: whose order it is about to show, or that the order it has
made is the one of its request unless the console has deleted it.

`OrderLifecycleProofs` proves the refinement `LifecycleSpec` under `SingleWriter`.
Every step of the service maps to `Place`, `Advance`, `Rate` or a stutter; what makes
it so is that a status that `updateStatus` or `rateOrder` has checked is still the
status of the order when the UPDATE runs (`Checked`). `TerminalWhenSingle` draws the
consequence that `order_terminal` refutes for two threads: under `SingleWriter` no
step leaves Delivered or Cancelled, because no step of the life cycle does.

### Chat

`ChatAgentProofs` proves `TypeOK`, `OwnMessages`, `AnsweredIsKept` and
`StoreBounded`. The invariant adds that a turn in the engine holds an existing
object of its own user (`TurnOK`), that an answered session was active no earlier
than its answer (`AnswerOK`), so that any eviction comes after TTL, that no session
was active in the future (`ClockInv`), and the bound for the stored sessions
together with those in flight (`Bounded`): the latter is what `save` can add, and
`create` re-establishes the bound because the turn that creates holds nothing yet,
so at most |Turn| - 1 others do.

It also proves `ToolsPaired` under `OneTurnPerSession`: a call is answered exactly if
its arguments are an object, or its turn is about to run it. So the failing record is
the only way to leave a gap, whatever fails and whoever goes away, and such a gap is
never closed (`RaisePairs`). A message may be appended only to a history that does
not end in somebody else's request for a tool: two turns in flight share no session
(`Alone`), also not one that is still to be created (`Minted`), and a turn that runs
its tools finds its own request at the end (`Pending`).

### Result cache and menu search

`MenuSearchProofs` proves `CacheBounded`, `LruOrder`, `ServedFresh`, `CountersAgree`,
`PagesAreFull` and `FusionRespectsRankings`. `CacheInv` says that the entries stand
in the order in which their keys were last used, which makes them one per key, and
that each carries the expiry of its own result; the lemmas on sequences (removal, the
tail that is left by an eviction, a new last entry) keep that order. A thread that
inserts carries the time its computation ended (`JobOK`), because the clock may have
moved on. `CountersAgree` counts the threads between the two counts of a miss;
`CountStep` reduces each step to one addition or subtraction.

`RankingsProofs` has what the two properties of pages need of any list: a sorted set
is a list of its members in that order (`SortedFacts`), what a filter keeps and in
which order (`KeepFacts`), and the elements of lists joined to one (`FlatFacts`).
They rest on one observation, `BelowCounts`: in a strict total order of a finite set
the members with k others below them are exactly one, for each k below its size.

That fusion keeps an order on which both rankings agree is arithmetic on the
reciprocal ranks: both summands are the larger ones, and an equal sum, when a
ranking has neither food, is decided by the place of the first. `PageInv` carries the
rankings of a request from the step that made them to the one that fuses them, and
the pages from there into the cache and out of it. The hard case of `PagesAreFull` is
a reranker behind a Qdrant with many foods of older menus: they take places among the
candidates, and only the known ones are reranked. `EnoughKnown` shows that they
cannot take all. The m-th food by BM25 has the reciprocal of its rank from BM25
alone; a foreign food has a summand from one ranking only, so one that is not behind
it has a better rank in the other, and there are fewer than m of those. So 2m - 1
candidates have m known foods, which is where the assumption on the number of
candidates is used.

### AI service

`AiServiceProofs` proves `ReadyServes`, `DraftsScoped`, `NothingDropped`,
`DraftsForRequest`, `IntentValid` and `NewToUser`. The invariant says which singletons rest on
which (`StartupOK`: a corpus only with its embedder, the fallback classifier only
with a client), what each thread works on and which tests it has passed (`WorkOK`),
that labels are assigned only after the model (`LoraOK`), and that every cached draft
is right for the text and the hint it is stored under (`ParsedOK`), which is what a
later request is served. What the parser makes of any answer of the model and any
menu is in lemmas of its operators.

`NewToUser` needs an invariant of its own (`HistoryInv`), because threads share one
connection: the snapshot of the transaction is there before a corpus is, since the
query for the menu opened it, and as long as no two queries have met and the
connection is up (`Sound`) the driver is in order (`DriverOK`): at most one thread
waits for an answer, what is on the wire is exactly its query, and rows are unread
only while it fetches them. Then what a thread fetches is what the snapshot says of
the user it answers, and `KeepFacts` gives what the recommender leaves out and how
much it returns.

### Language model calls

`LlmCallsProofs` proves `TypeOK`, `StreamIsTheReply`, `StatsCountEveryCall`,
`NearestRank` and `HistoryAccepted`. For a
stream in flight `ReadOK` says that the text buffer is a beginning of the reply's
text and that each function call's fragments are a beginning of its arguments,
independently of one another, so that any interleaving ends in the whole reply.
Counting needs more than the length of the buffer: as long as no row has left it,
there is a bijection between the finished calls and the rows (`RecordsInv`), and
each count of `summary()` is the cardinality of its image. `NearestRank` follows from
the same bijection and from what the k-th of a sorted list has below it
(`PercentileFacts`), with the rounding of `math.ceil`.

`HistoryAccepted` is a fact about the conversion, for histories of any length.
`Converted` says what one message becomes: results first and one for each answered
call, calls only in a message that stands alone, no assistant message without text
and calls. Each form of a message is shown to satisfy it. The list as a whole is
`FlatFacts`: each of its elements has a place (message, position), and the order is
that of the places. Between a message that calls and a result of the next one there
is then nothing but results (`AnswersFollow`), and pairing gives each call its
result and each result its call.

### Only model-checked

* `Answered`, `TurnEnds` and `EveryCallReported`: liveness is out of the prover's
  reach.

Every safety invariant and every action property of the passing runs is a theorem,
and so is the refinement.

## 5. Not modelled, and the plan

Next, in this order:

1. `Accounts`: registration (two at once), login, token issue and expiry, a role
   that changes after the token was issued. The order modules take requests after
   authentication, so nothing above depends on it.
2. `AiProxy`: the proxy between client and AI service, with timeouts and the two
   defaults of the stream field; composition with `ChatAgent`.
3. Catalogue additions, riders and users in the console; the cart, whose total can be
   checked against a reference sum.

Left out for good: embeddings, cosine scores, BM25 sums and classifier probabilities
(floating point; abstracted to an order of scores), the texts of prompts and
messages, password hashing and token signatures, spans and their attributes, console
dialogues, and the evaluation and training programs, which are sequential batch jobs
without shared state.
