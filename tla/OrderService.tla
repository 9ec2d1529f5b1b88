---------------------------- MODULE OrderService ----------------------------
(***************************************************************************)
(* The order endpoints of the REST process: OrderController and            *)
(* OrderService on top of the IOrderRepo methods of Database.              *)
(*                                                                         *)
(* The HTTP worker threads share one MySQL connection.  Every repository   *)
(* method takes the mutex of Database for its own duration, so a handler   *)
(* is a sequence of repository calls between which other threads, and the  *)
(* console process with its own connection, may run.  A method that issues *)
(* several SQL statements holds the mutex from the first to the last of    *)
(* them, but the other process can still run in between.  Every action     *)
(* below is one statement and the local code up to the next one.           *)
(***************************************************************************)
EXTENDS OrderTables

CONSTANTS
  Worker,       \* the HTTP worker threads (HTTP_THREADS of main_api.cpp)
  Requests,     \* the requests that clients may send
  MaxRequests   \* bound: requests accepted in a behaviour

Op == {"create", "get", "list", "update", "rate"}

DeliveryWhitelist == {"Standard", "Express", "Scheduled"}

\* A parsed request: the caller's identity comes from the token, the rest from
\* the path and the body.  The fields an operation does not use are ignored.
Request == [op       : Op,
            user     : User,
            isAdmin  : BOOLEAN,
            id       : OrderId,
            status   : STRING,
            rating   : Int,
            rest     : Restaurant \cup {NULL},
            delivery : STRING,
            lines    : Seq([food : Food, qty : Int])]

VARIABLES
  conn,     \* the MYSQL handle: "null", "up", or "lost" (not null but broken)
  lock,     \* the worker that holds the mutex of Database, or NULL
  txn,      \* the open transaction and its uncommitted order, or NULL
  pc,       \* the next statement of each worker
  req,      \* the request each worker serves or has served last
  loc,      \* the local variables of each worker's handler
  resp,     \* the response to that request, or NULL
  accepted  \* requests accepted so far

workers == <<pc, req, loc, resp>>
session == <<conn, lock, txn>>
service == <<session, workers, accepted>>

OrderDto == [id     : OrderId,
             owner  : User,
             rest   : Restaurant \cup {NULL},
             status : Status,
             rating : StoredRating,
             total  : 0..MaxTotal,
             items  : Seq(Line)]

ErrorCode == {"DB_UNAVAILABLE", "VALIDATION_ERROR", "EMPTY_ORDER",
              "INVALID_QUANTITY", "RESTAURANT_NOT_FOUND",
              "MENU_ITEM_MISMATCH", "DB_ERROR", "ORDER_NOT_FOUND",
              "FORBIDDEN", "INVALID_STATUS_TRANSITION",
              "ORDER_ALREADY_RATED"}

Response == [code : ErrorCode \cup {"OK"}, orders : SUBSET OrderDto]

\* The id and the row are NULL between START TRANSACTION and INSERT INTO orders.
Transaction == [id : OrderId \cup {NULL}, row : OrderRow \cup {NULL}]

ASSUME ServiceAssumption ==
  /\ Requests \subseteq Request
  /\ MaxRequests \in Nat
  /\ NULL \notin Worker
  /\ NULL \notin Transaction

PC == {"idle", "start", "restaurant", "menu", "begin", "header", "items",
       "commit", "find", "lines", "write", "list"}

Local == [phase : {"load", "reread", "list"}, \* what an order is read for
          cart  : Seq(Line),                  \* lines of the order to create
          cur   : OrderId \cup {NULL},        \* id of the order to read
          half  : OrderDto \cup {NULL},       \* a header read without its lines
          dto   : OrderDto \cup {NULL},       \* the order the handler loaded
          todo  : SUBSET OrderId,             \* ids a list has yet to read
          found : SUBSET OrderDto]            \* orders a list has read

Fresh == [phase |-> "load", cart |-> << >>, cur |-> NULL, half |-> NULL,
          dto |-> NULL, todo |-> {}, found |-> {}]

ServiceTypeOK ==
  /\ conn \in {"null", "up", "lost"}
  /\ lock \in Worker \cup {NULL}
  /\ txn \in Transaction \cup {NULL}
  /\ pc \in [Worker -> PC]
  /\ req \in [Worker -> Requests \cup {NULL}]
  /\ loc \in [Worker -> Local]
  /\ resp \in [Worker -> Response \cup {NULL}]
  /\ accepted \in 0..MaxRequests

ServiceInit ==
  /\ conn \in {"up", "null"}
  /\ lock = NULL
  /\ txn = NULL
  /\ pc = [w \in Worker |-> "idle"]
  /\ req = [w \in Worker |-> NULL]
  /\ loc = [w \in Worker |-> Fresh]
  /\ resp = [w \in Worker |-> NULL]
  /\ accepted = 0
-----------------------------------------------------------------------------
(***************************************************************************)
(* Statements, the mutex and replies.                                      *)
(***************************************************************************)
isConnected == conn # "null"

\* A worker may enter a repository method: the mutex is free, or its own.
MayEnter(w) == lock \in {NULL, w}

Succeeds == conn = "up" /\ UNCHANGED faults

\* A statement fails on a broken connection, and may fail on a good one.
Fails ==
  \/ conn = "lost" /\ UNCHANGED faults
  \/ conn = "up" /\ faults < MaxFaults /\ faults' = faults + 1

\* The handler returns and the controller answers.
Reply(w, code, os) ==
  /\ resp' = [resp EXCEPT ![w] = [code |-> code, orders |-> os]]
  /\ pc' = [pc EXCEPT ![w] = "idle"]
  /\ loc' = [loc EXCEPT ![w] = Fresh]
  /\ UNCHANGED req

Refuse(w, code) == Reply(w, code, {})

Goto(w, label, l) ==
  /\ pc' = [pc EXCEPT ![w] = label]
  /\ loc' = [loc EXCEPT ![w] = l]
  /\ UNCHANGED <<req, resp>>
-----------------------------------------------------------------------------
(***************************************************************************)
(* The start of a handler.                                                 *)
(***************************************************************************)
Accept(w, r) ==
  /\ pc[w] = "idle"
  /\ accepted < MaxRequests
  /\ accepted' = accepted + 1
  /\ req' = [req EXCEPT ![w] = r]
  /\ resp' = [resp EXCEPT ![w] = NULL]
  /\ pc' = [pc EXCEPT ![w] = "start"]
  /\ UNCHANGED <<loc, session, faults, crashes, tables>>

\* The checks createOrder makes before it reads anything, in their order.
ShapeError(r) ==
  IF r.delivery \notin DeliveryWhitelist THEN "VALIDATION_ERROR"
  ELSE IF r.lines = << >> THEN "EMPTY_ORDER"
  ELSE IF \E k \in 1..Len(r.lines) : r.lines[k].qty <= 0
       THEN "INVALID_QUANTITY"
       ELSE "none"

\* isConnected() and the checks that need no query.
Start(w) ==
  LET r == req[w] IN
  /\ pc[w] = "start"
  /\ MayEnter(w)
  /\ \/ /\ ~isConnected
        /\ Refuse(w, "DB_UNAVAILABLE")
     \/ /\ isConnected
        /\ r.op = "create"
        /\ ShapeError(r) # "none"
        /\ Refuse(w, ShapeError(r))
     \/ /\ isConnected
        /\ r.op = "create"
        /\ ShapeError(r) = "none"
        /\ Goto(w, "restaurant", Fresh)
     \/ /\ isConnected
        /\ r.op = "update"
        /\ ~r.isAdmin
        /\ Refuse(w, "FORBIDDEN")
     \/ /\ isConnected
        /\ r.op \in {"get", "rate"} \/ (r.op = "update" /\ r.isAdmin)
        /\ Goto(w, "find", [Fresh EXCEPT !.cur = r.id])
     \/ /\ isConnected
        /\ r.op = "list"
        /\ Goto(w, "list", Fresh)
  /\ UNCHANGED <<session, accepted, faults, crashes, tables>>
-----------------------------------------------------------------------------
(***************************************************************************)
(* createOrder: the lookups, the pricing and the transaction.              *)
(***************************************************************************)
FindRestaurant(w) ==
  /\ pc[w] = "restaurant"
  /\ MayEnter(w)
  /\ \/ /\ Succeeds
        /\ req[w].rest \in restaurants
        /\ Goto(w, "menu", Fresh)
     \/ /\ (Succeeds /\ req[w].rest \notin restaurants) \/ Fails
        /\ Refuse(w, "RESTAURANT_NOT_FOUND")
  /\ UNCHANGED <<session, accepted, crashes, tables>>

\* The lines of a request with the prices of the menu just read.
Priced(lines) ==
  [k \in 1..Len(lines) |-> [food |-> lines[k].food,
                            price |-> foods[lines[k].food],
                            qty |-> lines[k].qty]]

\* Mutant of OnMenu: a food of any restaurant will do.
OnAnyMenu(lines, menu) == \A k \in 1..Len(lines) : foods[lines[k].food] # NULL

OnMenu(lines, menu) == \A k \in 1..Len(lines) : lines[k].food \in menu

\* getFoodsByRestaurant returns an empty menu when its query fails.
LoadMenu(w) ==
  LET r == req[w] IN
  /\ pc[w] = "menu"
  /\ MayEnter(w)
  /\ \/ /\ Succeeds
        /\ OnMenu(r.lines, MenuRows(r.rest))
        /\ Goto(w, "begin", [Fresh EXCEPT !.cart = Priced(r.lines)])
     \/ /\ (Succeeds /\ ~OnMenu(r.lines, MenuRows(r.rest))) \/ Fails
        /\ Refuse(w, "MENU_ITEM_MISMATCH")
  /\ UNCHANGED <<session, accepted, crashes, tables>>

\* START TRANSACTION.  MySQL first commits a transaction that is still open.
Begin(w) ==
  /\ pc[w] = "begin"
  /\ MayEnter(w)
  /\ \/ /\ Succeeds
        /\ lock' = w
        /\ txn' = [id |-> NULL, row |-> NULL]
        /\ orders' = IF txn # NULL /\ txn.id # NULL
                     THEN [orders EXCEPT ![txn.id] = txn.row]
                     ELSE orders
        /\ Goto(w, "header", loc[w])
     \/ /\ Fails
        /\ Refuse(w, "DB_ERROR")
        /\ UNCHANGED <<lock, txn, orders>>
  /\ UNCHANGED <<conn, accepted, crashes, nextId, restaurants, foods>>

\* Mutants of Abort: no ROLLBACK, and a mutex that stays locked.
AbortLeavesOpen(w) ==
  /\ UNCHANGED txn
  /\ lock' = NULL
  /\ Refuse(w, "DB_ERROR")

AbortKeepsLock(w) ==
  /\ txn' = NULL
  /\ UNCHANGED lock
  /\ Refuse(w, "DB_ERROR")

\* ROLLBACK, the release of the mutex and the DB_ERROR of the service.
Abort(w) ==
  /\ txn' = NULL
  /\ lock' = NULL
  /\ Refuse(w, "DB_ERROR")

\* INSERT INTO orders.  The counter keeps the id when the insert is undone.
InsertHeader(w) ==
  LET total == Total(loc[w].cart) IN
  /\ pc[w] = "header"
  /\ \/ /\ Succeeds
        /\ CanInsert(total)
        /\ txn' = [id |-> nextId,
                   row |-> Header(req[w].user, req[w].rest, "Pending", total)]
        /\ nextId' = nextId + 1
        /\ Goto(w, "items", loc[w])
        /\ UNCHANGED lock
     \/ /\ (Succeeds /\ ~CanInsert(total)) \/ Fails
        /\ Abort(w)
        /\ UNCHANGED nextId
  /\ UNCHANGED <<conn, accepted, crashes, orders, restaurants, foods>>

\* Mutant of InsertItem: a line that fails ends the loop, not the transaction.
InsertItemStopsEarly(w) ==
  LET done == Len(txn.row.items) IN
  /\ pc[w] = "items"
  /\ \/ /\ Succeeds
        /\ txn' = [txn EXCEPT !.row.items = Append(@, loc[w].cart[done + 1])]
        /\ Goto(w, IF done + 1 = Len(loc[w].cart) THEN "commit" ELSE "items",
                loc[w])
     \/ Fails /\ Goto(w, "commit", loc[w]) /\ UNCHANGED txn
  /\ UNCHANGED <<conn, lock, accepted, crashes, tables>>

\* One INSERT INTO order_items, until every line is in.
InsertItem(w) ==
  LET cart == loc[w].cart
      done == Len(txn.row.items)
  IN
  /\ pc[w] = "items"
  /\ \/ /\ Succeeds
        /\ done < Len(cart)
        /\ txn' = [txn EXCEPT !.row.items = Append(@, cart[done + 1])]
        /\ Goto(w, IF done + 1 = Len(cart) THEN "commit" ELSE "items", loc[w])
        /\ UNCHANGED lock
     \/ /\ Fails
        /\ Abort(w)
  /\ UNCHANGED <<conn, accepted, crashes, tables>>

\* Mutant of Commit: the new order is looked up as the one with the largest id.
CommitReadsLast(w) ==
  /\ pc[w] = "commit"
  /\ \/ /\ Succeeds
        /\ orders' = [orders EXCEPT ![txn.id] = txn.row]
        /\ txn' = NULL
        /\ lock' = NULL
        /\ Goto(w, "find",
                [loc[w] EXCEPT !.cur = nextId - 1, !.phase = "reread"])
     \/ /\ Fails
        /\ Abort(w)
        /\ UNCHANGED orders
  /\ UNCHANGED <<conn, crashes, accepted, nextId, restaurants, foods>>

\* COMMIT.  When the connection breaks during it, the server may have applied
\* it although the client sees a failure.
Commit(w) ==
  /\ pc[w] = "commit"
  /\ \/ /\ Succeeds
        /\ orders' = [orders EXCEPT ![txn.id] = txn.row]
        /\ txn' = NULL
        /\ lock' = NULL
        /\ Goto(w, "find", [loc[w] EXCEPT !.cur = txn.id, !.phase = "reread"])
        /\ UNCHANGED <<conn, crashes>>
     \/ /\ Fails
        /\ Abort(w)
        /\ UNCHANGED <<conn, crashes, orders>>
     \/ /\ Succeeds
        /\ crashes < MaxCrashes
        /\ crashes' = crashes + 1
        /\ conn' = "lost"
        /\ orders' = [orders EXCEPT ![txn.id] = txn.row]
        /\ Abort(w)
  /\ UNCHANGED <<accepted, nextId, restaurants, foods>>
-----------------------------------------------------------------------------
(***************************************************************************)
(* findOrderById: one SELECT for the header, another one for the lines.    *)
(***************************************************************************)
\* The header as the first SELECT returns it.  It does not select the rating,
\* which keeps the default of OrderDto.
HeaderOf(i) ==
  [id |-> i, owner |-> orders[i].owner, rest |-> orders[i].rest,
   status |-> orders[i].status, rating |-> 0, total |-> orders[i].total,
   items |-> << >>]

\* What a handler answers when its second look at the order finds nothing.
Fallback(w) ==
  LET r == req[w] IN
  IF r.op = "create"
  THEN [id |-> loc[w].cur, owner |-> r.user, rest |-> r.rest,
        status |-> "Pending", rating |-> 0, total |-> Total(loc[w].cart),
        items |-> loc[w].cart]
  ELSE IF r.op = "update"
  THEN [loc[w].dto EXCEPT !.status = r.status]
  ELSE [loc[w].dto EXCEPT !.rating = r.rating]

\* A list goes on with its next id, or answers.  Rows created in the same
\* second come in any order.
ListNext(w, os) ==
  \/ /\ loc[w].todo = {}
     /\ Reply(w, "OK", os)
     /\ lock' = NULL
  \/ \E i \in loc[w].todo :
       /\ Goto(w, "find", [loc[w] EXCEPT !.cur = i, !.todo = @ \ {i},
                                         !.found = os, !.half = NULL])
       /\ lock' = w

FindHeader(w) ==
  LET i == loc[w].cur IN
  /\ pc[w] = "find"
  /\ MayEnter(w)
  /\ Succeeds
  /\ Exists(i)
  /\ lock' = w
  /\ Goto(w, "lines", [loc[w] EXCEPT !.half = HeaderOf(i)])
  /\ UNCHANGED <<conn, txn, accepted, crashes, tables>>

\* No such row, or the SELECT failed: findOrderById returns nullopt for both.
FindNothing(w) ==
  /\ pc[w] = "find"
  /\ MayEnter(w)
  /\ (Succeeds /\ ~Exists(loc[w].cur)) \/ Fails
  /\ \/ /\ loc[w].phase = "load"
        /\ Refuse(w, "ORDER_NOT_FOUND")
        /\ UNCHANGED lock
     \/ /\ loc[w].phase = "reread"
        /\ Reply(w, "OK", {Fallback(w)})
        /\ UNCHANGED lock
     \/ /\ loc[w].phase = "list"
        /\ ListNext(w, loc[w].found)
  /\ UNCHANGED <<conn, txn, accepted, crashes, tables>>

\* The order with the lines that are there now.
Whole(w) ==
  [loc[w].half EXCEPT !.items = IF Exists(loc[w].cur)
                                THEN orders[loc[w].cur].items ELSE << >>]

\* findOrderById returns d; it has no lines when the second SELECT failed.
FindReturns(w, d) ==
  /\ \/ Succeeds /\ d = Whole(w)
     \/ Fails /\ d = loc[w].half
  /\ UNCHANGED <<conn, txn, accepted, crashes, tables>>

Reading(w, ph) == pc[w] = "lines" /\ loc[w].phase = ph

\* Mutant of MayRead: no owner check.
AnyoneMayRead(w, d) == TRUE

MayRead(w, d) == req[w].isAdmin \/ d.owner = req[w].user

GetOrder(w) ==
  /\ Reading(w, "load")
  /\ req[w].op = "get"
  /\ \E d \in {Whole(w), loc[w].half} :
       /\ FindReturns(w, d)
       /\ lock' = NULL
       /\ IF MayRead(w, d) THEN Reply(w, "OK", {d})
                           ELSE Refuse(w, "ORDER_NOT_FOUND")

\* Mutant of CheckUpdate: any known status is accepted.
CheckUpdateAnyStatus(w) ==
  /\ Reading(w, "load")
  /\ req[w].op = "update"
  /\ \E d \in {Whole(w), loc[w].half} :
       /\ FindReturns(w, d)
       /\ lock' = NULL
       /\ IF req[w].status \in Status
          THEN Goto(w, "write", [loc[w] EXCEPT !.dto = d])
          ELSE Refuse(w, "INVALID_STATUS_TRANSITION")

CheckUpdate(w) ==
  /\ Reading(w, "load")
  /\ req[w].op = "update"
  /\ \E d \in {Whole(w), loc[w].half} :
       /\ FindReturns(w, d)
       /\ lock' = NULL
       /\ IF isValidTransition(d.status, req[w].status)
          THEN Goto(w, "write", [loc[w] EXCEPT !.dto = d])
          ELSE Refuse(w, "INVALID_STATUS_TRANSITION")

\* The checks rateOrder makes on the order it loaded, in their order.
RateError(w, d) ==
  IF ~MayRead(w, d) THEN "ORDER_NOT_FOUND"
  ELSE IF ~canRate(d.status) THEN "INVALID_STATUS_TRANSITION"
  ELSE IF d.rating > 0 THEN "ORDER_ALREADY_RATED"
  ELSE IF ~isValidRating(req[w].rating) THEN "VALIDATION_ERROR"
  ELSE "none"

CheckRate(w) ==
  /\ Reading(w, "load")
  /\ req[w].op = "rate"
  /\ \E d \in {Whole(w), loc[w].half} :
       /\ FindReturns(w, d)
       /\ lock' = NULL
       /\ IF RateError(w, d) = "none"
          THEN Goto(w, "write", [loc[w] EXCEPT !.dto = d])
          ELSE Refuse(w, RateError(w, d))

Reread(w) ==
  /\ Reading(w, "reread")
  /\ \E d \in {Whole(w), loc[w].half} :
       /\ FindReturns(w, d)
       /\ lock' = NULL
       /\ Reply(w, "OK", {d})

ListOne(w) ==
  /\ Reading(w, "list")
  /\ \E d \in {Whole(w), loc[w].half} :
       /\ FindReturns(w, d)
       /\ ListNext(w, loc[w].found \cup {d})
-----------------------------------------------------------------------------
(***************************************************************************)
(* The UPDATE of updateStatus and rateOrder, and the first SELECT of a     *)
(* list.                                                                   *)
(***************************************************************************)
\* The UPDATE has no condition on the row the handler checked.
Write(w) ==
  LET i == loc[w].cur IN
  /\ pc[w] = "write"
  /\ MayEnter(w)
  /\ \/ /\ Succeeds
        /\ \/ /\ req[w].op = "update"
              /\ SetStatus(i, stringToOrderStatus(req[w].status))
           \/ /\ req[w].op = "rate"
              /\ SetRating(i, req[w].rating)
        /\ Goto(w, "find", [loc[w] EXCEPT !.phase = "reread", !.half = NULL])
     \/ /\ Fails
        /\ Refuse(w, "DB_ERROR")
        /\ UNCHANGED orders
  /\ UNCHANGED <<session, accepted, crashes, nextId, restaurants, foods>>

\* Mutant of Visible: listAllOrders for everybody.
AllVisible(w) == {i \in OrderId : Exists(i)}

\* The rows an admin sees are all of them, a customer's are his own.
Visible(w) ==
  {i \in OrderId : Exists(i) /\ (req[w].isAdmin
                                 \/ orders[i].owner = req[w].user)}

\* SELECT id ...; a failure reads as an empty list.
ListIds(w) ==
  /\ pc[w] = "list"
  /\ MayEnter(w)
  /\ \/ /\ Succeeds
        /\ Visible(w) # {}
        /\ \E i \in Visible(w) :
             Goto(w, "find", [loc[w] EXCEPT !.phase = "list", !.cur = i,
                                            !.todo = Visible(w) \ {i}])
        /\ lock' = w
     \/ /\ (Succeeds /\ Visible(w) = {}) \/ Fails
        /\ Reply(w, "OK", {})
        /\ UNCHANGED lock
  /\ UNCHANGED <<conn, txn, accepted, crashes, tables>>
-----------------------------------------------------------------------------
(***************************************************************************)
(* Failures of the process and of its connection.                          *)
(***************************************************************************)
\* The connection breaks.  The server undoes the open transaction; nothing in
\* the process reconnects or resets the handle.
LoseConnection ==
  /\ conn = "up"
  /\ crashes < MaxCrashes
  /\ crashes' = crashes + 1
  /\ conn' = "lost"
  /\ txn' = NULL
  /\ UNCHANGED <<lock, workers, accepted, faults, tables>>

\* The process dies and is started again, with the database or, when it
\* cannot connect, without (degraded mode).
Restart ==
  /\ crashes < MaxCrashes
  /\ crashes' = crashes + 1
  /\ conn' \in {"up", "null"}
  /\ txn' = NULL
  /\ lock' = NULL
  /\ pc' = [w \in Worker |-> "idle"]
  /\ req' = [w \in Worker |-> NULL]
  /\ loc' = [w \in Worker |-> Fresh]
  /\ resp' = [w \in Worker |-> NULL]
  /\ UNCHANGED <<accepted, faults, tables>>

\* A worker that serves a request takes its next step.
WorkerStep(w) ==
  \/ Start(w)
  \/ FindRestaurant(w) \/ LoadMenu(w)
  \/ Begin(w) \/ InsertHeader(w) \/ InsertItem(w) \/ Commit(w)
  \/ FindHeader(w) \/ FindNothing(w)
  \/ GetOrder(w) \/ CheckUpdate(w) \/ CheckRate(w) \/ Reread(w) \/ ListOne(w)
  \/ Write(w) \/ ListIds(w)

ServiceNext ==
  \/ \E w \in Worker, r \in Requests : Accept(w, r)
  \/ \E w \in Worker : WorkerStep(w)
  \/ LoseConnection
  \/ Restart
=============================================================================
