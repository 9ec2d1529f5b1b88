----------------------------- MODULE OrderSystem -----------------------------
(***************************************************************************)
(* The REST service and the console program at work on the same tables,    *)
(* and what must hold of the orders in them and of the answers given.      *)
(***************************************************************************)
EXTENDS OrderService, CliOrders

vars == <<tables, faults, crashes, service, console>>

Init == TablesInit /\ ServiceInit /\ CliInit

Next ==
  \/ ServiceNext /\ UNCHANGED console
  \/ CliNext /\ UNCHANGED service

Spec == Init /\ [][Next]_vars

\* A worker thread that serves a request goes on with it: Drogon runs the
\* handler to its end, a blocked thread gets the mutex once it stays free, and
\* a statement returns.  Clients, the console and failures are not fair.
Fairness == \A w \in Worker : WF_vars(WorkerStep(w) /\ UNCHANGED console)

FairSpec == Spec /\ Fairness
-----------------------------------------------------------------------------
TypeOK == TablesTypeOK /\ ServiceTypeOK /\ CliTypeOK

\* An order placed through the API is in the tables with all of its lines or
\* not at all, its total is the sum of those lines and every line is from the
\* menu of its restaurant: the transaction of Database::createOrder, whichever
\* statement fails, whatever breaks or crashes, and whoever else writes.
RestOrdersWhole ==
  \A i \in OrderId :
    Exists(i) /\ FromRest(orders[i]) =>
      LET o == orders[i] IN
      /\ o.items # << >>
      /\ o.total = Total(o.items)
      /\ \A k \in 1..Len(o.items) : FoodOf[o.items[k].food] = o.rest

\* A customer is never shown somebody else's order, by any endpoint: the owner
\* that getOrder and rateOrder checked on one read is still the owner of what
\* a later read returns, and a list shows the caller's own orders.
OwnOrdersOnly ==
  \A w \in Worker :
    resp[w] # NULL /\ ~req[w].isAdmin =>
      \A d \in resp[w].orders : d.owner = req[w].user

InTransaction(w) == pc[w] \in {"header", "items", "commit"}

HoldsMutex(w) ==
  \/ InTransaction(w)
  \/ pc[w] = "lines"
  \/ pc[w] = "find" /\ loc[w].phase = "list"

\* Threads share one connection, so a transaction must never be left open
\* when the mutex is released: another thread's statement would join it, or
\* its START TRANSACTION would commit it half done.
TransactionGuarded ==
  txn # NULL => \E w \in Worker : lock = w /\ InTransaction(w)

\* A created order that was acknowledged is in the tables (unless a console
\* user has deleted it) and has the lines of its request, for the user of the
\* request: the id the reply is read back with is the id of this insert,
\* although other threads and the console insert at the same time.
CreatedAsRequested ==
  \A w \in Worker :
    resp[w] # NULL /\ resp[w].code = "OK" /\ req[w].op = "create" =>
      \E d \in resp[w].orders :
        /\ resp[w].orders = {d}
        /\ Exists(d.id) \/ "delete" \in CliOps
        /\ Exists(d.id) =>
             LET o == orders[d.id] IN
             /\ o.owner = req[w].user
             /\ o.rest = req[w].rest
             /\ Len(o.items) = Len(req[w].lines)
             /\ \A k \in 1..Len(o.items) :
                  /\ o.items[k].food = req[w].lines[k].food
                  /\ o.items[k].qty = req[w].lines[k].qty

\* Once it is committed, nothing but its deletion changes what an API order
\* is: its owner, restaurant, total and lines, with the prices of the day,
\* survive status changes, ratings, menu edits and the console's inserts.
ContentsImmutable ==
  [][\A i \in OrderId :
       Exists(i) /\ FromRest(orders[i]) /\ Exists(i)' =>
         /\ orders'[i].owner = orders[i].owner
         /\ orders'[i].rest = orders[i].rest
         /\ orders'[i].total = orders[i].total
         /\ orders'[i].items = orders[i].items]_orders

\* Every request is answered, or dies with its process: no error path of a
\* repository method keeps the mutex.
Answered == \A w \in Worker : pc[w] # "idle" ~> pc[w] = "idle"

\* With one worker thread and no console at work, the tables implement the
\* lifecycle of OrderLifecycle: the status check and the UPDATE of
\* updateStatus, two separate calls, then behave as one step.
Life(i) ==
  IF Exists(i) THEN [status |-> orders[i].status, rating |-> orders[i].rating]
               ELSE [status |-> "None", rating |-> 0]

Lifecycle == INSTANCE OrderLifecycle
               WITH Orders <- OrderId, life <- [i \in OrderId |-> Life(i)]

LifecycleSpec == Lifecycle!Spec
-----------------------------------------------------------------------------
(***************************************************************************)
(* What the sources say and the code does not do.                          *)
(***************************************************************************)
\* OrderStatusMachine.h: Delivered and Cancelled are terminal.
TerminalIsFinal ==
  [][\A i \in OrderId :
       Exists(i) /\ orders[i].status \in {"Delivered", "Cancelled"} =>
         ~Exists(i)' \/ orders'[i].status = orders[i].status]_orders

\* OrderService::rateOrder and its test: a rated order is not rated again.
RatedOnce ==
  [][\A i \in OrderId :
       Exists(i) /\ orders[i].rating > 0 =>
         ~Exists(i)' \/ orders'[i].rating = orders[i].rating]_orders
=============================================================================
