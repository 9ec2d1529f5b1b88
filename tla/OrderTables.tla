----------------------------- MODULE OrderTables -----------------------------
(***************************************************************************)
(* The MySQL tables that the REST service and the console program share:   *)
(* orders with their order_items, restaurants and foods.  This state is    *)
(* durable: it outlives a crash of either process.  The operators below    *)
(* are the SQL statements of src/db/Database.cpp, each of them atomic; the *)
(* modules that extend this one say who executes them and in which order.  *)
(***************************************************************************)
EXTENDS OrderStatusMachine, Sequences

CONSTANTS
  User,         \* user ids
  Restaurant,   \* restaurant ids
  Food,         \* food ids
  Price,        \* the prices a food may have, in cents
  MaxOrder,     \* the last id AUTO_INCREMENT can hand out (a bound)
  MaxTotal,     \* the largest amount the DECIMAL(10,2) column total_price holds
  FoodOf,       \* the restaurant each food belongs to
  MaxFaults,    \* bound: SQL statements that fail while the connection is up
  MaxCrashes,   \* bound: lost connections, crashes and kills of a process
  NULL

ASSUME TablesAssumption ==
  /\ Price \subseteq Nat
  /\ MaxOrder \in Nat
  /\ MaxTotal \in Nat
  /\ MaxFaults \in Nat
  /\ MaxCrashes \in Nat
  /\ FoodOf \in [Food -> Restaurant]
  /\ NULL \notin Restaurant \cup (1..MaxOrder)
  /\ NULL \notin Price

VARIABLES
  orders,       \* the orders table joined with order_items: id -> row or NULL
  nextId,       \* the AUTO_INCREMENT counter of orders
  restaurants,  \* the ids in the restaurants table
  foods,        \* the foods table: id -> price, or NULL when there is no row
  faults,       \* failed statements so far
  crashes       \* lost connections and dead processes so far

tables == <<orders, nextId, restaurants, foods>>

OrderId == 1..MaxOrder

\* A row of order_items: the name and price are copied from the menu.
Line == [food : Food, price : Price, qty : Nat \ {0}]

\* A row of orders with its lines.  restaurant_id is NULL exactly in the rows
\* the console program inserts.
OrderRow == [owner  : User,
             rest   : Restaurant \cup {NULL},
             status : Status,
             rating : StoredRating,
             total  : 0..MaxTotal,
             items  : Seq(Line)]

ASSUME RowAssumption == NULL \notin OrderRow

FromRest(row) == row.rest # NULL

\* The price of the lines of an order.
Total(lines) ==
  LET sum[n \in 0..Len(lines)] ==
        IF n = 0 THEN 0 ELSE sum[n - 1] + lines[n].price * lines[n].qty
  IN  sum[Len(lines)]

TablesTypeOK ==
  /\ orders \in [OrderId -> OrderRow \cup {NULL}]
  /\ nextId \in 1..(MaxOrder + 1)
  /\ restaurants \subseteq Restaurant
  /\ foods \in [Food -> Price \cup {NULL}]
  /\ faults \in 0..MaxFaults
  /\ crashes \in 0..MaxCrashes

TablesInit ==
  /\ orders = [i \in OrderId |-> NULL]
  /\ nextId = 1
  /\ restaurants = Restaurant
  /\ foods \in [Food -> Price]
  /\ faults = 0
  /\ crashes = 0

Exists(i) == orders[i] # NULL

\* A header row as both INSERT INTO orders statements write it: rating has its
\* column default.
Header(owner, rest, status, total) ==
  [owner |-> owner, rest |-> rest, status |-> status,
   rating |-> 0, total |-> total, items |-> << >>]

\* INSERT INTO orders fails when the amount does not fit its column (MySQL's
\* strict mode) or when the INT AUTO_INCREMENT column has run out of ids.
CanInsert(total) == nextId <= MaxOrder /\ total \in 0..MaxTotal

\* Mutant of MenuRows: a menu that was cached before a dish was taken off.
CachedMenuRows(r) == {f \in Food : FoodOf[f] = r}

\* SELECT ... FROM foods WHERE restaurant_id = r
MenuRows(r) == {f \in Food : FoodOf[f] = r /\ foods[f] # NULL}

\* UPDATE orders SET ... WHERE id = i, DELETE FROM orders WHERE id = i and the
\* insertion of one line succeed whether or not they find the row.
SetStatus(i, s) ==
  orders' = IF Exists(i) THEN [orders EXCEPT ![i].status = s] ELSE orders

SetRating(i, r) ==
  orders' = IF Exists(i) THEN [orders EXCEPT ![i].rating = r] ELSE orders

Delete(i) == orders' = [orders EXCEPT ![i] = NULL]

\* Mutant of AppendLine: the line goes to the order with the largest id.
AppendLineToLast(i, line) ==
  /\ Exists(nextId - 1)
  /\ orders' = [orders EXCEPT ![nextId - 1].items = Append(@, line)]

\* The foreign key of order_items refuses a line whose order is gone.
AppendLine(i, line) ==
  /\ Exists(i)
  /\ orders' = [orders EXCEPT ![i].items = Append(@, line)]
=============================================================================
