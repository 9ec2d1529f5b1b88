------------------------- MODULE OrderAnswersProofs -------------------------
(***************************************************************************)
(* Proofs about what the order API answers, on top of OrderSystemProofs:   *)
(* customers see their own orders only, an acknowledged order is the one   *)
(* that was asked for, and what was ordered never changes.                 *)
(*                                                                         *)
(* All of it rests on ids: a handler checks an order on one read and acts  *)
(* on a later one, so the id it keeps must never come to mean another      *)
(* order.  IdsFresh and Settled say so, Stable says what any step of       *)
(* anybody leaves of a settled order, and KnowsOK what each program point  *)
(* of a handler therefore still knows of the orders it has seen.           *)
(***************************************************************************)
EXTENDS OrderSystemProofs

\* No insert, done or pending, will give the id i to another order.
Settled(i) ==
  /\ i \in OrderId
  /\ i < nextId
  /\ txn # NULL => txn.id # i

\* Ids are handed out once, and the order of an open transaction is not in the
\* table yet.
IdsFresh ==
  /\ \A i \in OrderId : Exists(i) => i < nextId
  /\ txn # NULL /\ txn.id # NULL => ~Exists(txn.id)

\* The order i, if it is still there, is an order of user u.
Owned(i, u) == Settled(i) /\ (Exists(i) => orders[i].owner = u)

\* The priced lines c are the lines of a request.
CartOf(c, lines) ==
  /\ Len(c) = Len(lines)
  /\ \A k \in 1..Len(c) : c[k].food = lines[k].food /\ c[k].qty = lines[k].qty

\* The row o is what the request r asked to create.
Matches(o, r) ==
  /\ FromRest(o)
  /\ o.owner = r.user
  /\ o.rest = r.rest
  /\ CartOf(o.items, r.lines)

\* The order i was created for r, and is there unless it was deleted.
Made(i, r) ==
  /\ Settled(i)
  /\ Exists(i) \/ "delete" \in CliOps
  /\ Exists(i) => Matches(orders[i], r)

\* What a handler at the program point p knows of the orders: its request is r,
\* its local variables are l and its answer is a.
KnowsOK(p, r, l, a) ==
  /\ p # "idle" => a = NULL
  /\ p \in {"begin", "header", "items", "commit"} => CartOf(l.cart, r.lines)
  /\ p \in {"find", "lines"} /\ l.phase = "load" =>
       r.op \in {"get", "update", "rate"} /\ (r.op = "update" => r.isAdmin)
  /\ p \in {"find", "lines"} /\ l.phase = "list" => r.op = "list"
  /\ p = "list" => r.op = "list" /\ l.found = {}
  /\ p = "lines" => l.half.id = l.cur /\ Owned(l.cur, l.half.owner)
  /\ p = "lines" /\ l.phase # "load" /\ ~r.isAdmin => l.half.owner = r.user
  /\ p = "write" \/ (p \in {"find", "lines"} /\ l.phase = "reread") =>
       /\ r.op = "update" => r.isAdmin
       /\ ~r.isAdmin => Owned(l.cur, r.user)
       /\ ~r.isAdmin /\ r.op # "create" => l.dto.owner = r.user
       /\ r.op = "create" => Made(l.cur, r)
  /\ p \in {"find", "lines"} /\ l.phase = "list" /\ ~r.isAdmin =>
       /\ \A i \in {l.cur} \cup l.todo : Owned(i, r.user)
       /\ \A d \in l.found : d.owner = r.user
  /\ p = "idle" /\ a # NULL =>
       /\ ~r.isAdmin => \A d \in a.orders : d.owner = r.user
       /\ a.code = "OK" /\ r.op = "create" =>
            \E d \in a.orders : a.orders = {d} /\ Made(d.id, r)

Knows(w) == KnowsOK(pc[w], req[w], loc[w], resp[w])

\* The order in a transaction is one for the user who asked for it.
TxnOwner ==
  \A w \in Worker :
    pc[w] \in {"items", "commit"} /\ txn # NULL => txn.row.owner = req[w].user

AInv ==
  /\ IInv
  /\ IdsFresh
  /\ TxnOwner
  /\ \A w \in Worker : Knows(w)
-----------------------------------------------------------------------------
(***************************************************************************)
(* What any step leaves of the orders.                                     *)
(***************************************************************************)
\* A settled id stays settled and gets no other order; an order keeps its owner
\* and, if the API placed it, its contents; only the console deletes.
Stable ==
  /\ \A i \in OrderId : Settled(i) => Settled(i)'
  /\ \A i \in OrderId : Settled(i) /\ Exists(i)' =>
       /\ Exists(i)
       /\ orders'[i].owner = orders[i].owner
       /\ FromRest(orders[i]) =>
            /\ orders'[i].rest = orders[i].rest
            /\ orders'[i].total = orders[i].total
            /\ orders'[i].items = orders[i].items
  /\ \A i \in OrderId : Exists(i) /\ ~Exists(i)' => "delete" \in CliOps

\* An order in the table is settled.
LEMMA ExistsSettled ==
  ASSUME IdsFresh, NEW i \in OrderId, Exists(i)
  PROVE  Settled(i)
  BY TablesAssumption DEF IdsFresh, Settled, OrderId

\* What a handler knows of an order survives every stable step.
LEMMA KnowledgeKept ==
  ASSUME Stable, NEW i
  PROVE  /\ \A u : Owned(i, u) => Owned(i, u)'
         /\ \A r : Made(i, r) => Made(i, r)'
  <1>1. ASSUME NEW u, Owned(i, u) PROVE Owned(i, u)'
    <2>1. i \in OrderId /\ Settled(i) /\ (Exists(i) => orders[i].owner = u)
      BY <1>1 DEF Owned, Settled
    <2>2. Settled(i)'
      BY <2>1 DEF Stable
    <2>3. ASSUME Exists(i)' PROVE orders'[i].owner = u
      BY <2>1, <2>3 DEF Stable
    <2>4. QED
      BY <2>2, <2>3 DEF Owned
  <1>2. ASSUME NEW r, Made(i, r) PROVE Made(i, r)'
    <2>1. /\ i \in OrderId /\ Settled(i)
          /\ Exists(i) \/ "delete" \in CliOps
          /\ Exists(i) => Matches(orders[i], r)
      BY <1>2 DEF Made, Settled
    <2>2. Settled(i)' /\ (Exists(i)' \/ "delete" \in CliOps)
      BY <2>1 DEF Stable
    <2>3. ASSUME Exists(i)' PROVE Matches(orders'[i], r)
      <3>1. Exists(i) /\ Matches(orders[i], r)
        BY <2>1, <2>3 DEF Stable
      <3>2. /\ orders'[i].owner = orders[i].owner
            /\ orders'[i].rest = orders[i].rest
            /\ orders'[i].items = orders[i].items
        BY <2>1, <2>3, <3>1 DEF Stable, Matches
      <3>3. QED
        BY <3>1, <3>2 DEF Matches, FromRest
    <2>4. QED
      BY <2>2, <2>3 DEF Made
  <1>3. QED
    BY <1>1, <1>2

\* The open transaction is the same one, a new one without an id, or gone.
SameTxn ==
  \/ txn' = NULL
  \/ txn'.id = NULL
  \/ txn # NULL /\ txn'.id = txn.id

\* UPDATEs of status and rating and DELETEs, or no change of the rows at all.
Updated ==
  \A i \in OrderId :
    /\ Exists(i)' =>
         /\ Exists(i)
         /\ orders'[i].owner = orders[i].owner
         /\ orders'[i].rest = orders[i].rest
         /\ orders'[i].total = orders[i].total
         /\ orders'[i].items = orders[i].items
    /\ Exists(i) => Exists(i)' \/ "delete" \in CliOps

\* The statements are of that kind.
LEMMA StatementsUpdate ==
  ASSUME TablesTypeOK, NEW i \in OrderId
  PROVE  /\ \A s \in Status : SetStatus(i, s) => Updated
         /\ \A r \in 1..5 : SetRating(i, r) => Updated
         /\ Delete(i) /\ "delete" \in CliOps => Updated
         /\ UNCHANGED orders => Updated
  <1>1. orders \in [OrderId -> OrderRow \cup {NULL}]
    BY DEF TablesTypeOK
  <1>2. UNCHANGED orders => Updated
    BY <1>1 DEF Updated, Exists
  <1>3. Delete(i) /\ "delete" \in CliOps => Updated
    BY <1>1 DEF Updated, Exists, Delete
  <1>4. ASSUME Exists(i), NEW row, row # NULL,
               orders' = [orders EXCEPT ![i] = row],
               row.owner = orders[i].owner, row.rest = orders[i].rest,
               row.total = orders[i].total, row.items = orders[i].items
        PROVE  Updated
    BY <1>1, <1>4 DEF Updated, Exists
  <1>5. Exists(i) => orders[i] \in OrderRow
    BY <1>1 DEF Exists
  <1>6. ASSUME NEW s \in Status, SetStatus(i, s) PROVE Updated
    <2>1. CASE ~Exists(i)
      BY <1>2, <1>6, <2>1 DEF SetStatus
    <2>2. CASE Exists(i)
      <3> DEFINE row == [orders[i] EXCEPT !.status = s]
      <3>1. /\ row \in OrderRow /\ row.owner = orders[i].owner
            /\ row.rest = orders[i].rest /\ row.total = orders[i].total
            /\ row.items = orders[i].items
        BY <1>5, <2>2 DEF OrderRow
      <3>2. orders' = [orders EXCEPT ![i] = row]
        BY <1>6, <2>2 DEF SetStatus
      <3> HIDE DEF row
      <3>3. QED
        BY <1>4, <2>2, <3>1, <3>2, RowAssumption
    <2>3. QED
      BY <2>1, <2>2
  <1>7. ASSUME NEW r \in 1..5, SetRating(i, r) PROVE Updated
    <2>1. CASE ~Exists(i)
      BY <1>2, <1>7, <2>1 DEF SetRating
    <2>2. CASE Exists(i)
      <3> DEFINE row == [orders[i] EXCEPT !.rating = r]
      <3>1. /\ row \in OrderRow /\ row.owner = orders[i].owner
            /\ row.rest = orders[i].rest /\ row.total = orders[i].total
            /\ row.items = orders[i].items
        BY <1>5, <2>2 DEF OrderRow, StoredRating
      <3>2. orders' = [orders EXCEPT ![i] = row]
        BY <1>7, <2>2 DEF SetRating
      <3> HIDE DEF row
      <3>3. QED
        BY <1>4, <2>2, <3>1, <3>2, RowAssumption
    <2>3. QED
      BY <2>1, <2>2
  <1>8. QED
    BY <1>2, <1>3, <1>6, <1>7

\* Such a step is stable.
LEMMA UpdatedStable ==
  ASSUME IInv, IdsFresh, Updated, SameTxn, nextId' = nextId,
         txn # NULL => txn.id \in OrderId \cup {NULL}
  PROVE  Stable /\ IdsFresh'
  <1>1. ASSUME NEW i \in OrderId, Settled(i) PROVE Settled(i)'
    <2>1. i # NULL
      BY TablesAssumption DEF OrderId
    <2>2. QED
      BY <1>1, <2>1 DEF Settled, SameTxn
  <1>2. Stable
    BY <1>1 DEF Stable, Updated
  <1>3. IdsFresh'
    BY DEF IdsFresh, Updated, SameTxn, Exists
  <1>4. QED
    BY <1>2, <1>3

\* The types that the rest needs.
LEMMA IInvTypes ==
  ASSUME IInv
  PROVE  /\ TablesTypeOK /\ ServiceTypeOK /\ CliTypeOK
         /\ orders \in [OrderId -> OrderRow \cup {NULL}]
         /\ nextId \in Int /\ MaxOrder \in Int
         /\ txn # NULL => txn.id \in OrderId \cup {NULL}
         /\ OrderId \subseteq Int /\ NULL \notin OrderId
  BY TablesAssumption
     DEF IInv, TypeOK, TablesTypeOK, ServiceTypeOK, Transaction, OrderId

\* A row put under an id that no order has and that no insert will use again.
LEMMA InsertStable ==
  ASSUME IInv, IdsFresh, NEW j \in OrderId, NEW row \in OrderRow,
         orders' = [orders EXCEPT ![j] = row], ~Exists(j),
         nextId' \in Int, nextId <= nextId', j < nextId',
         ~Settled(j),
         \/ txn' = NULL
         \/ UNCHANGED txn /\ txn.id # j
  PROVE  Stable /\ IdsFresh'
  <1>1. /\ orders \in [OrderId -> OrderRow \cup {NULL}] /\ nextId \in Int
        /\ OrderId \subseteq Int
    BY IInvTypes
  <1>2. orders'[j] = row /\ \A i \in OrderId \ {j} : orders'[i] = orders[i]
    BY <1>1
  <1>3. ASSUME NEW i \in OrderId, Settled(i) PROVE Settled(i)'
    BY <1>1, <1>3 DEF Settled
  <1>4. Stable
    BY <1>2, <1>3, RowAssumption DEF Stable, Exists
  <1>5. ASSUME NEW i \in OrderId, Exists(i)' PROVE i < nextId'
    BY <1>1, <1>2, <1>5 DEF IdsFresh, Exists
  <1>6. ASSUME txn' # NULL, txn'.id # NULL PROVE orders'[txn'.id] = NULL
    <2>1. txn' = txn /\ txn.id # j /\ txn.id \in OrderId
      BY <1>6, IInvTypes
    <2>2. QED
      BY <1>2, <1>6, <2>1 DEF IdsFresh, Exists
  <1>7. QED
    BY <1>4, <1>5, <1>6 DEF IdsFresh, Exists

\* INSERT INTO orders in a transaction: the id is new.
LEMMA InsertHeaderStable ==
  ASSUME IInv, IdsFresh, NEW w \in Worker, InsertHeader(w)
  PROVE  Stable /\ IdsFresh'
  <1>1. UNCHANGED orders /\ TablesTypeOK
    BY IInvTypes DEF InsertHeader
  <1>2. CASE Abort(w) /\ nextId' = nextId
    <2>1. SameTxn
      BY <1>2 DEF Abort, SameTxn
    <2>2. Updated
      BY <1>1 DEF Updated, Exists
    <2>3. QED
      BY <1>2, <2>1, <2>2, IInvTypes, UpdatedStable
  <1>3. CASE /\ CanInsert(Total(loc[w].cart))
             /\ txn' = [id |-> nextId,
                        row |-> Header(req[w].user, req[w].rest, "Pending",
                                       Total(loc[w].cart))]
             /\ nextId' = nextId + 1
    <2>1. /\ nextId \in OrderId /\ nextId \in Int /\ OrderId \subseteq Int
          /\ txn'.id = nextId
      BY <1>1, <1>3, IInvTypes DEF CanInsert, TablesTypeOK, OrderId
    <2>2. ASSUME NEW i \in OrderId, Settled(i) PROVE Settled(i)'
      BY <1>3, <2>1, <2>2 DEF Settled
    <2>3. Stable
      BY <1>1, <2>2 DEF Stable, Exists
    <2>4. ~Exists(nextId)
      BY <2>1 DEF IdsFresh
    <2>5. ASSUME NEW i \in OrderId, Exists(i)' PROVE i < nextId'
      <3>1. i < nextId
        BY <1>1, <2>5 DEF IdsFresh, Exists
      <3>2. QED
        BY <1>3, <2>1, <3>1
    <2>6. orders'[txn'.id] = NULL
      BY <1>1, <2>1, <2>4 DEF Exists
    <2>7. QED
      BY <2>3, <2>5, <2>6 DEF IdsFresh, Exists
  <1>4. QED
    BY <1>2, <1>3 DEF InsertHeader

\* A COMMIT, also one that the process takes for a failure.
LEMMA CommitStable ==
  ASSUME IInv, IdsFresh, NEW w \in Worker, Commit(w)
  PROVE  Stable /\ IdsFresh'
  <1>1. /\ pc[w] = "commit" /\ InTransaction(w) /\ nextId' = nextId
        /\ txn' = NULL
    BY DEF Commit, InTransaction, Abort
  <1>2. CASE UNCHANGED orders
    <2>1. Updated /\ SameTxn
      BY <1>1, <1>2 DEF Updated, Exists, SameTxn
    <2>2. QED
      BY <1>1, <2>1, IInvTypes, UpdatedStable
  <1>3. CASE conn = "up" /\ orders' = [orders EXCEPT ![txn.id] = txn.row]
    <2>1. txn # NULL
      BY <1>1, <1>3, InTxn
    <2>2. txn.id \in OrderId /\ txn.row \in OrderRow
      BY <1>1, <2>1, CommitRow
    <2>3. txn.id < nextId /\ ~Exists(txn.id) /\ ~Settled(txn.id)
      BY <2>1, <2>2, IInvTypes DEF IInv, TxnInv, IdsFresh, Settled
    <2>4. nextId' \in Int /\ nextId <= nextId' /\ txn.id < nextId'
      BY <1>1, <2>3, IInvTypes
    <2>5. QED
      BY <1>1, <1>3, <2>2, <2>3, <2>4, InsertStable
  <1>4. QED
    BY <1>2, <1>3 DEF Commit, Succeeds

\* The header of a console order.
LEMMA CliPlaceOrderStable ==
  ASSUME IInv, IdsFresh, NEW u \in User, NEW d \in CliDrafts,
         CliPlaceOrder(u, d), UNCHANGED service
  PROVE  Stable /\ IdsFresh'
  <1> DEFINE row == Header(u, NULL, "Confirmed", d.total)
  <1>1. UNCHANGED txn
    BY DEF service, session
  <1>2. CASE UNCHANGED <<orders, nextId>>
    BY <1>1, <1>2, IInvTypes, UpdatedStable DEF Updated, Exists, SameTxn
  <1>3. CASE /\ CanInsert(d.total)
             /\ orders' = [orders EXCEPT ![nextId] = row]
             /\ nextId' = nextId + 1
    <2>1. nextId \in OrderId /\ nextId \in Int
      BY <1>3, IInvTypes DEF CanInsert, TablesTypeOK, OrderId
    <2>2. row \in OrderRow
      <3>1. "Confirmed" \in Status /\ 0 \in StoredRating /\ << >> \in Seq(Line)
        BY DEF Status, StoredRating
      <3>2. d.total \in 0..MaxTotal
        BY CliAssumption
      <3>3. QED
        BY <3>1, <3>2 DEF Header, OrderRow
    <2> HIDE DEF row
    <2>3. ~Exists(nextId) /\ ~Settled(nextId)
      BY <2>1 DEF IdsFresh, Settled
    <2>4. txn = NULL \/ txn.id # nextId
      <3>1. txn # NULL /\ txn.id # NULL => txn.id < nextId
        BY DEF IInv, TxnInv
      <3>2. QED
        BY <2>1, <3>1, IInvTypes
    <2>5. nextId' \in Int /\ nextId <= nextId' /\ nextId < nextId'
      BY <1>3, <2>1
    <2>6. QED
      BY <1>1, <1>3, <2>1, <2>2, <2>3, <2>4, <2>5, InsertStable
  <1>4. QED
    BY <1>2, <1>3 DEF CliPlaceOrder

\* A line of a console order: the order is none of the API's.
LEMMA CliAddItemStable ==
  ASSUME IInv, IdsFresh, CliAddItem, UNCHANGED service
  PROVE  Stable /\ IdsFresh'
  <1>1. UNCHANGED <<txn, nextId>>
    BY DEF service, session, CliAddItem
  <1>2. CASE UNCHANGED orders
    BY <1>1, <1>2, IInvTypes, UpdatedStable DEF Updated, Exists, SameTxn
  <1>3. CASE AppendLine(cid, Head(clines))
    <2> DEFINE row == [orders[cid] EXCEPT !.items = Append(@, Head(clines))]
    <2>1. /\ cid \in OrderId /\ Exists(cid) /\ ~FromRest(orders[cid])
          /\ orders' = [orders EXCEPT ![cid] = row]
      BY <1>3 DEF CliAddItem, IInv, ConsoleInv, AppendLine
    <2>2. orders \in [OrderId -> OrderRow \cup {NULL}]
      BY IInvTypes
    <2>3. row \in OrderRow /\ row.owner = orders[cid].owner
      <3>1. orders[cid] \in OrderRow
        BY <2>1, <2>2 DEF Exists
      <3>2. clines # << >> /\ clines \in Seq(Line)
        BY IInvTypes DEF CliAddItem, CliTypeOK
      <3>3. Append(orders[cid].items, Head(clines)) \in Seq(Line)
        BY <3>1, <3>2, AppendProperties, HeadTailProperties DEF OrderRow
      <3>4. QED
        BY <3>1, <3>3 DEF OrderRow
    <2> HIDE DEF row
    <2>4. orders'[cid] = row /\ \A i \in OrderId \ {cid} : orders'[i] = orders[i]
      BY <2>1, <2>2
    <2>5. \A i \in OrderId : Exists(i)' <=> Exists(i)
      BY <2>1, <2>3, <2>4, RowAssumption DEF Exists
    <2>6. \A i \in OrderId : Settled(i)' <=> Settled(i)
      BY <1>1 DEF Settled
    <2>7. Stable
      BY <2>1, <2>3, <2>4, <2>5, <2>6 DEF Stable
    <2>8. IdsFresh'
      BY <1>1, <2>5, IInvTypes DEF IdsFresh
    <2>9. QED
      BY <2>7, <2>8
  <1>4. QED
    BY <1>2, <1>3 DEF CliAddItem

\* A step that changes no order and hands out no id.
LEMMA QuietStable ==
  ASSUME IInv, IdsFresh, UNCHANGED <<orders, nextId>>, SameTxn
  PROVE  Stable /\ IdsFresh'
  BY IInvTypes, UpdatedStable DEF Updated, Exists

\* START TRANSACTION finds no transaction to commit.
LEMMA BeginStable ==
  ASSUME IInv, IdsFresh, NEW w \in Worker, Begin(w)
  PROVE  Stable /\ IdsFresh'
  <1>1. txn = NULL
    <2>1. lock \in {NULL, w} /\ ~InTransaction(w)
      BY DEF Begin, MayEnter, InTransaction
    <2>2. QED
      BY <2>1, OthersOut, ServiceAssumption DEF IInv, TransactionGuarded
  <1>2. UNCHANGED <<orders, nextId>>
    BY <1>1 DEF Begin
  <1>3. SameTxn
    BY <1>1 DEF Begin, SameTxn
  <1>4. QED
    BY <1>2, <1>3, QuietStable

\* A line goes into the transaction, not into the tables.
LEMMA InsertItemStable ==
  ASSUME IInv, IdsFresh, NEW w \in Worker, InsertItem(w)
  PROVE  Stable /\ IdsFresh'
  <1>1. UNCHANGED <<orders, nextId>> /\ InTransaction(w)
    BY DEF InsertItem, tables, InTransaction
  <1>2. CASE Abort(w)
    BY <1>1, <1>2, QuietStable DEF Abort, SameTxn
  <1>3. CASE /\ conn = "up"
             /\ txn' = [txn EXCEPT !.row.items =
                           Append(@, loc[w].cart[Len(txn.row.items) + 1])]
    <2>1. txn # NULL /\ txn \in Transaction
      BY <1>1, <1>3, InTxn, IInvTypes DEF ServiceTypeOK
    <2>2. txn'.id = txn.id
      BY <1>3, <2>1 DEF Transaction
    <2>3. QED
      BY <1>1, <2>1, <2>2, QuietStable DEF SameTxn
  <1>4. QED
    BY <1>2, <1>3 DEF InsertItem, Succeeds

\* The UPDATE of updateStatus or rateOrder.
LEMMA WriteStable ==
  ASSUME IInv, IdsFresh, NEW w \in Worker, Write(w)
  PROVE  Stable /\ IdsFresh'
  <1>1. pc[w] = "write" /\ nextId' = nextId /\ UNCHANGED txn
    BY DEF Write, session
  <1>2. /\ loc[w].cur \in OrderId
        /\ req[w].op = "update" => req[w].status \in Status
        /\ req[w].op = "rate" => req[w].rating \in 1..5
    BY <1>1, AtWork DEF HandlerOK
  <1>3. Updated
    <2>1. CASE UNCHANGED orders
      BY <1>2, <2>1, IInvTypes, StatementsUpdate
    <2>2. CASE /\ req[w].op = "update"
               /\ SetStatus(loc[w].cur, stringToOrderStatus(req[w].status))
      <3>1. stringToOrderStatus(req[w].status) \in Status
        BY <1>2, <2>2 DEF stringToOrderStatus
      <3>2. QED
        BY <1>2, <2>2, <3>1, IInvTypes, StatementsUpdate
    <2>3. CASE req[w].op = "rate" /\ SetRating(loc[w].cur, req[w].rating)
      BY <1>2, <2>3, IInvTypes, StatementsUpdate
    <2>4. QED
      BY <2>1, <2>2, <2>3 DEF Write
  <1>4. SameTxn
    BY <1>1 DEF SameTxn
  <1>5. QED
    BY <1>1, <1>3, <1>4, IInvTypes, UpdatedStable

\* The steps of a worker.
LEMMA WorkerStable ==
  ASSUME IInv, IdsFresh, NEW w \in Worker, WorkerStep(w)
  PROVE  Stable /\ IdsFresh'
  <1>1. CASE UNCHANGED <<orders, nextId, txn>>
    BY <1>1, QuietStable DEF SameTxn
  <1>2. CASE Start(w) \/ FindRestaurant(w) \/ LoadMenu(w)
    BY <1>1, <1>2 DEF Start, FindRestaurant, LoadMenu, tables, session
  <1>3. CASE FindHeader(w) \/ FindNothing(w) \/ ListIds(w)
    BY <1>1, <1>3 DEF FindHeader, FindNothing, ListIds, tables
  <1>4. CASE \/ GetOrder(w) \/ CheckUpdate(w) \/ CheckRate(w)
             \/ Reread(w) \/ ListOne(w)
    BY <1>1, <1>4 DEF GetOrder, CheckUpdate, CheckRate, Reread, ListOne,
                      FindReturns, tables
  <1>5. QED
    BY <1>2, <1>3, <1>4, BeginStable, InsertHeaderStable, InsertItemStable,
       CommitStable, WriteStable DEF WorkerStep

\* The steps of the console.
LEMMA CliStable ==
  ASSUME IInv, IdsFresh, CliNext, UNCHANGED service
  PROVE  Stable /\ IdsFresh'
  <1>1. UNCHANGED txn /\ TablesTypeOK
    BY IInvTypes DEF service, session
  <1>2. CASE UNCHANGED <<orders, nextId>>
    BY <1>1, <1>2, QuietStable DEF SameTxn
  <1>3. CASE Updated /\ nextId' = nextId
    BY <1>1, <1>3, IInvTypes, UpdatedStable DEF SameTxn
  <1>4. ASSUME NEW i \in OrderId, NEW s \in CliStatus, CliModifyOrder(i, s)
        PROVE  Stable /\ IdsFresh'
    BY <1>1, <1>3, <1>4, CliAssumption, StatementsUpdate DEF CliModifyOrder
  <1>5. ASSUME NEW i \in OrderId, NEW r \in CliRating, CliRateOrder(i, r)
        PROVE  Stable /\ IdsFresh'
    BY <1>1, <1>3, <1>5, CliAssumption, StatementsUpdate DEF CliRateOrder
  <1>6. ASSUME NEW i \in OrderId, CliDeleteOrder(i)
        PROVE  Stable /\ IdsFresh'
    BY <1>1, <1>3, <1>6, StatementsUpdate DEF CliDeleteOrder
  <1>7. CASE \/ \E op \in {"modify", "rate"} : CliList(op)
             \/ CliItemsDone \/ CliKill
             \/ \E f \in Food, p \in Price : CliSetPrice(f, p)
             \/ \E f \in Food : CliDeleteFood(f)
             \/ \E r \in Restaurant : CliDeleteRestaurant(r)
    BY <1>2, <1>7 DEF CliList, CliItemsDone, CliKill, CliSetPrice,
                      CliDeleteFood, CliDeleteRestaurant, tables
  <1>8. QED
    BY <1>4, <1>5, <1>6, <1>7, CliPlaceOrderStable, CliAddItemStable
       DEF CliNext

\* Every step, of whatever process, is stable, and no id is handed out twice.
LEMMA StepStable ==
  ASSUME IInv, IdsFresh, [Next]_vars
  PROVE  Stable /\ IdsFresh'
  <1>1. CASE UNCHANGED <<orders, nextId>> /\ SameTxn
    BY <1>1, QuietStable
  <1>2. CASE UNCHANGED vars
    BY <1>1, <1>2 DEF vars, tables, service, session, SameTxn
  <1>3. ASSUME NEW w \in Worker, NEW r \in Requests, Accept(w, r)
        PROVE  Stable /\ IdsFresh'
    BY <1>1, <1>3 DEF Accept, tables, session, SameTxn
  <1>4. CASE LoseConnection \/ Restart
    BY <1>1, <1>4 DEF LoseConnection, Restart, tables, SameTxn
  <1>5. QED
    BY <1>2, <1>3, <1>4, WorkerStable, CliStable DEF Next, ServiceNext
-----------------------------------------------------------------------------
(***************************************************************************)
(* What the handlers know.                                                 *)
(***************************************************************************)
\* Nobody else's step takes away what a handler knows.
LEMMA KnowsKept ==
  ASSUME Stable, NEW p, NEW r, NEW l, NEW a, KnowsOK(p, r, l, a)
  PROVE  KnowsOK(p, r, l, a)'
  <1>1. /\ \A i, u : Owned(i, u) => Owned(i, u)'
        /\ \A i, q : Made(i, q) => Made(i, q)'
    BY KnowledgeKept
  <1>2. QED
    BY <1>1 DEF KnowsOK

\* Only worker w moves, and the others keep their answers.
OnlyAnswer(w) == OnlyWorker(w) /\ \A v \in Worker \ {w} : resp'[v] = resp[v]

\* A step of worker w keeps the invariant if w knows what it must.
LEMMA AnswerStep ==
  ASSUME AInv, NEW w \in Worker, IInv', IdsFresh', Stable, OnlyAnswer(w),
         Knows(w)', TxnOwner'
  PROVE  AInv'
  <1>1. ASSUME NEW v \in Worker \ {w} PROVE Knows(v)'
    <2>1. KnowsOK(pc[v], req[v], loc[v], resp[v])
      BY DEF AInv, Knows
    <2>2. /\ pc'[v] = pc[v] /\ req'[v] = req[v] /\ loc'[v] = loc[v]
          /\ resp'[v] = resp[v]
      BY DEF OnlyAnswer, OnlyWorker
    <2>3. \A p, r, l, a : KnowsOK(p, r, l, a) => KnowsOK(p, r, l, a)'
      BY KnowsKept
    <2>4. QED
      BY <2>1, <2>2, <2>3 DEF Knows
  <1>2. QED
    BY <1>1 DEF AInv

\* A handler goes on to a statement at which it must know what it knows now.
LEMMA GotoKnows ==
  ASSUME AInv, NEW w \in Worker, Stable,
         NEW label \in PC, NEW l \in Local, Goto(w, label, l),
         pc[w] # "idle", KnowsOK(label, req[w], l, NULL)
  PROVE  OnlyAnswer(w) /\ Knows(w)'
  <1>1. ServiceTypeOK /\ resp[w] = NULL
    BY IInvTypes DEF AInv, Knows, KnowsOK
  <1>2. /\ OnlyWorker(w)
        /\ pc'[w] = label /\ req'[w] = req[w] /\ loc'[w] = l
    BY <1>1, GotoFacts
  <1>3. resp' = resp
    BY DEF Goto
  <1>4. \A p, r, q, a : KnowsOK(p, r, q, a) => KnowsOK(p, r, q, a)'
    BY KnowsKept
  <1>5. QED
    BY <1>1, <1>2, <1>3, <1>4 DEF OnlyAnswer, Knows

\* A handler answers.
LEMMA ReplyKnows ==
  ASSUME AInv, NEW w \in Worker, Stable,
         NEW code \in ErrorCode \cup {"OK"}, NEW os \in SUBSET OrderDto,
         Reply(w, code, os),
         ~req[w].isAdmin => \A d \in os : d.owner = req[w].user,
         code = "OK" /\ req[w].op = "create" =>
           \E d \in os : os = {d} /\ Made(d.id, req[w])
  PROVE  OnlyAnswer(w) /\ Knows(w)'
  <1> DEFINE a == [code |-> code, orders |-> os]
  <1>1. ServiceTypeOK
    BY IInvTypes DEF AInv
  <1>2. /\ OnlyWorker(w)
        /\ pc'[w] = "idle" /\ req'[w] = req[w] /\ loc'[w] = Fresh
    BY <1>1, ReplyFacts
  <1>3. resp'[w] = a /\ \A v \in Worker \ {w} : resp'[v] = resp[v]
    BY <1>1 DEF Reply, ServiceTypeOK
  <1>4. KnowsOK("idle", req[w], Fresh, a)
    BY DEF KnowsOK
  <1>5. \A p, r, q, b : KnowsOK(p, r, q, b) => KnowsOK(p, r, q, b)'
    BY KnowsKept
  <1> HIDE DEF a
  <1>6. QED
    BY <1>2, <1>3, <1>4, <1>5 DEF OnlyAnswer, Knows

\* A refusal shows nothing.
LEMMA RefuseKnows ==
  ASSUME AInv, NEW w \in Worker, Stable, NEW code \in ErrorCode,
         Refuse(w, code)
  PROVE  OnlyAnswer(w) /\ Knows(w)'
  <1>1. code # "OK" /\ Reply(w, code, {})
    BY DEF ErrorCode, Refuse
  <1>2. QED
    BY <1>1, ReplyKnows

\* The owner of the order in the transaction, when no other transaction starts.
LEMMA TxnOwnerKept ==
  ASSUME TxnOwner, NEW w \in Worker, OnlyAnswer(w), txn' = txn \/ txn' = NULL,
         pc'[w] \notin {"items", "commit"}
  PROVE  TxnOwner'
  BY DEF TxnOwner, OnlyAnswer, OnlyWorker

\* ... and when this worker's transaction goes on.
LEMMA TxnOwnerOwn ==
  ASSUME IInv, NEW w \in Worker, OnlyAnswer(w), lock \in {NULL, w},
         pc'[w] \in {"items", "commit"} /\ txn' # NULL =>
           txn'.row.owner = req'[w].user
  PROVE  TxnOwner'
  <1>1. \A v \in Worker \ {w} : ~InTransaction(v)
    BY OthersOut
  <1>2. QED
    BY <1>1 DEF TxnOwner, OnlyAnswer, OnlyWorker, InTransaction

\* A reply or a move outside the transaction.
LEMMA QuietAnswer ==
  ASSUME AInv, NEW w \in Worker, IInv', IdsFresh', Stable, OnlyAnswer(w),
         Knows(w)', txn' = txn \/ txn' = NULL,
         pc'[w] \notin {"items", "commit"}
  PROVE  AInv'
  BY AnswerStep, TxnOwnerKept DEF AInv

\* A reply that leaves the tables alone keeps what the other workers know.
LEMMA QuietReplyKnows ==
  ASSUME AInv, NEW w \in Worker, IInv', IdsFresh', Stable,
         NEW code \in ErrorCode \cup {"OK"}, NEW os \in SUBSET OrderDto,
         Reply(w, code, os), txn' = txn \/ txn' = NULL,
         ~req[w].isAdmin => \A d \in os : d.owner = req[w].user,
         code = "OK" /\ req[w].op = "create" =>
           \E d \in os : os = {d} /\ Made(d.id, req[w])
  PROVE  AInv'
  <1>1. OnlyAnswer(w) /\ Knows(w)'
    BY ReplyKnows
  <1>2. pc'[w] = "idle"
    BY ReplyFacts, IInvTypes DEF AInv
  <1>3. QED
    BY <1>1, <1>2, QuietAnswer

\* The same for a refusal, which is such a reply.
LEMMA QuietRefuseKnows ==
  ASSUME AInv, NEW w \in Worker, IInv', IdsFresh', Stable,
         NEW code \in ErrorCode, Refuse(w, code), txn' = txn \/ txn' = NULL
  PROVE  AInv'
  <1>1. code # "OK" /\ Reply(w, code, {})
    BY DEF ErrorCode, Refuse
  <1>2. QED
    BY <1>1, QuietReplyKnows

\* The same for a step of a worker to its next label.
LEMMA QuietGotoKnows ==
  ASSUME AInv, NEW w \in Worker, IInv', IdsFresh', Stable,
         NEW label \in PC \ {"items", "commit"}, NEW l \in Local,
         Goto(w, label, l), txn' = txn,
         pc[w] # "idle", KnowsOK(label, req[w], l, NULL)
  PROVE  AInv'
  <1>1. OnlyAnswer(w) /\ Knows(w)'
    BY GotoKnows
  <1>2. pc'[w] = label
    BY GotoFacts, IInvTypes DEF AInv
  <1>3. QED
    BY <1>1, <1>2, QuietAnswer

\* What worker w knows now, with the types of what it knows it of.
LEMMA KnowsNow ==
  ASSUME AInv, NEW w \in Worker, pc[w] # "idle"
  PROVE  /\ KnowsOK(pc[w], req[w], loc[w], NULL)
         /\ HandlerOK(pc[w], req[w], loc[w])
         /\ req[w] \in Request /\ loc[w] \in Local
  BY AtWork DEF AInv, Knows, KnowsOK

\* accept(): the request is new, nothing is known about it yet.
LEMMA AcceptAnswers ==
  ASSUME AInv, NEW w \in Worker, NEW r \in Requests, Accept(w, r),
         IInv', IdsFresh', Stable
  PROVE  AInv'
  <1>1. /\ pc \in [Worker -> PC] /\ req \in [Worker -> Requests \cup {NULL}]
        /\ loc \in [Worker -> Local]
        /\ resp \in [Worker -> Response \cup {NULL}] /\ "start" \in PC
    BY IInvTypes DEF AInv, ServiceTypeOK, PC
  <1>2. /\ OnlyAnswer(w) /\ pc'[w] = "start" /\ resp'[w] = NULL
        /\ txn' = txn
    BY <1>1 DEF Accept, OnlyAnswer, OnlyWorker, session
  <1>3. Knows(w)'
    BY <1>2 DEF Knows, KnowsOK
  <1>4. QED
    BY <1>2, <1>3, QuietAnswer

\* The handler has parsed the request and chosen its first step.
LEMMA StartAnswers ==
  ASSUME AInv, NEW w \in Worker, Start(w), IInv', IdsFresh', Stable
  PROVE  AInv'
  <1> DEFINE r == req[w]
  <1>1. pc[w] = "start" /\ txn' = txn
    BY DEF Start, session
  <1>2. r \in Request /\ Fresh \in Local
    BY <1>1, KnowsNow, FreshType
  <1>3. ASSUME NEW code \in ErrorCode, Refuse(w, code) PROVE AInv'
    BY <1>1, <1>3, QuietRefuseKnows
  <1>4. CASE Goto(w, "restaurant", Fresh)
    BY <1>1, <1>2, <1>4, QuietGotoKnows DEF PC, KnowsOK
  <1>5. CASE r.op = "list" /\ Goto(w, "list", Fresh)
    BY <1>1, <1>2, <1>5, QuietGotoKnows DEF PC, KnowsOK, Fresh
  <1>6. CASE /\ r.op \in {"get", "rate"} \/ (r.op = "update" /\ r.isAdmin)
             /\ Goto(w, "find", [Fresh EXCEPT !.cur = r.id])
    <2> DEFINE l == [Fresh EXCEPT !.cur = r.id]
    <2>1. l \in Local /\ l.phase = "load"
      BY <1>2, LocalUpdate DEF Request, Fresh
    <2> HIDE DEF l
    <2>2. KnowsOK("find", r, l, NULL)
      BY <1>6, <2>1 DEF KnowsOK
    <2>3. QED
      BY <1>1, <1>6, <2>1, <2>2, QuietGotoKnows DEF PC, l
  <1>7. ShapeError(r) # "none" => ShapeError(r) \in ErrorCode
    BY DEF ShapeError, ErrorCode
  <1>8. QED
    BY <1>3, <1>4, <1>5, <1>6, <1>7 DEF Start, ErrorCode

\* createOrder looks the restaurant up.
LEMMA FindRestaurantAnswers ==
  ASSUME AInv, NEW w \in Worker, FindRestaurant(w), IInv', IdsFresh', Stable
  PROVE  AInv'
  <1>1. pc[w] = "restaurant" /\ txn' = txn
    BY DEF FindRestaurant, session
  <1>2. CASE Refuse(w, "RESTAURANT_NOT_FOUND")
    BY <1>1, <1>2, QuietRefuseKnows DEF ErrorCode
  <1>3. CASE Goto(w, "menu", Fresh)
    BY <1>1, <1>3, QuietGotoKnows, FreshType DEF PC, KnowsOK
  <1>4. QED
    BY <1>2, <1>3 DEF FindRestaurant

\* The priced lines are the lines of the request.
LEMMA LoadMenuAnswers ==
  ASSUME AInv, NEW w \in Worker, LoadMenu(w), IInv', IdsFresh', Stable
  PROVE  AInv'
  <1> DEFINE r == req[w]
             c == Priced(r.lines)
             l == [Fresh EXCEPT !.cart = c]
  <1>1. pc[w] = "menu" /\ txn' = txn
    BY DEF LoadMenu, session
  <1>2. CASE Refuse(w, "MENU_ITEM_MISMATCH")
    BY <1>1, <1>2, QuietRefuseKnows DEF ErrorCode
  <1>3. CASE OnMenu(r.lines, MenuRows(r.rest)) /\ Goto(w, "begin", l)
    <2>1. r \in Request /\ ShapeError(r) = "none" /\ TablesTypeOK
      BY <1>1, KnowsNow, IInvTypes DEF HandlerOK, Creating, AInv
    <2>2. c \in Seq(Line)
      BY <1>3, <2>1, PricedLines
    <2>3. l \in Local /\ l.cart = c
      BY <2>2, FreshType, LocalUpdate DEF Local
    <2>4. CartOf(c, r.lines)
      <3>1. Len(r.lines) \in Nat
        BY <2>1, LenProperties DEF Request
      <3>2. QED
        BY <3>1 DEF CartOf, Priced
    <2> HIDE DEF c, l
    <2>5. KnowsOK("begin", r, l, NULL)
      BY <2>3, <2>4 DEF KnowsOK
    <2>6. QED
      BY <1>1, <1>3, <2>3, <2>5, QuietGotoKnows DEF PC, l
  <1>4. QED
    BY <1>2, <1>3 DEF LoadMenu

\* A statement of the transaction: the handler keeps its priced lines.
LEMMA TxnGotoAnswers ==
  ASSUME AInv, NEW w \in Worker, IInv', IdsFresh', Stable,
         pc[w] \in {"begin", "header", "items"},
         NEW label \in {"header", "items", "commit"}, Goto(w, label, loc[w]),
         lock \in {NULL, w},
         label \in {"items", "commit"} => txn'.row.owner = req[w].user
  PROVE  AInv'
  <1>1. /\ KnowsOK(pc[w], req[w], loc[w], NULL) /\ loc[w] \in Local
        /\ ServiceTypeOK /\ IInv
    BY KnowsNow, IInvTypes DEF AInv
  <1>2. KnowsOK(label, req[w], loc[w], NULL)
    BY <1>1 DEF KnowsOK
  <1>3. label \in PC
    BY DEF PC
  <1>4. OnlyAnswer(w) /\ Knows(w)'
    BY <1>1, <1>2, <1>3, GotoKnows
  <1>5. pc'[w] = label /\ req'[w] = req[w]
    BY <1>1, <1>3, GotoFacts
  <1>6. TxnOwner'
    BY <1>1, <1>4, <1>5, TxnOwnerOwn
  <1>7. QED
    BY <1>4, <1>6, AnswerStep

\* A statement fails: its transaction, if there is one, is rolled back.
LEMMA AbortAnswers ==
  ASSUME AInv, NEW w \in Worker, IInv', IdsFresh', Stable, Abort(w)
  PROVE  AInv'
  BY QuietRefuseKnows DEF Abort, ErrorCode

\* createOrder begins its transaction.
LEMMA BeginAnswers ==
  ASSUME AInv, NEW w \in Worker, Begin(w), IInv', IdsFresh', Stable
  PROVE  AInv'
  <1>1. CASE Refuse(w, "DB_ERROR") /\ txn' = txn
    BY <1>1, QuietRefuseKnows DEF ErrorCode
  <1>2. CASE Goto(w, "header", loc[w])
    BY <1>2, TxnGotoAnswers DEF Begin, MayEnter
  <1>3. QED
    BY <1>1, <1>2 DEF Begin

\* createOrder inserts the header; the transaction holds the new row.
LEMMA InsertHeaderAnswers ==
  ASSUME AInv, NEW w \in Worker, InsertHeader(w), IInv', IdsFresh', Stable
  PROVE  AInv'
  <1>1. pc[w] = "header" /\ lock = w
    BY InTxn DEF InsertHeader, InTransaction, AInv
  <1>2. CASE /\ Goto(w, "items", loc[w])
             /\ txn' = [id |-> nextId,
                        row |-> Header(req[w].user, req[w].rest, "Pending",
                                       Total(loc[w].cart))]
    <2>1. txn'.row.owner = req[w].user
      BY <1>2 DEF Header
    <2>2. QED
      BY <1>1, <1>2, <2>1, TxnGotoAnswers
  <1>3. QED
    BY <1>2, AbortAnswers DEF InsertHeader

\* createOrder inserts the next item under the header it holds.
LEMMA InsertItemAnswers ==
  ASSUME AInv, NEW w \in Worker, InsertItem(w), IInv', IdsFresh', Stable
  PROVE  AInv'
  <1> DEFINE c == loc[w].cart
             old == txn.row.items
             label == IF Len(old) + 1 = Len(c) THEN "commit" ELSE "items"
  <1>1. pc[w] = "items" /\ InTransaction(w) /\ lock = w
    BY InTxn DEF InsertItem, InTransaction, AInv
  <1>2. CASE /\ conn = "up"
             /\ txn' = [txn EXCEPT !.row.items = Append(@, c[Len(old) + 1])]
             /\ Goto(w, label, loc[w])
    <2>1. txn # NULL
      BY <1>1, <1>2, InTxn DEF AInv
    <2>2. txn \in Transaction /\ txn.row \in OrderRow
      BY <1>1, <2>1, IInvTypes DEF AInv, ServiceTypeOK, IInv, TxnInv, TxnOK
    <2>3. txn'.row.owner = txn.row.owner
      BY <1>2, <2>2 DEF Transaction, OrderRow
    <2>4. txn.row.owner = req[w].user
      BY <1>1, <2>1 DEF AInv, TxnOwner
    <2>5. label \in {"header", "items", "commit"}
      OBVIOUS
    <2> HIDE DEF label
    <2>6. QED
      BY <1>1, <1>2, <2>3, <2>4, <2>5, TxnGotoAnswers
  <1>3. QED
    BY <1>2, AbortAnswers DEF InsertItem, Succeeds

\* After the COMMIT the handler knows its order under the id of its INSERT.
LEMMA CommitAnswers ==
  ASSUME AInv, NEW w \in Worker, Commit(w), IInv', IdsFresh', Stable
  PROVE  AInv'
  <1> DEFINE l == [loc[w] EXCEPT !.cur = txn.id, !.phase = "reread"]
             r == req[w]
             i == txn.id
  <1>1. pc[w] = "commit" /\ InTransaction(w) /\ lock = w /\ IInv
    BY InTxn DEF Commit, InTransaction, AInv
  <1>2. CASE /\ conn = "up" /\ txn' = NULL
             /\ orders' = [orders EXCEPT ![i] = txn.row]
             /\ Goto(w, "find", l) /\ nextId' = nextId
    <2>1. txn # NULL
      BY <1>1, <1>2, InTxn
    <2>2. i \in OrderId /\ txn.row \in OrderRow /\ i < nextId
      BY <1>1, <2>1, CommitRow, IInvTypes DEF IInv, TxnInv
    <2>3. /\ KnowsOK(pc[w], r, loc[w], NULL) /\ HandlerOK(pc[w], r, loc[w])
          /\ r \in Request /\ loc[w] \in Local
      BY <1>1, KnowsNow
    <2>4. l \in Local /\ l.cur = i /\ l.phase = "reread"
      BY <2>2, <2>3 DEF Local
    <2>5. /\ OnlyWorker(w)
          /\ pc'[w] = "find" /\ req'[w] = r /\ loc'[w] = l
      BY <1>2, <2>4, GotoFacts, IInvTypes, <1>1 DEF PC
    <2>6. resp' = resp /\ resp[w] = NULL
      BY <1>1, <1>2 DEF Goto, AInv, Knows, KnowsOK
    <2>7. r.op = "create" /\ r.rest \in Restaurant
      BY <1>1, <2>3 DEF HandlerOK, Creating
    <2>8. Matches(txn.row, r)
      <3>1. TxnOK("commit", r, loc[w].cart, txn)
        BY <1>1 DEF IInv, TxnInv
      <3>2. /\ txn.row.rest = r.rest
            /\ Len(txn.row.items) = Len(loc[w].cart)
            /\ \A k \in 1..Len(txn.row.items) : txn.row.items[k] = loc[w].cart[k]
        BY <2>1, <3>1 DEF TxnOK
      <3>3. CartOf(loc[w].cart, r.lines)
        BY <1>1, <2>3 DEF KnowsOK
      <3>4. txn.row.owner = r.user
        BY <1>1, <2>1 DEF AInv, TxnOwner
      <3>5. FromRest(txn.row)
        BY <2>7, <3>2, TablesAssumption DEF FromRest
      <3>6. QED
        BY <3>2, <3>3, <3>4, <3>5 DEF Matches, CartOf
    <2>9. orders'[i] = txn.row /\ txn.row # NULL
      BY <1>1, <1>2, <2>2, IInvTypes, RowAssumption
    <2>10. \A j : j = i => Made(j, r)' /\ Owned(j, r.user)'
      <3>1. \A j : j = i => Settled(j)'
        BY <1>2, <2>2 DEF Settled
      <3>2. req'[w] = r
        BY <2>5
      <3>3. QED
        BY <2>8, <2>9, <3>1, <3>2 DEF Made, Owned, Exists, Matches
    <2> HIDE DEF l
    <2>11. Knows(w)'
      BY <2>4, <2>5, <2>6, <2>7, <2>10 DEF Knows, KnowsOK
    <2>12. OnlyAnswer(w)
      BY <2>5, <2>6 DEF OnlyAnswer
    <2>13. QED
      BY <1>2, <2>5, <2>11, <2>12, QuietAnswer
  <1>3. QED
    BY <1>2, AbortAnswers DEF Commit, Succeeds

\* A header read now tells who owns the order, for good.
LEMMA FindHeaderAnswers ==
  ASSUME AInv, NEW w \in Worker, FindHeader(w), IInv', IdsFresh', Stable
  PROVE  AInv'
  <1> DEFINE i == loc[w].cur
             h == HeaderOf(i)
             l == [loc[w] EXCEPT !.half = h]
             r == req[w]
  <1>1. pc[w] = "find" /\ txn' = txn /\ Exists(i) /\ Goto(w, "lines", l)
    BY DEF FindHeader
  <1>2. /\ KnowsOK("find", r, loc[w], NULL) /\ HandlerOK("find", r, loc[w])
        /\ loc[w] \in Local
    BY <1>1, KnowsNow
  <1>3. i \in OrderId /\ h \in OrderDto
    BY <1>1, <1>2, HeaderType, IInvTypes DEF HandlerOK, AInv
  <1>4. h.id = i /\ h.owner = orders[i].owner
    BY DEF HeaderOf
  <1>5. Owned(i, h.owner)
    BY <1>1, <1>3, <1>4, ExistsSettled DEF Owned, AInv
  <1> HIDE DEF h
  <1>6. /\ l \in Local /\ l.cur = i /\ l.half = h /\ l.phase = loc[w].phase
        /\ l.dto = loc[w].dto /\ l.todo = loc[w].todo /\ l.found = loc[w].found
    BY <1>2, <1>3 DEF Local
  <1>7. ASSUME l.phase # "load", ~r.isAdmin PROVE h.owner = r.user
    <2>1. l.phase \in {"reread", "list"}
      BY <1>6, <1>7 DEF Local
    <2>2. Owned(i, r.user)
      BY <1>2, <1>6, <1>7, <2>1 DEF KnowsOK
    <2>3. QED
      BY <1>1, <1>4, <2>2 DEF Owned
  <1> HIDE DEF l
  <1>8. KnowsOK("lines", r, l, NULL)
    BY <1>2, <1>5, <1>4, <1>6, <1>7 DEF KnowsOK
  <1>9. QED
    BY <1>1, <1>6, <1>8, QuietGotoKnows DEF PC

\* A list goes on to another order of its caller's, or answers with them.
LEMMA ListNextAnswers ==
  ASSUME AInv, NEW w \in Worker, NEW os \in SUBSET OrderDto, ListNext(w, os),
         IInv', IdsFresh', Stable, txn' = txn,
         pc[w] \in {"find", "lines"}, loc[w].phase = "list",
         ~req[w].isAdmin => \A d \in os : d.owner = req[w].user
  PROVE  AInv'
  <1> DEFINE r == req[w]
  <1>1. KnowsOK(pc[w], r, loc[w], NULL) /\ loc[w] \in Local
    BY KnowsNow
  <1>2. r.op = "list"
    BY <1>1 DEF KnowsOK
  <1>3. CASE Reply(w, "OK", os)
    BY <1>2, <1>3, QuietReplyKnows
  <1>4. ASSUME NEW i \in loc[w].todo,
               Goto(w, "find", [loc[w] EXCEPT !.cur = i, !.todo = @ \ {i},
                                              !.found = os, !.half = NULL])
        PROVE  AInv'
    <2> DEFINE l == [loc[w] EXCEPT !.cur = i, !.todo = @ \ {i},
                                   !.found = os, !.half = NULL]
    <2>1. /\ l \in Local /\ l.phase = "list" /\ l.cur = i
          /\ l.todo = loc[w].todo \ {i} /\ l.found = os
      BY <1>1 DEF Local
    <2> HIDE DEF l
    <2>2. KnowsOK("find", r, l, NULL)
      BY <1>1, <1>2, <2>1 DEF KnowsOK
    <2>3. QED
      BY <1>4, <2>1, <2>2, QuietGotoKnows DEF PC, l
  <1>5. QED
    BY <1>3, <1>4 DEF ListNext

\* What a handler answers for an order it does not find again.
LEMMA FindNothingAnswers ==
  ASSUME AInv, NEW w \in Worker, FindNothing(w), IInv', IdsFresh', Stable
  PROVE  AInv'
  <1> DEFINE r == req[w]
             f == Fallback(w)
  <1>1. pc[w] = "find" /\ txn' = txn
    BY DEF FindNothing
  <1>2. /\ KnowsOK("find", r, loc[w], NULL) /\ HandlerOK("find", r, loc[w])
        /\ loc[w] \in Local
    BY <1>1, KnowsNow
  <1>3. CASE Refuse(w, "ORDER_NOT_FOUND")
    BY <1>1, <1>3, QuietRefuseKnows DEF ErrorCode
  <1>4. CASE loc[w].phase = "reread" /\ Reply(w, "OK", {f})
    <2>1. f \in OrderDto
      BY <1>1, <1>4, FallbackType DEF AInv
    <2>2. /\ r.op \in {"create", "update", "rate"}
          /\ r.op = "update" => r.isAdmin
          /\ ~r.isAdmin /\ r.op # "create" => loc[w].dto.owner = r.user
          /\ r.op = "create" => Made(loc[w].cur, r)
          /\ r.op = "rate" => loc[w].dto \in OrderDto
      BY <1>2, <1>4 DEF KnowsOK, HandlerOK
    <2>3. r.op = "create" => f.id = loc[w].cur /\ f.owner = r.user
      BY DEF Fallback
    <2>4. r.op = "rate" => f.owner = loc[w].dto.owner
      BY <2>2 DEF Fallback, OrderDto
    <2> HIDE DEF f
    <2>5. QED
      BY <1>1, <1>4, <2>1, <2>2, <2>3, <2>4, QuietReplyKnows
  <1>5. CASE loc[w].phase = "list" /\ ListNext(w, loc[w].found)
    <2>1. loc[w].found \in SUBSET OrderDto
      BY <1>2 DEF Local
    <2>2. ~r.isAdmin => \A d \in loc[w].found : d.owner = r.user
      BY <1>2, <1>5 DEF KnowsOK
    <2>3. QED
      BY <1>1, <1>5, <2>1, <2>2, ListNextAnswers
  <1>6. QED
    BY <1>3, <1>4, <1>5 DEF FindNothing

\* An order read with its lines is the one whose header was read.
LEMMA ReadAnswers ==
  ASSUME AInv, NEW w \in Worker, pc[w] = "lines",
         NEW d \in {Whole(w), loc[w].half}, FindReturns(w, d)
  PROVE  /\ d \in OrderDto /\ txn' = txn /\ loc[w] \in Local
         /\ KnowsOK("lines", req[w], loc[w], NULL)
         /\ d.id = loc[w].cur /\ d.owner = loc[w].half.owner
         /\ Owned(loc[w].cur, d.owner)
  <1>1. d \in OrderDto /\ loc[w].half \in OrderDto /\ txn' = txn
    BY ReadFacts, ReadType DEF AInv
  <1>2. KnowsOK("lines", req[w], loc[w], NULL) /\ loc[w] \in Local
    BY KnowsNow
  <1>3. d.id = loc[w].half.id /\ d.owner = loc[w].half.owner
    BY <1>1 DEF Whole, OrderDto
  <1>4. QED
    BY <1>1, <1>2, <1>3 DEF KnowsOK

\* findById of any of the handlers: what it read is in the tables.
LEMMA GetOrderAnswers ==
  ASSUME AInv, NEW w \in Worker, GetOrder(w), IInv', IdsFresh', Stable
  PROVE  AInv'
  <1>1. pc[w] = "lines" /\ req[w].op = "get"
    BY DEF GetOrder, Reading
  <1>2. PICK d \in {Whole(w), loc[w].half} :
          /\ FindReturns(w, d)
          /\ IF MayRead(w, d) THEN Reply(w, "OK", {d})
                              ELSE Refuse(w, "ORDER_NOT_FOUND")
    BY DEF GetOrder
  <1>3. d \in OrderDto /\ txn' = txn
    BY <1>1, <1>2, ReadAnswers
  <1>4. CASE MayRead(w, d)
    BY <1>1, <1>2, <1>3, <1>4, QuietReplyKnows DEF MayRead
  <1>5. CASE ~MayRead(w, d)
    BY <1>2, <1>3, <1>5, QuietRefuseKnows DEF ErrorCode
  <1>6. QED
    BY <1>4, <1>5

\* The check of an order before its UPDATE: who may go on knows the owner.
LEMMA WriteNextAnswers ==
  ASSUME AInv, NEW w \in Worker, pc[w] = "lines", IInv', IdsFresh', Stable,
         NEW d \in {Whole(w), loc[w].half}, FindReturns(w, d),
         Goto(w, "write", [loc[w] EXCEPT !.dto = d]),
         loc[w].phase = "load", req[w].op \in {"update", "rate"},
         req[w].op = "rate" => MayRead(w, d)
  PROVE  AInv'
  <1> DEFINE r == req[w]
             l == [loc[w] EXCEPT !.dto = d]
  <1>1. /\ d \in OrderDto /\ txn' = txn /\ loc[w] \in Local
        /\ KnowsOK("lines", r, loc[w], NULL)
        /\ Owned(loc[w].cur, d.owner)
    BY ReadAnswers
  <1>2. l \in Local /\ l.cur = loc[w].cur /\ l.dto = d
    BY <1>1 DEF Local
  <1> HIDE DEF l
  <1>3. /\ r.op = "update" => r.isAdmin
        /\ ~r.isAdmin => d.owner = r.user
    BY <1>1 DEF KnowsOK, MayRead
  <1>4. KnowsOK("write", r, l, NULL)
    BY <1>1, <1>2, <1>3 DEF KnowsOK
  <1>5. QED
    BY <1>1, <1>2, <1>4, QuietGotoKnows DEF PC, l

\* updateOrderStatus checks the row it read.
LEMMA CheckUpdateAnswers ==
  ASSUME AInv, NEW w \in Worker, CheckUpdate(w), IInv', IdsFresh', Stable
  PROVE  AInv'
  <1>1. pc[w] = "lines" /\ loc[w].phase = "load" /\ req[w].op = "update"
    BY DEF CheckUpdate, Reading
  <1>2. PICK d \in {Whole(w), loc[w].half} :
          /\ FindReturns(w, d)
          /\ \/ Goto(w, "write", [loc[w] EXCEPT !.dto = d])
             \/ Refuse(w, "INVALID_STATUS_TRANSITION")
    BY DEF CheckUpdate
  <1>3. txn' = txn
    BY <1>1, <1>2, ReadAnswers
  <1>4. CASE Refuse(w, "INVALID_STATUS_TRANSITION")
    BY <1>3, <1>4, QuietRefuseKnows DEF ErrorCode
  <1>5. QED
    BY <1>1, <1>2, <1>4, WriteNextAnswers

\* rateOrder checks the row it read.
LEMMA CheckRateAnswers ==
  ASSUME AInv, NEW w \in Worker, CheckRate(w), IInv', IdsFresh', Stable
  PROVE  AInv'
  <1>1. pc[w] = "lines" /\ loc[w].phase = "load" /\ req[w].op = "rate"
    BY DEF CheckRate, Reading
  <1>2. PICK d \in {Whole(w), loc[w].half} :
          /\ FindReturns(w, d)
          /\ IF RateError(w, d) = "none"
             THEN Goto(w, "write", [loc[w] EXCEPT !.dto = d])
             ELSE Refuse(w, RateError(w, d))
    BY DEF CheckRate
  <1>3. txn' = txn
    BY <1>1, <1>2, ReadAnswers
  <1>4. CASE RateError(w, d) # "none"
    <2>1. RateError(w, d) \in ErrorCode
      BY <1>4 DEF RateError, ErrorCode
    <2>2. QED
      BY <1>2, <1>3, <1>4, <2>1, QuietRefuseKnows
  <1>5. CASE RateError(w, d) = "none"
    <2>1. MayRead(w, d)
      BY <1>5 DEF RateError
    <2>2. QED
      BY <1>1, <1>2, <1>5, <2>1, WriteNextAnswers
  <1>6. QED
    BY <1>4, <1>5

\* The handlers read the order again before they answer.
LEMMA RereadAnswers ==
  ASSUME AInv, NEW w \in Worker, Reread(w), IInv', IdsFresh', Stable
  PROVE  AInv'
  <1>1. pc[w] = "lines" /\ loc[w].phase = "reread"
    BY DEF Reread, Reading
  <1>2. PICK d \in {Whole(w), loc[w].half} :
          FindReturns(w, d) /\ Reply(w, "OK", {d})
    BY DEF Reread
  <1>3. /\ d \in OrderDto /\ txn' = txn
        /\ KnowsOK("lines", req[w], loc[w], NULL)
        /\ d.id = loc[w].cur /\ d.owner = loc[w].half.owner
    BY <1>1, <1>2, ReadAnswers
  <1>4. /\ ~req[w].isAdmin => d.owner = req[w].user
        /\ req[w].op = "create" => Made(d.id, req[w])
    BY <1>1, <1>3 DEF KnowsOK
  <1>5. QED
    BY <1>2, <1>3, <1>4, QuietReplyKnows

\* getOrdersByUserId loads the next order of the ids it selected.
LEMMA ListOneAnswers ==
  ASSUME AInv, NEW w \in Worker, ListOne(w), IInv', IdsFresh', Stable
  PROVE  AInv'
  <1>1. pc[w] = "lines" /\ loc[w].phase = "list"
    BY DEF ListOne, Reading
  <1>2. PICK d \in {Whole(w), loc[w].half} :
          FindReturns(w, d) /\ ListNext(w, loc[w].found \cup {d})
    BY DEF ListOne
  <1>3. /\ d \in OrderDto /\ txn' = txn /\ loc[w] \in Local
        /\ KnowsOK("lines", req[w], loc[w], NULL)
        /\ d.owner = loc[w].half.owner
    BY <1>1, <1>2, ReadAnswers
  <1>4. loc[w].found \cup {d} \in SUBSET OrderDto
    BY <1>3 DEF Local
  <1>5. ~req[w].isAdmin =>
          \A e \in loc[w].found \cup {d} : e.owner = req[w].user
    BY <1>1, <1>3 DEF KnowsOK
  <1>6. QED
    BY <1>1, <1>2, <1>3, <1>4, <1>5, ListNextAnswers

\* The UPDATE of a status or of a rating: contents and owners stay.
LEMMA WriteAnswers ==
  ASSUME AInv, NEW w \in Worker, Write(w), IInv', IdsFresh', Stable
  PROVE  AInv'
  <1> DEFINE l == [loc[w] EXCEPT !.phase = "reread", !.half = NULL]
  <1>1. pc[w] = "write" /\ txn' = txn
    BY DEF Write, session
  <1>2. /\ KnowsOK("write", req[w], loc[w], NULL) /\ loc[w] \in Local
        /\ HandlerOK("write", req[w], loc[w])
    BY <1>1, KnowsNow
  <1>3. CASE Refuse(w, "DB_ERROR")
    BY <1>1, <1>3, QuietRefuseKnows DEF ErrorCode
  <1>4. CASE Goto(w, "find", l)
    <2>1. /\ l \in Local /\ l.phase = "reread" /\ l.cur = loc[w].cur
          /\ l.dto = loc[w].dto
      BY <1>2 DEF Local
    <2> HIDE DEF l
    <2>2. KnowsOK("find", req[w], l, NULL)
      BY <1>2, <2>1 DEF KnowsOK
    <2>3. QED
      BY <1>1, <1>4, <2>1, <2>2, QuietGotoKnows DEF PC
  <1>5. QED
    BY <1>3, <1>4 DEF Write

\* getOrdersByUserId selects the ids of the caller's orders.
LEMMA ListIdsAnswers ==
  ASSUME AInv, NEW w \in Worker, ListIds(w), IInv', IdsFresh', Stable
  PROVE  AInv'
  <1> DEFINE r == req[w]
  <1>1. pc[w] = "list" /\ txn' = txn
    BY DEF ListIds
  <1>2. r.op = "list" /\ loc[w].found = {} /\ loc[w] \in Local
    BY <1>1, KnowsNow DEF KnowsOK
  <1>3. CASE Reply(w, "OK", {})
    BY <1>1, <1>2, <1>3, QuietReplyKnows
  <1>4. ASSUME NEW i \in Visible(w),
               Goto(w, "find", [loc[w] EXCEPT !.phase = "list", !.cur = i,
                                              !.todo = Visible(w) \ {i}])
        PROVE  AInv'
    <2> DEFINE l == [loc[w] EXCEPT !.phase = "list", !.cur = i,
                                   !.todo = Visible(w) \ {i}]
    <2>1. Visible(w) \subseteq OrderId
      BY DEF Visible
    <2>2. /\ l \in Local /\ l.phase = "list" /\ l.cur = i
          /\ l.todo = Visible(w) \ {i} /\ l.found = loc[w].found
      BY <1>2, <2>1 DEF Local
    <2> HIDE DEF l
    <2>3. ASSUME ~r.isAdmin, NEW j \in Visible(w) PROVE Owned(j, r.user)
      BY <2>3, ExistsSettled DEF Visible, Owned, AInv
    <2>4. KnowsOK("find", r, l, NULL)
      BY <1>2, <2>2, <2>3 DEF KnowsOK
    <2>5. QED
      BY <1>1, <1>4, <2>2, <2>4, QuietGotoKnows DEF PC, l
  <1>5. QED
    BY <1>3, <1>4 DEF ListIds

\* A step that moves no worker.
LEMMA IdleAnswers ==
  ASSUME AInv, IInv', IdsFresh', Stable, UNCHANGED workers,
         txn' = txn \/ txn' = NULL
  PROVE  AInv'
  <1>1. UNCHANGED <<pc, req, loc, resp>>
    BY DEF workers
  <1>2. ASSUME NEW v \in Worker PROVE Knows(v)'
    <2>1. KnowsOK(pc[v], req[v], loc[v], resp[v])
      BY DEF AInv, Knows
    <2>2. \A p, r, l, a : KnowsOK(p, r, l, a) => KnowsOK(p, r, l, a)'
      BY KnowsKept
    <2>3. QED
      BY <1>1, <2>1, <2>2 DEF Knows
  <1>3. TxnOwner'
    BY <1>1 DEF AInv, TxnOwner
  <1>4. QED
    BY <1>2, <1>3 DEF AInv

\* A new process knows nothing and shows nothing.
LEMMA RestartAnswers ==
  ASSUME AInv, Restart, IInv', IdsFresh'
  PROVE  AInv'
  <1>1. \A w \in Worker : pc'[w] = "idle" /\ resp'[w] = NULL
    BY DEF Restart
  <1>2. TxnOwner' /\ \A w \in Worker : Knows(w)'
    BY <1>1 DEF TxnOwner, Knows, KnowsOK
  <1>3. QED
    BY <1>2 DEF AInv
-----------------------------------------------------------------------------
(***************************************************************************)
(* The theorems.                                                           *)
(***************************************************************************)
LEMMA InitAInv == Init => AInv
  <1> SUFFICES ASSUME Init PROVE AInv
    OBVIOUS
  <1> USE DEF Init, TablesInit, ServiceInit
  <1>1. IInv
    BY InitIInv
  <1>2. IdsFresh
    BY DEF IdsFresh, Exists
  <1>3. TxnOwner /\ \A w \in Worker : Knows(w)
    BY DEF TxnOwner, Knows, KnowsOK
  <1>4. QED
    BY <1>1, <1>2, <1>3 DEF AInv

\* Every step keeps the inductive invariant.
LEMMA NextAInv == AInv /\ [Next]_vars => AInv'
  <1> SUFFICES ASSUME AInv, [Next]_vars PROVE AInv'
    OBVIOUS
  <1>1. IInv' /\ IdsFresh' /\ Stable
    BY NextIInv, StepStable DEF AInv
  <1>2. ASSUME NEW w \in Worker, NEW r \in Requests, Accept(w, r)
        PROVE  AInv'
    BY <1>1, <1>2, AcceptAnswers
  <1>3. ASSUME NEW w \in Worker, WorkerStep(w) PROVE AInv'
    BY <1>1, <1>3, StartAnswers, FindRestaurantAnswers, LoadMenuAnswers,
       BeginAnswers, InsertHeaderAnswers, InsertItemAnswers, CommitAnswers,
       FindHeaderAnswers, FindNothingAnswers, GetOrderAnswers,
       CheckUpdateAnswers, CheckRateAnswers, RereadAnswers, ListOneAnswers,
       WriteAnswers, ListIdsAnswers DEF WorkerStep
  <1>4. CASE LoseConnection
    BY <1>1, <1>4, IdleAnswers DEF LoseConnection
  <1>5. CASE Restart
    BY <1>1, <1>5, RestartAnswers
  <1>6. CASE UNCHANGED service
    BY <1>1, <1>6, IdleAnswers DEF service, session
  <1>7. CASE UNCHANGED vars
    BY <1>6, <1>7 DEF vars
  <1>8. QED
    BY <1>2, <1>3, <1>4, <1>5, <1>6, <1>7 DEF Next, ServiceNext

\* What each handler knows of the orders it has seen stays true at every point
\* of every execution.
THEOREM AnswersInvariance == Spec => []AInv
  BY InitAInv, NextAInv, PTL DEF Spec

\* No endpoint ever shows a customer somebody else's order, for any number of
\* threads, users and orders, although the check and the read that is answered
\* are separate queries and the console writes between them.
THEOREM OwnOrders == Spec => []OwnOrdersOnly
  <1>1. AInv => OwnOrdersOnly
    <2> SUFFICES ASSUME AInv, NEW w \in Worker, resp[w] # NULL,
                        ~req[w].isAdmin
                 PROVE  \A d \in resp[w].orders : d.owner = req[w].user
      BY DEF OwnOrdersOnly
    <2>1. KnowsOK(pc[w], req[w], loc[w], resp[w])
      BY DEF AInv, Knows
    <2>2. QED
      BY <2>1 DEF KnowsOK
  <1>2. QED
    BY <1>1, AnswersInvariance, PTL

\* An order that was acknowledged is in the tables, with the lines and for the
\* user of its request, and stays so until a console user deletes it.
THEOREM CreatedRight == Spec => []CreatedAsRequested
  <1>1. AInv => CreatedAsRequested
    <2> SUFFICES ASSUME AInv, NEW w \in Worker, resp[w] # NULL,
                        resp[w].code = "OK", req[w].op = "create"
                 PROVE  \E d \in resp[w].orders :
                          /\ resp[w].orders = {d}
                          /\ Exists(d.id) \/ "delete" \in CliOps
                          /\ Exists(d.id) => Matches(orders[d.id], req[w])
      BY DEF CreatedAsRequested, Matches, CartOf
    <2>1. KnowsOK(pc[w], req[w], loc[w], resp[w])
      BY DEF AInv, Knows
    <2>2. PICK d \in resp[w].orders :
            resp[w].orders = {d} /\ Made(d.id, req[w])
      BY <2>1 DEF KnowsOK
    <2>3. QED
      BY <2>2 DEF Made
  <1>2. QED
    BY <1>1, AnswersInvariance, PTL

\* What was ordered through the API, by whom and for how much never changes.
THEOREM OrdersImmutable == Spec => ContentsImmutable
  <1> DEFINE Kept == \A i \in OrderId :
               Exists(i) /\ FromRest(orders[i]) /\ Exists(i)' =>
                 /\ orders'[i].owner = orders[i].owner
                 /\ orders'[i].rest = orders[i].rest
                 /\ orders'[i].total = orders[i].total
                 /\ orders'[i].items = orders[i].items
  <1>1. AInv /\ [Next]_vars => [Kept]_orders
    <2> SUFFICES ASSUME AInv, [Next]_vars PROVE Kept
      OBVIOUS
    <2>1. Stable /\ IdsFresh
      BY StepStable DEF AInv
    <2>2. QED
      BY <2>1, ExistsSettled DEF Stable
  <1>2. QED
    BY <1>1, AnswersInvariance, PTL DEF Spec, ContentsImmutable
=============================================================================
