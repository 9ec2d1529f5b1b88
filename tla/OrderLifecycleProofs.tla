------------------------ MODULE OrderLifecycleProofs ------------------------
(***************************************************************************)
(* With one worker thread, and a console that only edits the catalogue,    *)
(* the order tables implement OrderLifecycle: every step of the service    *)
(* places an order, advances one along the status machine, rates one that  *)
(* is delivered, or changes no status and no rating.                       *)
(*                                                                         *)
(* updateStatus and rateOrder check an order on one query and write it     *)
(* with another one.  That nobody comes in between is exactly what makes   *)
(* the check still true at the UPDATE, and it is what Checked says; and    *)
(* so terminal statuses are final.  With a second thread or a console user *)
(* neither holds (see the findings on TerminalIsFinal and RatedOnce).      *)
(***************************************************************************)
EXTENDS OrderAnswersProofs

\* Nobody but one worker thread writes orders.
SingleWriter ==
  /\ \A v, w \in Worker : v = w
  /\ CliOps \subseteq {"catalogue"}

\* The order a transaction will commit is a new one.
TxnPending ==
  txn # NULL /\ txn.id # NULL =>
    txn.row.status = "Pending" /\ txn.row.rating = 0

\* What a handler has read or checked of its order is still so.
CheckedOK(p, r, l) ==
  /\ p = "lines" => Exists(l.cur) /\ l.half.status = orders[l.cur].status
  /\ p = "write" => Exists(l.cur)
  /\ p = "write" /\ r.op = "update" =>
       isValidTransition(orders[l.cur].status, r.status)
  /\ p = "write" /\ r.op = "rate" => canRate(orders[l.cur].status)

Checked == \A w \in Worker : CheckedOK(pc[w], req[w], loc[w])

LInv ==
  /\ AInv
  /\ TxnPending
  /\ Checked
  /\ cpc = "menu"
-----------------------------------------------------------------------------
(***************************************************************************)
(* The invariant.                                                          *)
(***************************************************************************)
\* Where a reply and a move leave the worker.
LEMMA PcAfter ==
  ASSUME ServiceTypeOK, NEW w \in Worker
  PROVE  /\ \A c, os : Reply(w, c, os) => pc'[w] = "idle"
         /\ \A c : Refuse(w, c) => pc'[w] = "idle"
         /\ \A p, l : Goto(w, p, l) =>
              pc'[w] = p /\ loc'[w] = l /\ req'[w] = req[w]
  BY DEF ServiceTypeOK, Reply, Refuse, Goto

\* The only worker is at a point where it has nothing checked.
LEMMA NothingChecked ==
  ASSUME SingleWriter, NEW w \in Worker, pc'[w] \notin {"lines", "write"}
  PROVE  Checked'
  BY DEF SingleWriter, Checked, CheckedOK

\* Most steps of the worker.
LEMMA OtherStepsChecked ==
  ASSUME SingleWriter, LInv, NEW w \in Worker,
         \/ Start(w) \/ FindRestaurant(w) \/ LoadMenu(w)
         \/ FindNothing(w) \/ GetOrder(w) \/ Reread(w) \/ ListOne(w)
         \/ Write(w) \/ ListIds(w)
  PROVE  Checked' /\ TxnPending'
  <1>1. ServiceTypeOK
    BY IInvTypes DEF LInv, AInv
  <1>2. UNCHANGED txn
    BY DEF Start, FindRestaurant, LoadMenu, FindNothing, GetOrder, Reread,
           ListOne, Write, ListIds, FindReturns, session
  <1>3. TxnPending'
    BY <1>2 DEF LInv, TxnPending
  <1>4. ASSUME NEW os, ListNext(w, os) PROVE pc'[w] \in {"idle", "find"}
    BY <1>1, <1>4, PcAfter DEF ListNext
  <1>5. pc'[w] \notin {"lines", "write"}
    <2>1. CASE Start(w) \/ FindRestaurant(w) \/ LoadMenu(w)
      BY <1>1, <2>1, PcAfter DEF Start, FindRestaurant, LoadMenu
    <2>2. CASE FindNothing(w) \/ ListOne(w)
      BY <1>1, <1>4, <2>2, PcAfter DEF FindNothing, ListOne
    <2>3. CASE GetOrder(w) \/ Reread(w)
      BY <1>1, <2>3, PcAfter DEF GetOrder, Reread
    <2>4. CASE Write(w) \/ ListIds(w)
      BY <1>1, <2>4, PcAfter DEF Write, ListIds
    <2>5. QED
      BY <2>1, <2>2, <2>3, <2>4
  <1>6. QED
    BY <1>3, <1>5, NothingChecked

\* The transaction.
LEMMA TransactionChecked ==
  ASSUME SingleWriter, LInv, NEW w \in Worker,
         Begin(w) \/ InsertHeader(w) \/ InsertItem(w) \/ Commit(w)
  PROVE  Checked' /\ TxnPending'
  <1>1. ServiceTypeOK /\ IInv
    BY IInvTypes DEF LInv, AInv
  <1>2. pc'[w] \notin {"lines", "write"}
    BY <1>1, PcAfter DEF Begin, InsertHeader, InsertItem, Commit, Abort
  <1>3. CASE txn' = NULL \/ txn' = txn
    BY <1>2, <1>3, NothingChecked DEF LInv, TxnPending
  <1>4. CASE txn' = [id |-> NULL, row |-> NULL]
    BY <1>2, <1>4, NothingChecked DEF TxnPending
  <1>5. CASE InsertHeader(w)
    <2>1. CASE txn' = [id |-> nextId,
                       row |-> Header(req[w].user, req[w].rest, "Pending",
                                      Total(loc[w].cart))]
      BY <1>2, <2>1, NothingChecked DEF TxnPending, Header
    <2>2. QED
      BY <1>3, <1>5, <2>1 DEF InsertHeader, Abort
  <1>6. CASE InsertItem(w)
    <2> DEFINE new == Append(txn.row.items, loc[w].cart[Len(txn.row.items) + 1])
    <2>1. CASE conn = "up" /\ txn' = [txn EXCEPT !.row.items = new]
      <3>1. pc[w] = "items" /\ txn # NULL
        BY <1>1, <1>6, <2>1, InTxn DEF InsertItem, InTransaction
      <3>2. txn \in Transaction /\ txn.row \in OrderRow /\ txn.id \in OrderId
        BY <1>1, <3>1 DEF ServiceTypeOK, IInv, TxnInv, TxnOK
      <3> HIDE DEF new
      <3>3. /\ txn'.row.status = txn.row.status
            /\ txn'.row.rating = txn.row.rating
        BY <2>1, <3>2 DEF Transaction, OrderRow
      <3>4. txn.id # NULL
        BY <1>1, <3>2, IInvTypes
      <3>5. QED
        BY <1>2, <3>1, <3>3, <3>4, NothingChecked DEF LInv, TxnPending
    <2>2. QED
      BY <1>3, <1>6, <2>1 DEF InsertItem, Abort, Succeeds
  <1>7. QED
    BY <1>3, <1>4, <1>5, <1>6 DEF Begin, Commit, Abort

\* The header that was read shows the status of the order.
LEMMA FindHeaderChecked ==
  ASSUME SingleWriter, LInv, NEW w \in Worker, FindHeader(w)
  PROVE  Checked' /\ TxnPending'
  <1> DEFINE i == loc[w].cur
             l == [loc[w] EXCEPT !.half = HeaderOf(i)]
  <1>1. /\ Goto(w, "lines", l) /\ Exists(i) /\ UNCHANGED <<txn, orders>>
        /\ pc[w] = "find"
    BY DEF FindHeader, tables
  <1>2. ServiceTypeOK /\ loc[w] \in Local
    BY IInvTypes DEF LInv, AInv, ServiceTypeOK
  <1>3. HeaderOf(i).status = orders[i].status
    BY DEF HeaderOf
  <1>4. l.cur = i /\ l.half = HeaderOf(i)
    BY <1>2 DEF Local
  <1> HIDE DEF l
  <1>5. pc'[w] = "lines" /\ loc'[w] = l
    BY <1>1, <1>2, PcAfter
  <1>6. Checked'
    BY <1>1, <1>3, <1>4, <1>5 DEF SingleWriter, Checked, CheckedOK, Exists
  <1>7. QED
    BY <1>1, <1>6 DEF LInv, TxnPending

\* A handler that goes on to its UPDATE has checked the status the order has.
LEMMA CheckChecked ==
  ASSUME SingleWriter, LInv, NEW w \in Worker, CheckUpdate(w) \/ CheckRate(w)
  PROVE  Checked' /\ TxnPending'
  <1>1. ServiceTypeOK /\ loc[w] \in Local /\ pc[w] = "lines"
    BY IInvTypes DEF LInv, AInv, ServiceTypeOK, CheckUpdate, CheckRate, Reading
  <1>2. PICK d \in {Whole(w), loc[w].half} :
          /\ FindReturns(w, d)
          /\ \/ /\ Goto(w, "write", [loc[w] EXCEPT !.dto = d])
                /\ \/ /\ req[w].op = "update"
                      /\ isValidTransition(d.status, req[w].status)
                   \/ req[w].op = "rate" /\ canRate(d.status)
             \/ \E c : Refuse(w, c)
    BY DEF CheckUpdate, CheckRate, RateError
  <1>3. UNCHANGED <<orders, txn>>
    BY <1>2 DEF FindReturns, tables
  <1>4. TxnPending'
    BY <1>3 DEF LInv, TxnPending
  <1>5. CASE \E c : Refuse(w, c)
    BY <1>1, <1>4, <1>5, PcAfter, NothingChecked
  <1>6. CASE /\ Goto(w, "write", [loc[w] EXCEPT !.dto = d])
             /\ \/ /\ req[w].op = "update"
                   /\ isValidTransition(d.status, req[w].status)
                \/ req[w].op = "rate" /\ canRate(d.status)
    <2> DEFINE l == [loc[w] EXCEPT !.dto = d]
    <2>1. loc[w].half \in OrderDto /\ IInv
      BY <1>1, ReadType DEF LInv, AInv
    <2>2. d.status = loc[w].half.status
      BY <2>1 DEF Whole, OrderDto
    <2>3. Exists(loc[w].cur) /\ d.status = orders[loc[w].cur].status
      BY <1>1, <2>2 DEF LInv, Checked, CheckedOK
    <2>4. l.cur = loc[w].cur
      BY <1>1 DEF Local
    <2> HIDE DEF l
    <2>5. pc'[w] = "write" /\ loc'[w] = l /\ req'[w] = req[w]
      BY <1>1, <1>6, PcAfter DEF l
    <2>6. Checked'
      BY <1>3, <1>6, <2>3, <2>4, <2>5
         DEF SingleWriter, Checked, CheckedOK, Exists
    <2>7. QED
      BY <1>4, <2>6
  <1>7. QED
    BY <1>2, <1>5, <1>6

\* The console leaves the orders alone.
LEMMA ConsoleIdle ==
  ASSUME SingleWriter, LInv, CliNext
  PROVE  UNCHANGED <<orders, cpc>>
  <1>1. cpc = "menu"
    BY DEF LInv
  <1>2. QED
    BY <1>1 DEF SingleWriter, CliNext, CliList, CliModifyOrder, CliRateOrder,
                CliDeleteOrder, CliPlaceOrder, CliAddItem, CliItemsDone,
                CliSetPrice, CliDeleteFood, CliDeleteRestaurant, CliKill,
                console

\* The empty tables satisfy the invariant.
LEMMA InitLInv == Init => LInv
  <1> SUFFICES ASSUME Init PROVE LInv
    OBVIOUS
  <1>1. AInv
    BY InitAInv
  <1>2. TxnPending /\ Checked /\ cpc = "menu"
    BY DEF Init, ServiceInit, CliInit, TxnPending, Checked, CheckedOK
  <1>3. QED
    BY <1>1, <1>2 DEF LInv

\* Every step of a single writer keeps the invariant.
LEMMA NextLInv ==
  ASSUME SingleWriter
  PROVE  LInv /\ [Next]_vars => LInv'
  <1> SUFFICES ASSUME LInv, [Next]_vars PROVE LInv'
    OBVIOUS
  <1>1. AInv'
    BY NextAInv DEF LInv
  <1>2. CASE ServiceNext /\ UNCHANGED console
    <2>1. cpc' = "menu"
      BY <1>2 DEF LInv, console
    <2>2. Checked' /\ TxnPending'
      <3>1. ASSUME NEW w \in Worker, NEW r \in Requests, Accept(w, r)
            PROVE  Checked' /\ TxnPending'
        <4>1. pc'[w] = "start" /\ UNCHANGED txn
          BY <3>1, IInvTypes DEF Accept, session, LInv, AInv, ServiceTypeOK
        <4>2. QED
          BY <4>1, NothingChecked DEF LInv, TxnPending
      <3>2. ASSUME NEW w \in Worker, WorkerStep(w)
            PROVE  Checked' /\ TxnPending'
        BY <3>2, OtherStepsChecked, TransactionChecked, FindHeaderChecked,
           CheckChecked DEF WorkerStep
      <3>3. CASE LoseConnection
        BY <3>3 DEF LoseConnection, LInv, Checked, CheckedOK, TxnPending,
                    Exists, workers, tables
      <3>4. CASE Restart
        BY <3>4 DEF Restart, Checked, CheckedOK, TxnPending
      <3>5. QED
        BY <1>2, <3>1, <3>2, <3>3, <3>4 DEF ServiceNext
    <2>3. QED
      BY <1>1, <2>1, <2>2 DEF LInv
  <1>3. CASE UNCHANGED <<service, orders, cpc>>
    BY <1>1, <1>3 DEF LInv, service, session, workers, Checked, CheckedOK,
                      TxnPending, Exists
  <1>4. CASE CliNext /\ UNCHANGED service
    BY <1>3, <1>4, ConsoleIdle
  <1>5. CASE UNCHANGED vars
    BY <1>3, <1>5 DEF vars, tables, console
  <1>6. QED
    BY <1>2, <1>4, <1>5 DEF Next

\* With a single writer, what a handler has checked is so when it writes.
THEOREM ChecksHold ==
  ASSUME SingleWriter
  PROVE  Spec => []LInv
  BY InitLInv, NextLInv, PTL DEF Spec
-----------------------------------------------------------------------------
(***************************************************************************)
(* The refinement.                                                         *)
(***************************************************************************)
life == [i \in OrderId |-> Life(i)]

\* Initial states map to initial states of the life cycle.
LEMMA InitLife == Init => Lifecycle!Init
  BY DEF Init, TablesInit, Lifecycle!Init, Lifecycle!Unplaced, Life, Exists

\* A step that changes no order is none of the lifecycle.
LEMMA NoOrderNoLife ==
  ASSUME UNCHANGED orders
  PROVE  UNCHANGED life
  BY DEF life, Life, Exists

\* A row that replaces the row, or the absence of one, under the id i.
LEMMA LifeExcept ==
  ASSUME TablesTypeOK, NEW i \in OrderId, NEW row \in OrderRow,
         orders' = [orders EXCEPT ![i] = row]
  PROVE  life' = [life EXCEPT ![i] = [status |-> row.status,
                                      rating |-> row.rating]]
  <1>1. orders'[i] = row /\ \A j \in OrderId \ {i} : orders'[j] = orders[j]
    BY DEF TablesTypeOK
  <1>2. row # NULL
    BY RowAssumption
  <1>3. QED
    BY <1>1, <1>2 DEF life, Life, Exists

\* The lifecycle's status machine is the one of the service.
LEMMA SameMachine ==
  /\ Lifecycle!Status = Status
  /\ Lifecycle!StoredRating = StoredRating
  /\ \A p, q : isValidTransition(p, q) => Lifecycle!isValidTransition(p, q)
  /\ \A p : canRate(p) => Lifecycle!canRate(p)
  /\ \A r : isValidRating(r) => Lifecycle!isValidRating(r)
  BY DEF Status, Lifecycle!Status, StoredRating, Lifecycle!StoredRating,
         isValidTransition, Lifecycle!isValidTransition, kTransitions,
         Lifecycle!kTransitions, canRate, Lifecycle!canRate, isValidRating,
         Lifecycle!isValidRating

\* A COMMIT places an order.
LEMMA CommitPlaces ==
  ASSUME SingleWriter, LInv, NEW w \in Worker, Commit(w)
  PROVE  [Lifecycle!Next]_life
  <1>1. /\ IInv /\ IdsFresh /\ TablesTypeOK /\ pc[w] = "commit"
        /\ InTransaction(w)
    BY IInvTypes DEF LInv, AInv, Commit, InTransaction
  <1>2. CASE UNCHANGED orders
    BY <1>2, NoOrderNoLife
  <1>3. CASE conn = "up" /\ orders' = [orders EXCEPT ![txn.id] = txn.row]
    <2> DEFINE i == txn.id
               row == txn.row
    <2>1. txn # NULL
      BY <1>1, <1>3, InTxn
    <2>2. i \in OrderId /\ row \in OrderRow
      BY <1>1, <2>1, CommitRow
    <2>3. i # NULL
      BY <1>1, <2>2, IInvTypes
    <2>4. ~Exists(i) /\ row.status = "Pending" /\ row.rating = 0
      BY <1>1, <2>1, <2>3 DEF IdsFresh, LInv, TxnPending
    <2> HIDE DEF i, row
    <2>5. life' = [life EXCEPT ![i] = [status |-> "Pending", rating |-> 0]]
      BY <1>1, <1>3, <2>2, <2>4, LifeExcept DEF i, row
    <2>6. life[i] = Lifecycle!Unplaced
      BY <2>2, <2>4 DEF life, Life, Lifecycle!Unplaced
    <2>7. Lifecycle!Place(i)
      BY <2>5, <2>6 DEF Lifecycle!Place, life
    <2>8. QED
      BY <2>2, <2>7 DEF Lifecycle!Next
  <1>4. QED
    BY <1>2, <1>3 DEF Commit, Succeeds

\* An UPDATE advances an order along the status machine, or rates a delivered
\* one.
LEMMA WriteAdvances ==
  ASSUME SingleWriter, LInv, NEW w \in Worker, Write(w)
  PROVE  [Lifecycle!Next]_life
  <1> DEFINE i == loc[w].cur
             r == req[w]
  <1>1. pc[w] = "write" /\ IInv /\ TablesTypeOK
    BY IInvTypes DEF LInv, AInv, Write
  <1>2. /\ i \in OrderId
        /\ r.op = "update" => r.status \in Status
        /\ r.op = "rate" => r.rating \in 1..5
    BY <1>1, AtWork DEF HandlerOK
  <1>3. /\ Exists(i)
        /\ r.op = "update" => isValidTransition(orders[i].status, r.status)
        /\ r.op = "rate" => canRate(orders[i].status)
    BY <1>1 DEF LInv, Checked, CheckedOK
  <1>4. orders[i] \in OrderRow
    BY <1>1, <1>2, <1>3 DEF TablesTypeOK, Exists
  <1>5. life[i] = [status |-> orders[i].status, rating |-> orders[i].rating]
    BY <1>2, <1>3 DEF life, Life
  <1>6. CASE UNCHANGED orders
    BY <1>6, NoOrderNoLife
  <1>7. CASE /\ r.op = "update"
             /\ SetStatus(i, stringToOrderStatus(r.status))
    <2> DEFINE row == [orders[i] EXCEPT !.status = r.status]
    <2>1. orders' = [orders EXCEPT ![i] = row]
      BY <1>2, <1>3, <1>7 DEF SetStatus, stringToOrderStatus
    <2>2. /\ row \in OrderRow /\ row.status = r.status
          /\ row.rating = orders[i].rating
      BY <1>2, <1>4, <1>7 DEF OrderRow
    <2> HIDE DEF row
    <2>3. life' = [life EXCEPT ![i] = [status |-> r.status,
                                       rating |-> orders[i].rating]]
      BY <1>1, <1>2, <2>1, <2>2, LifeExcept
    <2>4. [status |-> r.status, rating |-> orders[i].rating]
            = [life[i] EXCEPT !.status = r.status]
      BY <1>5
    <2>5. life' = [life EXCEPT ![i].status = r.status]
      BY <2>3, <2>4
    <2>6. Lifecycle!isValidTransition(life[i].status, r.status)
      BY <1>3, <1>5, <1>7, SameMachine
    <2>7. Lifecycle!Advance(i, r.status)
      BY <2>5, <2>6 DEF Lifecycle!Advance, life
    <2>8. QED
      BY <1>2, <1>7, <2>7, SameMachine DEF Lifecycle!Next
  <1>8. CASE r.op = "rate" /\ SetRating(i, r.rating)
    <2> DEFINE row == [orders[i] EXCEPT !.rating = r.rating]
    <2>1. orders' = [orders EXCEPT ![i] = row]
      BY <1>2, <1>3, <1>8 DEF SetRating
    <2>2. /\ row \in OrderRow /\ row.status = orders[i].status
          /\ row.rating = r.rating
      <3>1. PICK v \in StoredRating : v = r.rating
        BY <1>2, <1>8 DEF StoredRating
      <3>2. [orders[i] EXCEPT !.rating = v] \in OrderRow
        BY <1>4, <3>1 DEF OrderRow
      <3>3. /\ [orders[i] EXCEPT !.rating = v].status = orders[i].status
            /\ [orders[i] EXCEPT !.rating = v].rating = v
        BY <1>4 DEF OrderRow
      <3>4. QED
        BY <3>1, <3>2, <3>3
    <2> HIDE DEF row
    <2>3. life' = [life EXCEPT ![i] = [status |-> orders[i].status,
                                       rating |-> r.rating]]
      BY <1>1, <1>2, <2>1, <2>2, LifeExcept
    <2>4. [status |-> orders[i].status, rating |-> r.rating]
            = [life[i] EXCEPT !.rating = r.rating]
      BY <1>5
    <2>5. life' = [life EXCEPT ![i].rating = r.rating]
      BY <2>3, <2>4
    <2>6. isValidRating(r.rating) /\ r.rating \in StoredRating
      BY <1>2, <1>8 DEF isValidRating, StoredRating
    <2>7. /\ Lifecycle!canRate(life[i].status)
          /\ Lifecycle!isValidRating(r.rating)
      BY <1>3, <1>5, <1>8, <2>6, SameMachine
    <2>8. Lifecycle!Rate(i, r.rating)
      BY <2>5, <2>7 DEF Lifecycle!Rate, life
    <2>9. QED
      BY <1>2, <2>6, <2>8, SameMachine DEF Lifecycle!Next
  <1>9. QED
    BY <1>6, <1>7, <1>8 DEF Write

\* Every step is a step of the life cycle of the orders or a stutter.
LEMMA NextLife ==
  ASSUME SingleWriter, LInv, [Next]_vars
  PROVE  [Lifecycle!Next]_life
  <1>1. CASE UNCHANGED orders
    BY <1>1, NoOrderNoLife
  <1>2. ASSUME NEW w \in Worker, WorkerStep(w)
        PROVE  [Lifecycle!Next]_life
    <2>1. CASE Commit(w) \/ Write(w)
      BY <2>1, CommitPlaces, WriteAdvances
    <2>2. CASE Begin(w)
      <3>1. txn = NULL
        <4>1. lock \in {NULL, w} /\ ~InTransaction(w) /\ IInv
          BY <2>2 DEF Begin, MayEnter, InTransaction, LInv, AInv
        <4>2. QED
          BY <4>1, OthersOut, ServiceAssumption DEF IInv, TransactionGuarded
      <3>2. QED
        BY <1>1, <2>2, <3>1 DEF Begin
    <2>3. CASE \/ Start(w) \/ FindRestaurant(w) \/ LoadMenu(w)
               \/ InsertHeader(w) \/ InsertItem(w)
               \/ FindHeader(w) \/ FindNothing(w) \/ ListIds(w)
      BY <1>1, <2>3 DEF Start, FindRestaurant, LoadMenu, InsertHeader,
                        InsertItem, FindHeader, FindNothing, ListIds, tables
    <2>4. CASE \/ GetOrder(w) \/ CheckUpdate(w) \/ CheckRate(w)
               \/ Reread(w) \/ ListOne(w)
      BY <1>1, <2>4 DEF GetOrder, CheckUpdate, CheckRate, Reread, ListOne,
                        FindReturns, tables
    <2>5. QED
      BY <1>2, <2>1, <2>2, <2>3, <2>4 DEF WorkerStep
  <1>3. CASE CliNext
    BY <1>1, <1>3, ConsoleIdle
  <1>4. CASE \/ LoseConnection \/ Restart \/ UNCHANGED vars
             \/ \E w \in Worker, r \in Requests : Accept(w, r)
    BY <1>1, <1>4 DEF LoseConnection, Restart, Accept, vars, tables
  <1>5. QED
    BY <1>2, <1>3, <1>4 DEF Next, ServiceNext

\* One worker thread, and a console that only edits the catalogue, implement
\* the order lifecycle, for any orders, requests, failures and restarts.
THEOREM Implements ==
  ASSUME SingleWriter
  PROVE  Spec => LifecycleSpec
  <1>1. LInv /\ [Next]_vars => [Lifecycle!Next]_life
    BY NextLife
  <1>2. QED
    BY <1>1, InitLife, ChecksHold, PTL
       DEF Spec, LifecycleSpec, Lifecycle!Spec, life

\* No step of the life cycle leaves a terminal status.
LEMMA TerminalLife ==
  ASSUME [Lifecycle!Next]_life, NEW i \in OrderId,
         life[i].status \in {"Delivered", "Cancelled"}
  PROVE  life'[i].status = life[i].status
  <1>1. CASE UNCHANGED life
    BY <1>1
  <1>2. ASSUME NEW j \in OrderId, Lifecycle!Place(j)
        PROVE  life'[i].status = life[i].status
    <2>1. life[j] = [status |-> "None", rating |-> 0]
      BY <1>2 DEF Lifecycle!Place, Lifecycle!Unplaced, life
    <2>3. j # i
      BY <2>1
    <2>2. life' = [life EXCEPT ![j] = [status |-> "Pending", rating |-> 0]]
      BY <1>2 DEF Lifecycle!Place, life
    <2>4. QED
      BY <2>2, <2>3 DEF life
  <1>3. ASSUME NEW j \in OrderId, NEW s, Lifecycle!Advance(j, s)
        PROVE  life'[i].status = life[i].status
    <2>1. j # i
      <3>1. Lifecycle!isValidTransition(life[j].status, s)
        BY <1>3 DEF Lifecycle!Advance, life
      <3>2. life[j].status \notin {"Delivered", "Cancelled"}
        BY <3>1 DEF Lifecycle!isValidTransition, Lifecycle!kTransitions
      <3>3. QED
        BY <3>2
    <2>2. life' = [life EXCEPT ![j].status = s]
      BY <1>3 DEF Lifecycle!Advance, life
    <2>3. QED
      BY <2>1, <2>2 DEF life
  <1>4. ASSUME NEW j \in OrderId, NEW r, Lifecycle!Rate(j, r)
        PROVE  life'[i].status = life[i].status
    <2>1. life' = [life EXCEPT ![j].rating = r]
      BY <1>4 DEF Lifecycle!Rate, life
    <2>2. life[i].status = [life[i] EXCEPT !.rating = r].status
      <3>1. PICK p, q : life[i] = [status |-> p, rating |-> q]
        BY DEF life, Life
      <3>2. QED
        BY <3>1
    <2>3. QED
      BY <2>1, <2>2 DEF life
  <1>5. QED
    BY <1>1, <1>2, <1>3, <1>4 DEF Lifecycle!Next

\* With a single writer no step moves an order out of Delivered or Cancelled.
LEMMA TerminalStep ==
  ASSUME SingleWriter, LInv, [Next]_vars
  PROVE  [\A i \in OrderId :
            Exists(i) /\ orders[i].status \in {"Delivered", "Cancelled"} =>
              ~Exists(i)' \/ orders'[i].status = orders[i].status]_orders
  <1> SUFFICES ASSUME NEW i \in OrderId, Exists(i),
                      orders[i].status \in {"Delivered", "Cancelled"}, Exists(i)'
               PROVE  orders'[i].status = orders[i].status
    OBVIOUS
  <1>1. life[i].status = orders[i].status /\ life'[i].status = orders'[i].status
    BY DEF life, Life, Exists
  <1>2. [Lifecycle!Next]_life
    BY NextLife
  <1>3. QED
    BY <1>1, <1>2, TerminalLife

\* With one worker thread, which is the default, and a console that only edits the
\* catalogue, Delivered and Cancelled are terminal as OrderStatusMachine.h says.
THEOREM TerminalWhenSingle ==
  ASSUME SingleWriter
  PROVE  Spec => TerminalIsFinal
  <1>1. QED
    BY TerminalStep, ChecksHold, PTL DEF Spec, TerminalIsFinal
=============================================================================
