------------------------- MODULE OrderSystemProofs -------------------------
(***************************************************************************)
(* Proofs about OrderSystem for any number of worker threads, users,       *)
(* foods and requests, any use of the console and any number of failures.  *)
(*                                                                         *)
(* RestOrdersWhole and TransactionGuarded are not inductive: a COMMIT is   *)
(* right only if the transaction holds the lines priced from the menu, and *)
(* that only if no other thread or console statement touched it.  IInv     *)
(* adds what each program point of a handler knows (HandlerOK), who holds  *)
(* the mutex (MutexInv), what the open transaction contains (TxnOK) and    *)
(* that the console only adds lines to orders of its own (ConsoleInv).     *)
(***************************************************************************)
EXTENDS OrderSystem, SequenceTheorems, TLAPS

Creating == {"restaurant", "menu", "begin", "header", "items", "commit"}

\* What a handler knows of its request r and its local variables l at the
\* program point p.
HandlerOK(p, r, l) ==
  /\ p # "idle" => r \in Requests
  /\ p \in Creating => r.op = "create" /\ ShapeError(r) = "none"
  /\ p \in Creating \ {"restaurant"} => r.rest \in Restaurant
  /\ p \in Creating \ {"restaurant", "menu"} =>
       /\ l.cart # << >>
       /\ \A k \in 1..Len(l.cart) : FoodOf[l.cart[k].food] = r.rest
  /\ p \in {"find", "lines", "write"} => l.cur \in OrderId
  /\ p = "lines" => l.half \in OrderDto
  /\ p = "write" => r.op \in {"update", "rate"}
  /\ p = "write" \/ (p \in {"find", "lines"} /\ l.phase = "reread") =>
       /\ r.op \in {"create", "update", "rate"}
       /\ r.op = "create" => Total(l.cart) \in 0..MaxTotal
       /\ r.op = "update" => l.dto \in OrderDto /\ r.status \in Status
       /\ r.op = "rate" => l.dto \in OrderDto /\ r.rating \in 1..5

HandlerInv == \A w \in Worker : HandlerOK(pc[w], req[w], loc[w])

MutexInv == \A w \in Worker : HoldsMutex(w) => lock = w

\* The transaction t that a handler at p with request r and priced lines c has
\* open: the header of its order and the first of its lines.
TxnOK(p, r, c, t) ==
  p \in {"items", "commit"} /\ t # NULL =>
    /\ t.id \in OrderId
    /\ t.row \in OrderRow
    /\ t.row.rest = r.rest
    /\ t.row.total = Total(c)
    /\ Len(t.row.items) <= Len(c)
    /\ \A k \in 1..Len(t.row.items) : t.row.items[k] = c[k]
    /\ p = "items" => Len(t.row.items) < Len(c)
    /\ p = "commit" => Len(t.row.items) = Len(c)

TxnInv ==
  /\ \A w \in Worker : TxnOK(pc[w], req[w], loc[w].cart, txn)
  /\ conn = "up" => \A w \in Worker : InTransaction(w) => txn # NULL
  /\ txn # NULL /\ txn.id # NULL => txn.id < nextId

ConsoleInv ==
  cpc = "items" =>
    /\ cid \in OrderId
    /\ cid < nextId
    /\ txn # NULL => txn.id # cid
    /\ Exists(cid) => ~FromRest(orders[cid])

IInv ==
  /\ TypeOK
  /\ HandlerInv
  /\ MutexInv
  /\ TransactionGuarded
  /\ TxnInv
  /\ ConsoleInv
  /\ RestOrdersWhole
-----------------------------------------------------------------------------
(***************************************************************************)
(* What the two ends of a step, Reply and Goto, do to the worker's state.  *)
(***************************************************************************)
\* Only the state of worker w changes.
OnlyWorker(w) ==
  /\ \A v \in Worker \ {w} :
       pc'[v] = pc[v] /\ req'[v] = req[v] /\ loc'[v] = loc[v]
  /\ pc' \in [Worker -> PC]
  /\ req' \in [Worker -> Requests \cup {NULL}]
  /\ loc' \in [Worker -> Local]
  /\ resp' \in [Worker -> Response \cup {NULL}]

\* The initial values of a handler's local variables have their types.
LEMMA FreshType == Fresh \in Local
  BY DEF Fresh, Local

\* Assignments to the local variables keep their types.
LEMMA LocalUpdate ==
  ASSUME NEW l \in Local
  PROVE  /\ \A i \in OrderId \cup {NULL} : [l EXCEPT !.cur = i] \in Local
         /\ \A d \in OrderDto \cup {NULL} : [l EXCEPT !.dto = d] \in Local
         /\ \A d \in OrderDto \cup {NULL} : [l EXCEPT !.half = d] \in Local
         /\ \A c \in Seq(Line) : [l EXCEPT !.cart = c] \in Local
         /\ \A ph \in {"load", "reread", "list"} :
              [l EXCEPT !.phase = ph] \in Local
         /\ \A S \in SUBSET OrderId : [l EXCEPT !.todo = S] \in Local
         /\ \A S \in SUBSET OrderDto : [l EXCEPT !.found = S] \in Local
  BY DEF Local

\* A reply leaves a typed state in which the worker is idle and the others
\* are as they were.
LEMMA ReplyFacts ==
  ASSUME ServiceTypeOK, NEW w \in Worker,
         NEW code \in ErrorCode \cup {"OK"}, NEW os \in SUBSET OrderDto,
         Reply(w, code, os)
  PROVE  /\ OnlyWorker(w)
         /\ pc'[w] = "idle" /\ req'[w] = req[w] /\ loc'[w] = Fresh
  <1>1. [code |-> code, orders |-> os] \in Response
    BY DEF Response
  <1>2. /\ pc \in [Worker -> PC]
        /\ req \in [Worker -> Requests \cup {NULL}]
        /\ loc \in [Worker -> Local]
        /\ resp \in [Worker -> Response \cup {NULL}]
    BY DEF ServiceTypeOK
  <1>3. "idle" \in PC
    BY DEF PC
  <1>4. /\ resp' = [resp EXCEPT ![w] = [code |-> code, orders |-> os]]
        /\ pc' = [pc EXCEPT ![w] = "idle"]
        /\ loc' = [loc EXCEPT ![w] = Fresh]
        /\ req' = req
    BY DEF Reply
  <1>5. QED
    BY <1>1, <1>2, <1>3, <1>4, FreshType DEF OnlyWorker

\* Likewise for a worker that goes on to its next statement.
LEMMA GotoFacts ==
  ASSUME ServiceTypeOK, NEW w \in Worker, NEW label \in PC, NEW l \in Local,
         Goto(w, label, l)
  PROVE  /\ OnlyWorker(w)
         /\ pc'[w] = label /\ req'[w] = req[w] /\ loc'[w] = l
  <1>1. /\ pc \in [Worker -> PC]
        /\ req \in [Worker -> Requests \cup {NULL}]
        /\ loc \in [Worker -> Local]
        /\ resp \in [Worker -> Response \cup {NULL}]
    BY DEF ServiceTypeOK
  <1>2. /\ pc' = [pc EXCEPT ![w] = label]
        /\ loc' = [loc EXCEPT ![w] = l]
        /\ req' = req /\ resp' = resp
    BY DEF Goto
  <1>3. QED
    BY <1>1, <1>2 DEF OnlyWorker

\* The handler invariant is kept when the worker that moved has it.
LEMMA HandlerStep ==
  ASSUME NEW w \in Worker, HandlerInv, OnlyWorker(w),
         HandlerOK(pc'[w], req'[w], loc'[w])
  PROVE  HandlerInv'
  <1>1. ASSUME NEW v \in Worker PROVE HandlerOK(pc'[v], req'[v], loc'[v])
    <2>1. CASE v = w
      BY <2>1
    <2>2. CASE v # w
      <3>1. pc'[v] = pc[v] /\ req'[v] = req[v] /\ loc'[v] = loc[v]
        BY <2>2 DEF OnlyWorker
      <3>2. HandlerOK(pc[v], req[v], loc[v])
        BY DEF HandlerInv
      <3>3. QED
        BY <3>1, <3>2
    <2>3. QED
      BY <2>1, <2>2
  <1>2. QED
    BY <1>1 DEF HandlerInv

\* An idle worker promises nothing.
LEMMA IdleOK == \A r, l : HandlerOK("idle", r, l)
  BY DEF HandlerOK, Creating

\* API orders stay whole when rows only disappear or keep what they are.
LEMMA WholeKept ==
  ASSUME RestOrdersWhole,
         \A i \in OrderId : Exists(i)' =>
           /\ Exists(i)
           /\ orders'[i].rest = orders[i].rest
           /\ orders'[i].total = orders[i].total
           /\ orders'[i].items = orders[i].items
  PROVE  RestOrdersWhole'
  BY DEF RestOrdersWhole, Exists, FromRest

\* A step of worker w outside the transaction that changes no table: the
\* invariant is kept if w knows what it must know at its next program point
\* and the mutex was free or its own, or does not change.
QuietStep(w) ==
  /\ OnlyWorker(w)
  /\ ~InTransaction(w) /\ ~InTransaction(w)'
  /\ HandlerOK(pc'[w], req'[w], loc'[w])
  /\ HoldsMutex(w)' => lock' = w
  /\ lock' = lock \/ (lock \in {NULL, w} /\ lock' \in {NULL, w})
  /\ accepted' \in 0..MaxRequests /\ faults' \in 0..MaxFaults
  /\ UNCHANGED <<tables, conn, txn, crashes, console>>

\* A quiet step keeps the invariant.
LEMMA QuietKeepsIInv ==
  ASSUME IInv, NEW w \in Worker, QuietStep(w)
  PROVE  IInv'
  <1> USE DEF QuietStep
  <1>1. TypeOK'
    <2>1. TypeOK
      BY DEF IInv
    <2>2. TablesTypeOK'
      BY <2>1 DEF TypeOK, TablesTypeOK, tables
    <2>3. CliTypeOK'
      BY <2>1 DEF TypeOK, CliTypeOK, console
    <2>4. lock' \in Worker \cup {NULL}
      BY <2>1 DEF TypeOK, ServiceTypeOK
    <2>5. ServiceTypeOK'
      BY <2>1, <2>4 DEF TypeOK, ServiceTypeOK, OnlyWorker
    <2>6. QED
      BY <2>2, <2>3, <2>5 DEF TypeOK
  <1>2. HandlerInv'
    BY HandlerStep DEF IInv
  <1>3. ASSUME NEW v \in Worker \ {w}
        PROVE  /\ HoldsMutex(v)' <=> HoldsMutex(v)
               /\ InTransaction(v)' <=> InTransaction(v)
    BY DEF OnlyWorker, HoldsMutex, InTransaction
  <1>4. MutexInv'
    <2>1. ASSUME NEW v \in Worker, HoldsMutex(v)' PROVE lock' = v
      <3>1. CASE v = w
        BY <2>1, <3>1
      <3>2. CASE v # w
        <4>1. HoldsMutex(v)
          BY <2>1, <1>3, <3>2
        <4>2. lock = v
          BY <4>1 DEF IInv, MutexInv
        <4>3. QED
          BY <4>2, <3>2, ServiceAssumption
      <3>3. QED
        BY <3>1, <3>2
    <2>2. QED
      BY <2>1 DEF MutexInv
  <1>5. TransactionGuarded'
    <2>1. SUFFICES ASSUME txn # NULL
                   PROVE  \E v \in Worker : lock' = v /\ InTransaction(v)'
      BY DEF TransactionGuarded
    <2>2. PICK v \in Worker : lock = v /\ InTransaction(v)
      BY <2>1 DEF IInv, TransactionGuarded
    <2>3. v # w
      BY <2>2
    <2>4. lock' = lock
      BY <2>2, <2>3, ServiceAssumption
    <2>5. InTransaction(v)'
      BY <2>2, <2>3, <1>3
    <2>6. QED
      BY <2>2, <2>4, <2>5
  <1>6. TxnInv'
    <2>1. ASSUME NEW v \in Worker
          PROVE  TxnOK(pc'[v], req'[v], loc'[v].cart, txn)
      <3>1. CASE v = w
        BY <3>1 DEF TxnOK, InTransaction
      <3>2. CASE v # w
        <4>1. pc'[v] = pc[v] /\ req'[v] = req[v] /\ loc'[v] = loc[v]
          BY <3>2 DEF OnlyWorker
        <4>2. TxnOK(pc[v], req[v], loc[v].cart, txn)
          BY DEF IInv, TxnInv
        <4>3. QED
          BY <4>1, <4>2
      <3>3. QED
        BY <3>1, <3>2
    <2>2. conn = "up" => \A v \in Worker : InTransaction(v)' => txn # NULL
      BY <1>3 DEF IInv, TxnInv
    <2>3. txn # NULL /\ txn.id # NULL => txn.id < nextId
      BY DEF IInv, TxnInv
    <2>4. QED
      BY <2>1, <2>2, <2>3 DEF TxnInv, tables
  <1>7. ConsoleInv'
    BY DEF IInv, ConsoleInv, tables, console, Exists
  <1>8. RestOrdersWhole'
    BY DEF IInv, RestOrdersWhole, tables, Exists
  <1>9. QED
    BY <1>1, <1>2, <1>4, <1>5, <1>6, <1>7, <1>8 DEF IInv
-----------------------------------------------------------------------------
(***************************************************************************)
(* The steps outside the transaction, one by one.                          *)
(***************************************************************************)
\* The budgets stay within their bounds.
LEMMA FaultType ==
  ASSUME TypeOK, Succeeds \/ Fails
  PROVE  faults' \in 0..MaxFaults
  BY TablesAssumption DEF TypeOK, TablesTypeOK, Succeeds, Fails

\* A reply outside the transaction is a quiet step.
LEMMA QuietReply ==
  ASSUME IInv, NEW w \in Worker,
         NEW code \in ErrorCode \cup {"OK"}, NEW os \in SUBSET OrderDto,
         Reply(w, code, os), ~InTransaction(w),
         lock' = lock \/ (lock \in {NULL, w} /\ lock' = NULL),
         faults' \in 0..MaxFaults,
         UNCHANGED <<tables, conn, txn, accepted, crashes, console>>
  PROVE  IInv'
  <1>1. ServiceTypeOK
    BY DEF IInv, TypeOK
  <1>2. /\ OnlyWorker(w)
        /\ pc'[w] = "idle" /\ req'[w] = req[w] /\ loc'[w] = Fresh
    BY <1>1, ReplyFacts
  <1>3. HandlerOK(pc'[w], req'[w], loc'[w])
    BY <1>2, IdleOK
  <1>4. ~InTransaction(w)' /\ ~HoldsMutex(w)'
    BY <1>2 DEF InTransaction, HoldsMutex
  <1>5. accepted' \in 0..MaxRequests
    BY <1>1 DEF ServiceTypeOK
  <1>6. QED
    BY <1>2, <1>3, <1>4, <1>5, QuietKeepsIInv DEF QuietStep

\* So is a jump to a program point outside the transaction.
LEMMA QuietGoto ==
  ASSUME IInv, NEW w \in Worker,
         NEW label \in PC \ {"header", "items", "commit"}, NEW l \in Local,
         Goto(w, label, l), ~InTransaction(w),
         HandlerOK(label, req[w], l),
         label = "lines" \/ (label = "find" /\ l.phase = "list") => lock' = w,
         lock' = lock \/ (lock \in {NULL, w} /\ lock' \in {NULL, w}),
         faults' \in 0..MaxFaults,
         UNCHANGED <<tables, conn, txn, accepted, crashes, console>>
  PROVE  IInv'
  <1>1. ServiceTypeOK
    BY DEF IInv, TypeOK
  <1>2. /\ OnlyWorker(w)
        /\ pc'[w] = label /\ req'[w] = req[w] /\ loc'[w] = l
    BY <1>1, GotoFacts
  <1>3. HandlerOK(pc'[w], req'[w], loc'[w])
    BY <1>2
  <1>4. ~InTransaction(w)' /\ (HoldsMutex(w)' => lock' = w)
    BY <1>2 DEF InTransaction, HoldsMutex
  <1>5. accepted' \in 0..MaxRequests
    BY <1>1 DEF ServiceTypeOK
  <1>6. QED
    BY <1>2, <1>3, <1>4, <1>5, QuietKeepsIInv DEF QuietStep

\* A request is taken by an idle worker.
LEMMA AcceptKeeps ==
  ASSUME IInv, NEW w \in Worker, NEW r \in Requests, Accept(w, r),
         UNCHANGED console
  PROVE  IInv'
  <1>1. ServiceTypeOK
    BY DEF IInv, TypeOK
  <1>2. /\ OnlyWorker(w)
        /\ pc'[w] = "start" /\ req'[w] = r /\ loc'[w] = loc[w]
    <2>1. "start" \in PC
      BY DEF PC
    <2>2. /\ pc' = [pc EXCEPT ![w] = "start"]
          /\ req' = [req EXCEPT ![w] = r]
          /\ resp' = [resp EXCEPT ![w] = NULL]
          /\ loc' = loc
      BY DEF Accept
    <2>3. QED
      BY <1>1, <2>1, <2>2 DEF OnlyWorker, ServiceTypeOK
  <1>3. HandlerOK(pc'[w], req'[w], loc'[w])
    BY <1>2 DEF HandlerOK, Creating
  <1>4. accepted' \in 0..MaxRequests /\ faults' \in 0..MaxFaults
    BY <1>1, ServiceAssumption
       DEF Accept, ServiceTypeOK, IInv, TypeOK, TablesTypeOK
  <1>5. ~InTransaction(w) /\ ~InTransaction(w)' /\ ~HoldsMutex(w)'
    BY <1>2 DEF Accept, InTransaction, HoldsMutex
  <1>6. UNCHANGED <<tables, conn, lock, txn, crashes, console>>
    BY DEF Accept, session
  <1>7. QED
    BY <1>2, <1>3, <1>4, <1>5, <1>6, QuietKeepsIInv DEF QuietStep

\* The checks that need no query.
LEMMA StartKeeps ==
  ASSUME IInv, NEW w \in Worker, Start(w), UNCHANGED console
  PROVE  IInv'
  <1> DEFINE r == req[w]
  <1>1. /\ ~InTransaction(w) /\ r \in Requests /\ r \in Request
        /\ UNCHANGED <<tables, conn, lock, txn, accepted, crashes, console>>
        /\ faults' \in 0..MaxFaults
    <2>1. pc[w] = "start" /\ UNCHANGED <<session, accepted, faults, crashes, tables>>
      BY DEF Start
    <2>2. r \in Requests
      BY <2>1 DEF IInv, HandlerInv, HandlerOK
    <2>3. QED
      BY <2>1, <2>2, ServiceAssumption
         DEF InTransaction, session, IInv, TypeOK, TablesTypeOK
  <1>2. CASE \E code \in ErrorCode : Refuse(w, code)
    BY <1>1, <1>2, QuietReply DEF Refuse
  <1>3. CASE /\ r.op = "create" /\ ShapeError(r) = "none"
             /\ Goto(w, "restaurant", Fresh)
    <2>1. HandlerOK("restaurant", r, Fresh)
      BY <1>1, <1>3 DEF HandlerOK, Creating
    <2>2. QED
      BY <1>1, <1>3, <2>1, FreshType, QuietGoto DEF PC
  <1>4. CASE Goto(w, "find", [Fresh EXCEPT !.cur = r.id])
    <2>1. [Fresh EXCEPT !.cur = r.id] \in Local
      BY <1>1, FreshType, LocalUpdate DEF Request
    <2>2. HandlerOK("find", r, [Fresh EXCEPT !.cur = r.id])
      BY <1>1 DEF HandlerOK, Creating, Fresh, Request
    <2>3. [Fresh EXCEPT !.cur = r.id].phase = "load"
      BY DEF Fresh
    <2>4. QED
      BY <1>1, <1>4, <2>1, <2>2, <2>3, QuietGoto DEF PC
  <1>5. CASE Goto(w, "list", Fresh)
    <2>1. HandlerOK("list", r, Fresh)
      BY <1>1 DEF HandlerOK, Creating
    <2>2. QED
      BY <1>1, <1>5, <2>1, FreshType, QuietGoto DEF PC
  <1>6. QED
    <2>1. ShapeError(r) # "none" => ShapeError(r) \in ErrorCode
      BY DEF ShapeError, ErrorCode
    <2>2. {"DB_UNAVAILABLE", "FORBIDDEN"} \subseteq ErrorCode
      BY DEF ErrorCode
    <2>3. QED
      BY <1>2, <1>3, <1>4, <1>5, <2>1, <2>2 DEF Start
\* What the invariant says of a worker that serves a request.
LEMMA AtWork ==
  ASSUME IInv, NEW w \in Worker, pc[w] # "idle"
  PROVE  /\ HandlerOK(pc[w], req[w], loc[w])
         /\ req[w] \in Requests /\ req[w] \in Request
         /\ loc[w] \in Local
         /\ ServiceTypeOK /\ TablesTypeOK
  <1>1. HandlerOK(pc[w], req[w], loc[w])
    BY DEF IInv, HandlerInv
  <1>2. req[w] \in Requests
    BY <1>1 DEF HandlerOK
  <1>3. QED
    BY <1>1, <1>2, ServiceAssumption DEF IInv, TypeOK, ServiceTypeOK

\* The restaurant is looked up.
LEMMA FindRestaurantKeeps ==
  ASSUME IInv, NEW w \in Worker, FindRestaurant(w), UNCHANGED console
  PROVE  IInv'
  <1>1. /\ pc[w] = "restaurant" /\ ~InTransaction(w)
        /\ UNCHANGED <<tables, conn, lock, txn, accepted, crashes, console>>
    BY DEF FindRestaurant, InTransaction, session
  <1>2. faults' \in 0..MaxFaults
    BY FaultType DEF FindRestaurant, IInv
  <1>3. CASE Refuse(w, "RESTAURANT_NOT_FOUND")
    BY <1>1, <1>2, <1>3, QuietReply DEF Refuse, ErrorCode
  <1>4. CASE req[w].rest \in restaurants /\ Goto(w, "menu", Fresh)
    <2>1. HandlerOK("menu", req[w], Fresh)
      BY <1>1, <1>4, AtWork DEF HandlerOK, Creating, TablesTypeOK
    <2>2. QED
      BY <1>1, <1>2, <1>4, <2>1, FreshType, QuietGoto DEF PC
  <1>5. QED
    BY <1>3, <1>4 DEF FindRestaurant

\* The lines of an accepted shape that are on the menu of r, priced: lines of
\* an order, all of them foods of r.
LEMMA PricedLines ==
  ASSUME TablesTypeOK, NEW q \in Request, ShapeError(q) = "none",
         OnMenu(q.lines, MenuRows(q.rest))
  PROVE  /\ Priced(q.lines) \in Seq(Line)
         /\ Priced(q.lines) # << >>
         /\ \A k \in 1..Len(Priced(q.lines)) :
              FoodOf[Priced(q.lines)[k].food] = q.rest
  <1> DEFINE ls == q.lines
  <1>1. ls \in Seq([food : Food, qty : Int]) /\ Len(ls) \in Nat
    BY DEF Request
  <1>2. \A k \in 1..Len(ls) : ls[k] \in [food : Food, qty : Int]
    BY <1>1, ElementOfSeq
  <1>3. ls # << >> /\ \A k \in 1..Len(ls) : ls[k].qty > 0
    <2>1. ls # << >> /\ ~ \E k \in 1..Len(ls) : ls[k].qty <= 0
      BY DEF ShapeError
    <2>2. \A k \in 1..Len(ls) : ls[k].qty \in Int
      BY <1>2
    <2>3. QED
      BY <2>1, <2>2
  <1>4. ASSUME NEW k \in 1..Len(ls)
        PROVE  /\ ls[k].food \in Food /\ FoodOf[ls[k].food] = q.rest
               /\ foods[ls[k].food] \in Price
               /\ ls[k].qty \in Nat \ {0}
    <2>1. ls[k].food \in MenuRows(q.rest)
      BY DEF OnMenu
    <2>2. ls[k].food \in Food /\ ls[k].qty \in Int /\ ls[k].qty > 0
      BY <1>2, <1>3
    <2>3. QED
      BY <2>1, <2>2 DEF MenuRows, TablesTypeOK
  <1>5. \A k \in 1..Len(ls) :
          [food |-> ls[k].food, price |-> foods[ls[k].food], qty |-> ls[k].qty]
            \in Line
    BY <1>4 DEF Line
  <1>6. Priced(ls) \in [1..Len(ls) -> Line]
    BY <1>5 DEF Priced
  <1>7. Priced(ls) \in Seq(Line) /\ Len(Priced(ls)) = Len(ls)
    BY <1>1, <1>6
  <1>8. Len(ls) > 0
    BY <1>1, <1>3
  <1>9. \A k \in 1..Len(ls) : Priced(ls)[k].food = ls[k].food
    BY DEF Priced
  <1>10. QED
    BY <1>4, <1>7, <1>8, <1>9

\* The menu is read and the lines are priced from it.
LEMMA LoadMenuKeeps ==
  ASSUME IInv, NEW w \in Worker, LoadMenu(w), UNCHANGED console
  PROVE  IInv'
  <1> DEFINE r == req[w]
  <1>1. /\ pc[w] = "menu" /\ ~InTransaction(w)
        /\ UNCHANGED <<tables, conn, lock, txn, accepted, crashes, console>>
    BY DEF LoadMenu, InTransaction, session
  <1>2. faults' \in 0..MaxFaults
    BY FaultType DEF LoadMenu, IInv
  <1>3. CASE Refuse(w, "MENU_ITEM_MISMATCH")
    BY <1>1, <1>2, <1>3, QuietReply DEF Refuse, ErrorCode
  <1>4. CASE /\ OnMenu(r.lines, MenuRows(r.rest))
             /\ Goto(w, "begin", [Fresh EXCEPT !.cart = Priced(r.lines)])
    <2> DEFINE l == [Fresh EXCEPT !.cart = Priced(r.lines)]
    <2>1. HandlerOK("menu", r, loc[w]) /\ r \in Requests /\ r \in Request
          /\ TablesTypeOK
      BY <1>1, AtWork
    <2>2. r.op = "create" /\ ShapeError(r) = "none" /\ r.rest \in Restaurant
      BY <2>1 DEF HandlerOK, Creating
    <2>3. /\ Priced(r.lines) \in Seq(Line)
          /\ Priced(r.lines) # << >>
          /\ \A k \in 1..Len(Priced(r.lines)) :
               FoodOf[Priced(r.lines)[k].food] = r.rest
      BY <2>1, <2>2, <1>4, PricedLines
    <2>4. l \in Local
      BY <2>3, FreshType, LocalUpdate
    <2>5. l.cart = Priced(r.lines)
      BY DEF Fresh
    <2>6. HandlerOK("begin", r, l)
      <3> HIDE DEF l
      <3> QED
        BY <2>1, <2>2, <2>3, <2>5 DEF HandlerOK, Creating
    <2>7. QED
      BY <1>1, <1>2, <1>4, <2>4, <2>6, QuietGoto DEF PC
  <1>5. QED
    BY <1>3, <1>4 DEF LoadMenu
\* The header read by the first SELECT of findOrderById is a typed order.
LEMMA HeaderType ==
  ASSUME TablesTypeOK, NEW i \in OrderId, Exists(i)
  PROVE  HeaderOf(i) \in OrderDto
  <1>1. orders[i] \in OrderRow
    BY DEF TablesTypeOK, Exists
  <1>2. << >> \in Seq(Line) /\ 0 \in StoredRating
    BY DEF StoredRating
  <1>3. QED
    BY <1>1, <1>2 DEF HeaderOf, OrderDto, OrderRow

\* findOrderById returns a typed order, with or without its lines.
LEMMA ReadType ==
  ASSUME IInv, NEW w \in Worker, pc[w] = "lines"
  PROVE  /\ Whole(w) \in OrderDto
         /\ loc[w].half \in OrderDto
  <1>1. loc[w].half \in OrderDto /\ loc[w].cur \in OrderId /\ TablesTypeOK
    BY AtWork DEF HandlerOK
  <1>2. Exists(loc[w].cur) => orders[loc[w].cur].items \in Seq(Line)
    <2>1. Exists(loc[w].cur) => orders[loc[w].cur] \in OrderRow
      BY <1>1 DEF TablesTypeOK, Exists
    <2>2. QED
      BY <2>1 DEF OrderRow
  <1>3. << >> \in Seq(Line)
    OBVIOUS
  <1>4. QED
    BY <1>1, <1>2, <1>3 DEF Whole, OrderDto

\* The header of an order is read.
LEMMA FindHeaderKeeps ==
  ASSUME IInv, NEW w \in Worker, FindHeader(w), UNCHANGED console
  PROVE  IInv'
  <1> DEFINE i == loc[w].cur
             l == [loc[w] EXCEPT !.half = HeaderOf(i)]
  <1>1. /\ pc[w] = "find" /\ ~InTransaction(w) /\ Exists(i)
        /\ Goto(w, "lines", l)
        /\ lock \in {NULL, w} /\ lock' = w
        /\ UNCHANGED <<tables, conn, txn, accepted, crashes, console>>
    BY DEF FindHeader, InTransaction, MayEnter
  <1>2. faults' \in 0..MaxFaults
    BY FaultType DEF FindHeader, IInv
  <1>3. /\ HandlerOK("find", req[w], loc[w]) /\ loc[w] \in Local
        /\ i \in OrderId /\ TablesTypeOK
    BY <1>1, AtWork DEF HandlerOK
  <1>4. HeaderOf(i) \in OrderDto
    BY <1>1, <1>3, HeaderType
  <1>5. l \in Local
    BY <1>3, <1>4, LocalUpdate
  <1>6. /\ l.half = HeaderOf(i) /\ l.cur = i /\ l.phase = loc[w].phase
        /\ l.cart = loc[w].cart /\ l.dto = loc[w].dto
    BY <1>3 DEF Local
  <1>7. HandlerOK("lines", req[w], l)
    <2> HIDE DEF l
    <2> QED
      BY <1>3, <1>4, <1>6 DEF HandlerOK, Creating
  <1>8. QED
    BY <1>1, <1>2, <1>5, <1>7, QuietGoto DEF PC

\* A list goes on to its next order or answers.
LEMMA ListNextKeeps ==
  ASSUME IInv, NEW w \in Worker, NEW os \in SUBSET OrderDto, ListNext(w, os),
         pc[w] \in {"find", "lines"}, loc[w].phase = "list", lock \in {NULL, w},
         faults' \in 0..MaxFaults,
         UNCHANGED <<tables, conn, txn, accepted, crashes, console>>
  PROVE  IInv'
  <1>1. ~InTransaction(w)
    BY DEF InTransaction
  <1>2. CASE Reply(w, "OK", os) /\ lock' = NULL
    BY <1>1, <1>2, QuietReply
  <1>3. ASSUME NEW i \in loc[w].todo, lock' = w,
               Goto(w, "find", [loc[w] EXCEPT !.cur = i, !.todo = @ \ {i},
                                              !.found = os, !.half = NULL])
        PROVE  IInv'
    <2> DEFINE l == [loc[w] EXCEPT !.cur = i, !.todo = @ \ {i},
                                   !.found = os, !.half = NULL]
    <2>1. HandlerOK(pc[w], req[w], loc[w]) /\ loc[w] \in Local
          /\ req[w] \in Requests
      BY AtWork
    <2>2. i \in OrderId
      BY <2>1 DEF Local
    <2>3. l \in Local /\ l.phase = "list" /\ l.cur = i
      BY <2>1, <2>2 DEF Local
    <2>4. HandlerOK("find", req[w], l)
      <3> HIDE DEF l
      <3> QED
        BY <2>1, <2>2, <2>3 DEF HandlerOK, Creating
    <2>5. QED
      <3> HIDE DEF l
      <3>1. Goto(w, "find", l)
        BY <1>3 DEF l
      <3> QED
        BY <1>1, <1>3, <2>3, <2>4, <3>1, QuietGoto DEF PC
  <1>4. QED
    BY <1>2, <1>3 DEF ListNext
\* What a handler answers when it cannot read the order back is typed.
LEMMA FallbackType ==
  ASSUME IInv, NEW w \in Worker, pc[w] = "find", loc[w].phase = "reread"
  PROVE  Fallback(w) \in OrderDto
  <1> DEFINE r == req[w]
             l == loc[w]
  <1>1. /\ r \in Request /\ l \in Local
        /\ l.cur \in OrderId
        /\ r.op \in {"create", "update", "rate"}
        /\ r.op = "create" => Total(l.cart) \in 0..MaxTotal
        /\ r.op = "update" => l.dto \in OrderDto /\ r.status \in Status
        /\ r.op = "rate" => l.dto \in OrderDto /\ r.rating \in 1..5
    BY AtWork DEF HandlerOK
  <1>2. CASE r.op = "create"
    <2>1. Fallback(w) =
            [id |-> l.cur, owner |-> r.user, rest |-> r.rest,
             status |-> "Pending", rating |-> 0, total |-> Total(l.cart),
             items |-> l.cart]
      BY <1>2 DEF Fallback
    <2>2. r.user \in User /\ r.rest \in Restaurant \cup {NULL}
      BY <1>1 DEF Request
    <2>3. l.cart \in Seq(Line)
      BY <1>1 DEF Local
    <2>4. "Pending" \in Status /\ 0 \in StoredRating
      BY DEF Status, StoredRating
    <2>5. QED
      BY <1>1, <1>2, <2>1, <2>2, <2>3, <2>4 DEF OrderDto
  <1>3. CASE r.op = "update"
    <2>1. Fallback(w) = [l.dto EXCEPT !.status = r.status]
      BY <1>3 DEF Fallback
    <2>2. QED
      BY <1>1, <1>3, <2>1 DEF OrderDto
  <1>4. CASE r.op = "rate"
    <2>1. Fallback(w) = [l.dto EXCEPT !.rating = r.rating]
      BY <1>4 DEF Fallback
    <2>2. r.rating \in StoredRating
      BY <1>1, <1>4 DEF StoredRating
    <2>3. QED
      BY <1>1, <1>4, <2>1, <2>2 DEF OrderDto
  <1>5. QED
    BY <1>1, <1>2, <1>3, <1>4

\* findOrderById finds nothing.
LEMMA FindNothingKeeps ==
  ASSUME IInv, NEW w \in Worker, FindNothing(w), UNCHANGED console
  PROVE  IInv'
  <1>1. /\ pc[w] = "find" /\ ~InTransaction(w) /\ lock \in {NULL, w}
        /\ UNCHANGED <<tables, conn, txn, accepted, crashes, console>>
    BY DEF FindNothing, InTransaction, MayEnter
  <1>2. faults' \in 0..MaxFaults
    BY FaultType DEF FindNothing, IInv
  <1>3. CASE Refuse(w, "ORDER_NOT_FOUND") /\ lock' = lock
    BY <1>1, <1>2, <1>3, QuietReply DEF Refuse, ErrorCode
  <1>4. CASE /\ loc[w].phase = "reread" /\ lock' = lock
             /\ Reply(w, "OK", {Fallback(w)})
    <2>1. {Fallback(w)} \in SUBSET OrderDto
      BY <1>1, <1>4, FallbackType
    <2>2. QED
      BY <1>1, <1>2, <1>4, <2>1, QuietReply
  <1>5. CASE loc[w].phase = "list" /\ ListNext(w, loc[w].found)
    <2>1. loc[w].found \in SUBSET OrderDto
      BY <1>1, AtWork DEF Local
    <2>2. QED
      BY <1>1, <1>2, <1>5, <2>1, ListNextKeeps
  <1>6. QED
    BY <1>3, <1>4, <1>5 DEF FindNothing

\* What the reads have in common: the order they return and the mutex that
\* findOrderById then releases.
LEMMA ReadFacts ==
  ASSUME IInv, NEW w \in Worker, pc[w] = "lines",
         NEW d \in {Whole(w), loc[w].half}, FindReturns(w, d)
  PROVE  /\ d \in OrderDto /\ ~InTransaction(w) /\ lock = w
         /\ faults' \in 0..MaxFaults
         /\ UNCHANGED <<tables, conn, txn, accepted, crashes>>
  <1>1. d \in OrderDto
    BY ReadType
  <1>2. lock = w /\ ~InTransaction(w)
    BY DEF IInv, MutexInv, HoldsMutex, InTransaction
  <1>3. faults' \in 0..MaxFaults
    BY FaultType DEF FindReturns, IInv
  <1>4. QED
    BY <1>1, <1>2, <1>3 DEF FindReturns

\* getOrder answers.
LEMMA GetOrderKeeps ==
  ASSUME IInv, NEW w \in Worker, GetOrder(w), UNCHANGED console
  PROVE  IInv'
  <1>1. PICK d \in {Whole(w), loc[w].half} :
          /\ FindReturns(w, d)
          /\ lock' = NULL
          /\ Reply(w, "OK", {d}) \/ Reply(w, "ORDER_NOT_FOUND", {})
    BY DEF GetOrder, Refuse
  <1>2. pc[w] = "lines"
    BY DEF GetOrder, Reading
  <1>3. /\ d \in OrderDto /\ ~InTransaction(w) /\ lock = w
        /\ faults' \in 0..MaxFaults
        /\ UNCHANGED <<tables, conn, txn, accepted, crashes>>
    BY <1>1, <1>2, ReadFacts
  <1>4. {d} \in SUBSET OrderDto /\ {} \in SUBSET OrderDto
    BY <1>3
  <1>5. QED
    BY <1>1, <1>3, <1>4, QuietReply DEF ErrorCode

\* An order is read back.
LEMMA RereadKeeps ==
  ASSUME IInv, NEW w \in Worker, Reread(w), UNCHANGED console
  PROVE  IInv'
  <1>1. PICK d \in {Whole(w), loc[w].half} :
          FindReturns(w, d) /\ lock' = NULL /\ Reply(w, "OK", {d})
    BY DEF Reread
  <1>2. pc[w] = "lines"
    BY DEF Reread, Reading
  <1>3. /\ d \in OrderDto /\ ~InTransaction(w) /\ lock = w
        /\ faults' \in 0..MaxFaults
        /\ UNCHANGED <<tables, conn, txn, accepted, crashes>>
    BY <1>1, <1>2, ReadFacts
  <1>4. {d} \in SUBSET OrderDto
    BY <1>3
  <1>5. QED
    BY <1>1, <1>3, <1>4, QuietReply

\* One order of a list is read.
LEMMA ListOneKeeps ==
  ASSUME IInv, NEW w \in Worker, ListOne(w), UNCHANGED console
  PROVE  IInv'
  <1>1. PICK d \in {Whole(w), loc[w].half} :
          FindReturns(w, d) /\ ListNext(w, loc[w].found \cup {d})
    BY DEF ListOne
  <1>2. pc[w] = "lines" /\ loc[w].phase = "list"
    BY DEF ListOne, Reading
  <1>3. /\ d \in OrderDto /\ ~InTransaction(w) /\ lock = w
        /\ faults' \in 0..MaxFaults
        /\ UNCHANGED <<tables, conn, txn, accepted, crashes>>
    BY <1>1, <1>2, ReadFacts
  <1>4. loc[w].found \cup {d} \in SUBSET OrderDto
    BY <1>2, <1>3, AtWork DEF Local
  <1>5. QED
    BY <1>1, <1>2, <1>3, <1>4, ListNextKeeps

\* A handler that keeps the order it read goes on to its UPDATE.
LEMMA WriteNextKeeps ==
  ASSUME IInv, NEW w \in Worker, pc[w] = "lines", UNCHANGED console,
         NEW d \in {Whole(w), loc[w].half}, FindReturns(w, d), lock' = NULL,
         Goto(w, "write", [loc[w] EXCEPT !.dto = d]),
         \/ req[w].op = "update" /\ req[w].status \in Status
         \/ req[w].op = "rate" /\ req[w].rating \in 1..5
  PROVE  IInv'
  <1> DEFINE l == [loc[w] EXCEPT !.dto = d]
  <1>1. /\ d \in OrderDto /\ ~InTransaction(w) /\ lock = w
        /\ faults' \in 0..MaxFaults
        /\ UNCHANGED <<tables, conn, txn, accepted, crashes>>
    BY ReadFacts
  <1>2. /\ HandlerOK("lines", req[w], loc[w]) /\ loc[w] \in Local
        /\ req[w] \in Requests
    BY AtWork
  <1>3. l \in Local /\ l.dto = d /\ l.cur = loc[w].cur
    BY <1>1, <1>2, LocalUpdate DEF Local
  <1>4. HandlerOK("write", req[w], l)
    <2> HIDE DEF l
    <2> QED
      BY <1>1, <1>2, <1>3 DEF HandlerOK, Creating
  <1>5. QED
    BY <1>1, <1>3, <1>4, QuietGoto DEF PC

\* updateStatus checks the transition.
LEMMA CheckUpdateKeeps ==
  ASSUME IInv, NEW w \in Worker, CheckUpdate(w), UNCHANGED console
  PROVE  IInv'
  <1>1. PICK d \in {Whole(w), loc[w].half} :
          /\ FindReturns(w, d)
          /\ lock' = NULL
          /\ IF isValidTransition(d.status, req[w].status)
             THEN Goto(w, "write", [loc[w] EXCEPT !.dto = d])
             ELSE Refuse(w, "INVALID_STATUS_TRANSITION")
    BY DEF CheckUpdate
  <1>2. pc[w] = "lines" /\ req[w].op = "update"
    BY DEF CheckUpdate, Reading
  <1>3. CASE Refuse(w, "INVALID_STATUS_TRANSITION")
    BY <1>1, <1>2, <1>3, ReadFacts, QuietReply DEF Refuse, ErrorCode
  <1>4. CASE isValidTransition(d.status, req[w].status)
    <2>1. req[w].status \in Status
      BY <1>4 DEF isValidTransition, kTransitions, Status
    <2>2. QED
      BY <1>1, <1>2, <1>4, <2>1, WriteNextKeeps
  <1>5. QED
    BY <1>1, <1>3, <1>4

\* rateOrder checks the order and the rating.
LEMMA CheckRateKeeps ==
  ASSUME IInv, NEW w \in Worker, CheckRate(w), UNCHANGED console
  PROVE  IInv'
  <1>1. PICK d \in {Whole(w), loc[w].half} :
          /\ FindReturns(w, d)
          /\ lock' = NULL
          /\ IF RateError(w, d) = "none"
             THEN Goto(w, "write", [loc[w] EXCEPT !.dto = d])
             ELSE Refuse(w, RateError(w, d))
    BY DEF CheckRate
  <1>2. pc[w] = "lines" /\ req[w].op = "rate"
    BY DEF CheckRate, Reading
  <1>3. CASE RateError(w, d) # "none"
    <2>1. RateError(w, d) \in ErrorCode
      BY <1>3 DEF RateError, ErrorCode
    <2>2. QED
      BY <1>1, <1>2, <1>3, <2>1, ReadFacts, QuietReply DEF Refuse
  <1>4. CASE RateError(w, d) = "none"
    <2>1. req[w].rating \in 1..5
      <3>1. req[w].rating \in Int
        BY <1>2, AtWork DEF Request
      <3>2. isValidRating(req[w].rating)
        BY <1>4 DEF RateError
      <3>3. QED
        BY <3>1, <3>2 DEF isValidRating
    <2>2. QED
      BY <1>1, <1>2, <1>4, <2>1, WriteNextKeeps
  <1>5. QED
    BY <1>3, <1>4

\* The ids of a list are read.
LEMMA ListIdsKeeps ==
  ASSUME IInv, NEW w \in Worker, ListIds(w), UNCHANGED console
  PROVE  IInv'
  <1>1. /\ pc[w] = "list" /\ ~InTransaction(w) /\ lock \in {NULL, w}
        /\ UNCHANGED <<tables, conn, txn, accepted, crashes, console>>
    BY DEF ListIds, InTransaction, MayEnter
  <1>2. faults' \in 0..MaxFaults
    BY FaultType DEF ListIds, IInv
  <1>3. CASE Reply(w, "OK", {}) /\ lock' = lock
    BY <1>1, <1>2, <1>3, QuietReply
  <1>4. ASSUME NEW i \in Visible(w), lock' = w,
               Goto(w, "find", [loc[w] EXCEPT !.phase = "list", !.cur = i,
                                              !.todo = Visible(w) \ {i}])
        PROVE  IInv'
    <2> DEFINE l == [loc[w] EXCEPT !.phase = "list", !.cur = i,
                                   !.todo = Visible(w) \ {i}]
    <2>1. loc[w] \in Local /\ req[w] \in Requests
      BY <1>1, AtWork
    <2>2. Visible(w) \in SUBSET OrderId
      BY DEF Visible
    <2>3. l \in Local /\ l.phase = "list" /\ l.cur = i /\ i \in OrderId
      BY <2>1, <2>2 DEF Local
    <2> HIDE DEF l
    <2>4. HandlerOK("find", req[w], l)
      BY <2>1, <2>3 DEF HandlerOK, Creating
    <2>5. Goto(w, "find", l)
      BY <1>4 DEF l
    <2>6. QED
      BY <1>1, <1>2, <1>4, <2>3, <2>4, <2>5, QuietGoto DEF PC
  <1>5. QED
    BY <1>3, <1>4 DEF ListIds
-----------------------------------------------------------------------------
(***************************************************************************)
(* The transaction of createOrder.                                         *)
(***************************************************************************)
\* While w holds the mutex or nobody does, no other worker is inside a method
\* that needs it.
LEMMA OthersOut ==
  ASSUME IInv, NEW w \in Worker, lock \in {NULL, w}
  PROVE  \A v \in Worker \ {w} : ~HoldsMutex(v) /\ ~InTransaction(v)
  <1>1. ASSUME NEW v \in Worker \ {w}, HoldsMutex(v) PROVE FALSE
    <2>1. lock = v
      BY <1>1 DEF IInv, MutexInv
    <2>2. QED
      BY <2>1, ServiceAssumption
  <1>2. QED
    BY <1>1 DEF HoldsMutex

\* A step of the worker that owns the mutex, or takes it, keeps the invariant
\* if it leaves the tables right and, when it leaves a transaction open, is
\* itself at the program point that the transaction belongs to.
LEMMA TxnStep ==
  ASSUME IInv, NEW w \in Worker, OnlyWorker(w), UNCHANGED console,
         lock \in {NULL, w}, lock' \in {NULL, w},
         HandlerOK(pc'[w], req'[w], loc'[w]),
         HoldsMutex(w)' => lock' = w,
         TxnOK(pc'[w], req'[w], loc'[w].cart, txn'),
         txn' # NULL => lock' = w /\ InTransaction(w)',
         conn' = "up" /\ InTransaction(w)' => txn' # NULL,
         txn' # NULL /\ txn'.id # NULL => txn'.id < nextId',
         TablesTypeOK', ServiceTypeOK', ConsoleInv', RestOrdersWhole'
  PROVE  IInv'
  <1>1. TypeOK'
    BY DEF IInv, TypeOK, CliTypeOK, console
  <1>2. HandlerInv'
    BY HandlerStep DEF IInv
  <1>3. \A v \in Worker \ {w} : ~HoldsMutex(v)' /\ ~InTransaction(v)'
    BY OthersOut DEF OnlyWorker, HoldsMutex, InTransaction
  <1>4. MutexInv'
    BY <1>3 DEF MutexInv
  <1>5. TransactionGuarded'
    BY DEF TransactionGuarded
  <1>6. TxnInv'
    <2>1. ASSUME NEW v \in Worker
          PROVE  TxnOK(pc'[v], req'[v], loc'[v].cart, txn')
      <3>1. CASE v = w
        BY <3>1
      <3>2. CASE v # w
        BY <3>2, <1>3 DEF TxnOK, InTransaction
      <3>3. QED
        BY <3>1, <3>2
    <2>2. conn' = "up" => \A v \in Worker : InTransaction(v)' => txn' # NULL
      BY <1>3
    <2>3. QED
      BY <2>1, <2>2 DEF TxnInv
  <1>7. QED
    BY <1>1, <1>2, <1>4, <1>5, <1>6 DEF IInv

\* A worker in its transaction owns the mutex, and the transaction is open
\* as long as the connection is.
LEMMA InTxn ==
  ASSUME IInv, NEW w \in Worker, InTransaction(w)
  PROVE  lock = w /\ (conn = "up" => txn # NULL) /\ pc[w] # "idle"
  BY DEF IInv, MutexInv, TxnInv, HoldsMutex, InTransaction

\* ROLLBACK undoes everything: nothing of the order is in the tables.
LEMMA AbortKeeps ==
  ASSUME IInv, NEW w \in Worker, InTransaction(w), Abort(w),
         conn' \in {"null", "up", "lost"}, accepted' = accepted,
         TablesTypeOK', RestOrdersWhole', ConsoleInv', UNCHANGED console
  PROVE  IInv'
  <1>1. ServiceTypeOK /\ lock = w
    BY InTxn DEF IInv, TypeOK
  <1>2. Reply(w, "DB_ERROR", {}) /\ lock' = NULL /\ txn' = NULL
    BY DEF Abort, Refuse
  <1>3. /\ OnlyWorker(w)
        /\ pc'[w] = "idle" /\ req'[w] = req[w] /\ loc'[w] = Fresh
    BY <1>1, <1>2, ReplyFacts DEF ErrorCode
  <1>4. ~InTransaction(w)' /\ ~HoldsMutex(w)'
    BY <1>3 DEF InTransaction, HoldsMutex
  <1>5. ServiceTypeOK'
    BY <1>1, <1>2, <1>3 DEF ServiceTypeOK, OnlyWorker
  <1>6. HandlerOK(pc'[w], req'[w], loc'[w])
    BY <1>3, IdleOK
  <1>7. TxnOK(pc'[w], req'[w], loc'[w].cart, txn')
    BY <1>3 DEF TxnOK
  <1>8. QED
    BY <1>1, <1>2, <1>3, <1>4, <1>5, <1>6, <1>7, TxnStep

\* A statement that fails, and the ROLLBACK after it, leave the tables alone.
LEMMA FailedAbortKeeps ==
  ASSUME IInv, NEW w \in Worker, InTransaction(w), Abort(w),
         Succeeds \/ Fails,
         UNCHANGED <<tables, conn, accepted, crashes, console>>
  PROVE  IInv'
  <1>1. TablesTypeOK'
    BY FaultType DEF IInv, TypeOK, TablesTypeOK, tables
  <1>2. RestOrdersWhole'
    BY DEF IInv, RestOrdersWhole, Exists, tables
  <1>3. ConsoleInv'
    BY DEF IInv, ConsoleInv, Exists, tables, console, Abort
  <1>4. conn' \in {"null", "up", "lost"}
    BY DEF IInv, TypeOK, ServiceTypeOK
  <1>5. QED
    BY <1>1, <1>2, <1>3, <1>4, AbortKeeps

\* A transaction starts; none was open.
LEMMA BeginKeeps ==
  ASSUME IInv, NEW w \in Worker, Begin(w), UNCHANGED console
  PROVE  IInv'
  <1>1. pc[w] = "begin" /\ ~InTransaction(w) /\ lock \in {NULL, w}
    BY DEF Begin, InTransaction, MayEnter
  <1>2. faults' \in 0..MaxFaults
    BY FaultType DEF Begin, IInv
  <1>3. txn = NULL
    BY <1>1, OthersOut, ServiceAssumption DEF IInv, TransactionGuarded
  <1>4. UNCHANGED <<tables, conn, accepted, crashes>>
    BY <1>3 DEF Begin, tables
  <1>5. CASE Refuse(w, "DB_ERROR") /\ lock' = lock /\ txn' = txn
    BY <1>1, <1>2, <1>4, <1>5, QuietReply DEF Refuse, ErrorCode
  <1>6. CASE /\ lock' = w /\ txn' = [id |-> NULL, row |-> NULL]
             /\ Goto(w, "header", loc[w])
    <2>1. /\ HandlerOK("begin", req[w], loc[w]) /\ loc[w] \in Local
          /\ ServiceTypeOK
      BY <1>1, AtWork
    <2>2. /\ OnlyWorker(w)
          /\ pc'[w] = "header" /\ req'[w] = req[w] /\ loc'[w] = loc[w]
      BY <1>6, <2>1, GotoFacts DEF PC
    <2>3. HandlerOK(pc'[w], req'[w], loc'[w])
      BY <2>1, <2>2 DEF HandlerOK, Creating
    <2>4. TablesTypeOK' /\ RestOrdersWhole'
      BY <1>2, <1>4
         DEF IInv, TypeOK, TablesTypeOK, RestOrdersWhole, Exists, tables
    <2>5. txn' # NULL /\ txn' \in Transaction /\ txn'.id = NULL
      BY <1>6, ServiceAssumption DEF Transaction
    <2>6. ServiceTypeOK'
      BY <1>4, <1>6, <2>1, <2>2, <2>5 DEF ServiceTypeOK, OnlyWorker
    <2>7. ConsoleInv'
      <3>1. NULL \notin OrderId
        BY TablesAssumption DEF OrderId
      <3>2. QED
        BY <1>4, <2>5, <3>1 DEF IInv, ConsoleInv, Exists, tables, console
    <2>8. InTransaction(w)' /\ TxnOK(pc'[w], req'[w], loc'[w].cart, txn')
      BY <2>2 DEF InTransaction, TxnOK
    <2>9. QED
      BY <1>1, <1>6, <2>2, <2>3, <2>4, <2>5, <2>6, <2>7, <2>8, TxnStep
  <1>7. QED
    BY <1>5, <1>6 DEF Begin
\* The header of the order is inserted.
LEMMA InsertHeaderKeeps ==
  ASSUME IInv, NEW w \in Worker, InsertHeader(w), UNCHANGED console
  PROVE  IInv'
  <1> DEFINE c == loc[w].cart
             row == Header(req[w].user, req[w].rest, "Pending", Total(c))
  <1>1. /\ pc[w] = "header" /\ InTransaction(w)
        /\ Succeeds \/ Fails
        /\ UNCHANGED <<conn, accepted, crashes, orders, restaurants, foods>>
    BY DEF InsertHeader, InTransaction
  <1>2. CASE Abort(w) /\ nextId' = nextId
    BY <1>1, <1>2, FailedAbortKeeps DEF tables
  <1>3. CASE /\ CanInsert(Total(c))
             /\ txn' = [id |-> nextId, row |-> row]
             /\ nextId' = nextId + 1
             /\ Goto(w, "items", loc[w])
             /\ lock' = lock
    <2>1. /\ HandlerOK("header", req[w], loc[w]) /\ req[w] \in Request
          /\ loc[w] \in Local /\ ServiceTypeOK /\ TablesTypeOK
          /\ lock = w
      BY <1>1, AtWork, InTxn
    <2>2. c \in Seq(Line) /\ c # << >> /\ req[w].rest \in Restaurant
      BY <2>1 DEF HandlerOK, Creating, Local
    <2>3. nextId \in OrderId /\ nextId' \in 1..(MaxOrder + 1)
          /\ Total(c) \in 0..MaxTotal
      BY <1>3, <2>1, TablesAssumption DEF CanInsert, TablesTypeOK, OrderId
    <2>4. /\ row \in OrderRow /\ row.rest = req[w].rest
          /\ row.total = Total(c) /\ row.items = << >>
      <3>1. req[w].user \in User /\ "Pending" \in Status /\ 0 \in StoredRating
        BY <2>1 DEF Request, Status, StoredRating
      <3>2. << >> \in Seq(Line)
        OBVIOUS
      <3>3. QED
        BY <2>2, <2>3, <3>1, <3>2 DEF Header, OrderRow
    <2>5. /\ OnlyWorker(w)
          /\ pc'[w] = "items" /\ req'[w] = req[w] /\ loc'[w] = loc[w]
      BY <1>3, <2>1, GotoFacts DEF PC
    <2> HIDE DEF row
    <2>6. txn'.id = nextId /\ txn'.row = row
          /\ txn' # NULL /\ txn' \in Transaction
      BY <1>3, <2>3, <2>4, ServiceAssumption DEF Transaction
    <2>7. HandlerOK(pc'[w], req'[w], loc'[w])
      BY <2>1, <2>5 DEF HandlerOK, Creating
    <2>8. TxnOK(pc'[w], req'[w], loc'[w].cart, txn')
      <3>1. Len(c) \in Nat /\ Len(c) > 0 /\ Len(row.items) = 0
        BY <2>2, <2>4
      <3>2. QED
        BY <2>3, <2>4, <2>5, <2>6, <3>1 DEF TxnOK
    <2>9. TablesTypeOK' /\ RestOrdersWhole'
      BY <1>1, <2>3, FaultType
         DEF IInv, TypeOK, TablesTypeOK, RestOrdersWhole, Exists
    <2>10. ServiceTypeOK'
      BY <1>1, <1>3, <2>1, <2>5, <2>6 DEF ServiceTypeOK, OnlyWorker
    <2>11. ConsoleInv'
      BY <1>1, <1>3, <2>1, <2>6
         DEF IInv, ConsoleInv, Exists, console, TablesTypeOK, OrderId
    <2>12. InTransaction(w)' /\ txn'.id < nextId'
      BY <1>3, <2>3, <2>5, <2>6 DEF InTransaction, OrderId
    <2>13. QED
      BY <1>3, <2>1, <2>5, <2>6, <2>7, <2>8, <2>9, <2>10, <2>11, <2>12,
         TxnStep
  <1>4. QED
    BY <1>2, <1>3 DEF InsertHeader

\* A line of the order is inserted: the next one of the cart.
LEMMA InsertItemKeeps ==
  ASSUME IInv, NEW w \in Worker, InsertItem(w), UNCHANGED console
  PROVE  IInv'
  <1> DEFINE c == loc[w].cart
             old == txn.row.items
             new == Append(old, c[Len(old) + 1])
             label == IF Len(old) + 1 = Len(c) THEN "commit" ELSE "items"
  <1>1. /\ pc[w] = "items" /\ InTransaction(w)
        /\ Succeeds \/ Fails
        /\ UNCHANGED <<conn, accepted, crashes, tables>>
    BY DEF InsertItem, InTransaction
  <1>2. CASE Abort(w)
    BY <1>1, <1>2, FailedAbortKeeps
  <1>3. CASE /\ Succeeds
             /\ Len(old) < Len(c)
             /\ txn' = [txn EXCEPT !.row.items = Append(@, c[Len(old) + 1])]
             /\ Goto(w, label, loc[w])
             /\ lock' = lock
    <2>1. /\ HandlerOK("items", req[w], loc[w]) /\ req[w] \in Request
          /\ loc[w] \in Local /\ ServiceTypeOK /\ TablesTypeOK
          /\ lock = w
      BY <1>1, AtWork, InTxn
    <2>2. txn # NULL /\ txn \in Transaction
      BY <1>1, <1>3, <2>1, InTxn DEF Succeeds, ServiceTypeOK
    <2>3. /\ txn.id \in OrderId /\ txn.row \in OrderRow
          /\ txn.row.rest = req[w].rest /\ txn.row.total = Total(c)
          /\ \A k \in 1..Len(old) : old[k] = c[k]
      BY <1>1, <2>2 DEF IInv, TxnInv, TxnOK
    <2>4. c \in Seq(Line) /\ old \in Seq(Line)
      BY <2>1, <2>3 DEF Local, OrderRow
    <2>5. Len(c) \in Nat /\ Len(old) \in Nat /\ c[Len(old) + 1] \in Line
      BY <1>3, <2>4, LenProperties, ElementOfSeq
    <2>6. /\ new \in Seq(Line) /\ Len(new) = Len(old) + 1
          /\ \A k \in 1..Len(new) : new[k] = c[k]
      <3>1. /\ new \in Seq(Line) /\ Len(new) = Len(old) + 1
            /\ \A k \in 1..Len(old) : new[k] = old[k]
            /\ new[Len(old) + 1] = c[Len(old) + 1]
        BY <2>4, <2>5, AppendProperties
      <3>2. QED
        BY <2>3, <2>5, <3>1
    <2> HIDE DEF new
    <2>7. txn' = [txn EXCEPT !.row = [txn.row EXCEPT !.items = new]]
      BY <1>3, <2>2, <2>3 DEF new, Transaction, OrderRow
    <2>8. /\ txn'.id = txn.id /\ txn' \in Transaction /\ txn' # NULL
          /\ txn'.row \in OrderRow /\ txn'.row.items = new
          /\ txn'.row.rest = txn.row.rest /\ txn'.row.total = txn.row.total
      <3>1. /\ [txn.row EXCEPT !.items = new] \in OrderRow
            /\ [txn.row EXCEPT !.items = new].items = new
            /\ [txn.row EXCEPT !.items = new].rest = txn.row.rest
            /\ [txn.row EXCEPT !.items = new].total = txn.row.total
        BY <2>3, <2>6 DEF OrderRow
      <3>2. QED
        BY <2>2, <2>7, <3>1, ServiceAssumption DEF Transaction
    <2>9. label \in PC /\ label \in {"items", "commit"}
      BY DEF PC
    <2>10. /\ OnlyWorker(w)
           /\ pc'[w] = label /\ req'[w] = req[w] /\ loc'[w] = loc[w]
      BY <1>3, <2>1, <2>9, GotoFacts
    <2>11. HandlerOK(pc'[w], req'[w], loc'[w])
      BY <2>1, <2>9, <2>10 DEF HandlerOK, Creating
    <2>12. TxnOK(pc'[w], req'[w], loc'[w].cart, txn')
      <3>1. /\ Len(new) <= Len(c)
            /\ label = "items" => Len(new) < Len(c)
            /\ label = "commit" => Len(new) = Len(c)
        BY <1>3, <2>5, <2>6
      <3>2. QED
        BY <2>3, <2>6, <2>8, <2>10, <3>1 DEF TxnOK
    <2>13. TablesTypeOK' /\ RestOrdersWhole'
      BY <1>1, FaultType
         DEF IInv, TypeOK, TablesTypeOK, RestOrdersWhole, Exists, tables
    <2>14. ServiceTypeOK'
      BY <1>1, <1>3, <2>1, <2>8, <2>10 DEF ServiceTypeOK, OnlyWorker
    <2>15. ConsoleInv'
      BY <1>1, <2>2, <2>8 DEF IInv, ConsoleInv, Exists, console, tables
    <2>16. InTransaction(w)'
      BY <2>9, <2>10 DEF InTransaction
    <2>17. txn'.id < nextId'
      <3>1. txn.id # NULL
        BY <2>3, TablesAssumption DEF OrderId
      <3>2. QED
        BY <1>1, <2>2, <2>8, <3>1 DEF IInv, TxnInv, tables
    <2>18. QED
      BY <1>3, <2>1, <2>8, <2>10, <2>11, <2>12, <2>13, <2>14, <2>15, <2>16,
         <2>17, TxnStep
  <1>4. QED
    BY <1>2, <1>3 DEF InsertItem
\* At its COMMIT the transaction holds the whole order: the lines are the ones
\* priced from the menu and the total is theirs.
LEMMA CommitRow ==
  ASSUME IInv, NEW w \in Worker, pc[w] = "commit", txn # NULL
  PROVE  /\ txn.id \in OrderId /\ txn.row \in OrderRow
         /\ txn.row.items # << >>
         /\ txn.row.total = Total(txn.row.items)
         /\ \A k \in 1..Len(txn.row.items) :
              FoodOf[txn.row.items[k].food] = txn.row.rest
         /\ Total(loc[w].cart) \in 0..MaxTotal
  <1> DEFINE c == loc[w].cart
             items == txn.row.items
  <1>1. /\ c \in Seq(Line) /\ c # << >>
        /\ \A k \in 1..Len(c) : FoodOf[c[k].food] = req[w].rest
    BY AtWork DEF HandlerOK, Creating, Local
  <1>2. /\ txn.id \in OrderId /\ txn.row \in OrderRow
        /\ txn.row.rest = req[w].rest /\ txn.row.total = Total(c)
        /\ Len(items) = Len(c)
        /\ \A k \in 1..Len(items) : items[k] = c[k]
    BY DEF IInv, TxnInv, TxnOK
  <1>3. items \in Seq(Line) /\ txn.row.total \in 0..MaxTotal
    BY <1>2 DEF OrderRow
  <1>4. items = c
    BY <1>1, <1>2, <1>3, SeqEqual
  <1>5. QED
    BY <1>1, <1>2, <1>3, <1>4

\* The tables after a COMMIT, whether or not the process learns of it: the new
\* order is whole and no order of the console is touched.
LEMMA Committed ==
  ASSUME IInv, NEW w \in Worker, pc[w] = "commit", txn # NULL,
         orders' = [orders EXCEPT ![txn.id] = txn.row], txn' = NULL,
         UNCHANGED <<nextId, restaurants, foods, console>>,
         faults' \in 0..MaxFaults, crashes' \in 0..MaxCrashes
  PROVE  TablesTypeOK' /\ RestOrdersWhole' /\ ConsoleInv'
  <1>1. /\ txn.id \in OrderId /\ txn.row \in OrderRow
        /\ txn.row.items # << >>
        /\ txn.row.total = Total(txn.row.items)
        /\ \A k \in 1..Len(txn.row.items) :
             FoodOf[txn.row.items[k].food] = txn.row.rest
    BY CommitRow
  <1>2. TablesTypeOK /\ orders \in [OrderId -> OrderRow \cup {NULL}]
    BY DEF IInv, TypeOK, TablesTypeOK
  <1>3. TablesTypeOK'
    BY <1>1, <1>2 DEF TablesTypeOK
  <1>4. orders'[txn.id] = txn.row
        /\ \A i \in OrderId \ {txn.id} : orders'[i] = orders[i]
    BY <1>1, <1>2
  <1>5. RestOrdersWhole'
    <2>1. ASSUME NEW i \in OrderId, Exists(i)', FromRest(orders'[i])
          PROVE  /\ orders'[i].items # << >>
                 /\ orders'[i].total = Total(orders'[i].items)
                 /\ \A k \in 1..Len(orders'[i].items) :
                      FoodOf[orders'[i].items[k].food] = orders'[i].rest
      <3>1. CASE i = txn.id
        BY <1>1, <1>4, <3>1
      <3>2. CASE i # txn.id
        BY <1>4, <2>1, <3>2 DEF IInv, RestOrdersWhole, Exists
      <3>3. QED
        BY <3>1, <3>2
    <2>2. QED
      BY <2>1 DEF RestOrdersWhole
  <1>6. ConsoleInv'
    BY <1>4 DEF IInv, ConsoleInv, Exists, console
  <1>7. QED
    BY <1>3, <1>5, <1>6

\* The transaction is committed.
LEMMA CommitKeeps ==
  ASSUME IInv, NEW w \in Worker, Commit(w), UNCHANGED console
  PROVE  IInv'
  <1> DEFINE l == [loc[w] EXCEPT !.cur = txn.id, !.phase = "reread"]
  <1>1. /\ pc[w] = "commit" /\ InTransaction(w)
        /\ Succeeds \/ Fails
        /\ UNCHANGED <<accepted, nextId, restaurants, foods>>
    BY DEF Commit, InTransaction
  <1>2. /\ faults' \in 0..MaxFaults
        /\ Succeeds => txn # NULL
    BY <1>1, FaultType, InTxn DEF Succeeds, IInv
  <1>3. TablesTypeOK /\ ServiceTypeOK /\ crashes \in 0..MaxCrashes
    BY DEF IInv, TypeOK, TablesTypeOK
  <1>4. CASE Abort(w) /\ UNCHANGED <<conn, crashes, orders>>
    BY <1>1, <1>4, FailedAbortKeeps DEF tables
  <1>5. CASE /\ Succeeds
             /\ crashes < MaxCrashes
             /\ crashes' = crashes + 1
             /\ conn' = "lost"
             /\ orders' = [orders EXCEPT ![txn.id] = txn.row]
             /\ Abort(w)
    <2>1. crashes' \in 0..MaxCrashes /\ txn' = NULL
      BY <1>3, <1>5, TablesAssumption DEF Abort
    <2>2. TablesTypeOK' /\ RestOrdersWhole' /\ ConsoleInv'
      BY <1>1, <1>2, <1>5, <2>1, Committed
    <2>3. QED
      BY <1>1, <1>5, <2>2, AbortKeeps
  <1>6. CASE /\ Succeeds
             /\ orders' = [orders EXCEPT ![txn.id] = txn.row]
             /\ txn' = NULL
             /\ lock' = NULL
             /\ Goto(w, "find", l)
             /\ UNCHANGED <<conn, crashes>>
    <2>1. TablesTypeOK' /\ RestOrdersWhole' /\ ConsoleInv'
      BY <1>1, <1>2, <1>3, <1>6, Committed
    <2>2. txn.id \in OrderId /\ Total(loc[w].cart) \in 0..MaxTotal
      BY <1>1, <1>2, <1>6, CommitRow
    <2>3. /\ HandlerOK("commit", req[w], loc[w]) /\ loc[w] \in Local
          /\ lock = w
      BY <1>1, AtWork, InTxn
    <2>4. /\ l \in Local /\ l.cur = txn.id /\ l.phase = "reread"
          /\ l.cart = loc[w].cart
      BY <2>2, <2>3 DEF Local
    <2> HIDE DEF l
    <2>5. /\ OnlyWorker(w)
          /\ pc'[w] = "find" /\ req'[w] = req[w] /\ loc'[w] = l
      BY <1>3, <1>6, <2>4, GotoFacts DEF PC
    <2>6. HandlerOK(pc'[w], req'[w], loc'[w])
      BY <2>2, <2>3, <2>4, <2>5 DEF HandlerOK, Creating
    <2>7. ~InTransaction(w)' /\ ~HoldsMutex(w)'
          /\ TxnOK(pc'[w], req'[w], loc'[w].cart, txn')
      BY <2>4, <2>5 DEF InTransaction, HoldsMutex, TxnOK
    <2>8. ServiceTypeOK'
      BY <1>1, <1>3, <1>6, <2>5 DEF ServiceTypeOK, OnlyWorker
    <2>9. QED
      BY <1>6, <2>1, <2>3, <2>5, <2>6, <2>7, <2>8, TxnStep
  <1>7. QED
    BY <1>4, <1>5, <1>6 DEF Commit
-----------------------------------------------------------------------------
(***************************************************************************)
(* The steps that change rows without a transaction.                       *)
(***************************************************************************)
\* An UPDATE of status or rating, or a DELETE: rows only disappear, or keep
\* what makes an order whole.
RowsKept ==
  /\ orders' \in [OrderId -> OrderRow \cup {NULL}]
  /\ \A i \in OrderId : Exists(i)' =>
       /\ Exists(i)
       /\ orders'[i].rest = orders[i].rest
       /\ orders'[i].total = orders[i].total
       /\ orders'[i].items = orders[i].items

\* The three statements are of that kind.
LEMMA StatementsKeepRows ==
  ASSUME TablesTypeOK, NEW i \in OrderId
  PROVE  /\ \A s \in Status : SetStatus(i, s) => RowsKept
         /\ \A r \in 1..5 : SetRating(i, r) => RowsKept
         /\ Delete(i) => RowsKept
         /\ UNCHANGED orders => RowsKept
  <1>1. orders \in [OrderId -> OrderRow \cup {NULL}]
    BY DEF TablesTypeOK
  <1>2. UNCHANGED orders => RowsKept
    BY <1>1 DEF RowsKept, Exists
  <1>3. Delete(i) => RowsKept
    BY <1>1 DEF RowsKept, Exists, Delete
  <1>4. ASSUME Exists(i), NEW row \in OrderRow,
               orders' = [orders EXCEPT ![i] = row],
               row.rest = orders[i].rest, row.total = orders[i].total,
               row.items = orders[i].items
        PROVE  RowsKept
    BY <1>1, <1>4 DEF RowsKept, Exists
  <1>5. ASSUME NEW s \in Status, SetStatus(i, s) PROVE RowsKept
    <2>1. CASE ~Exists(i)
      BY <1>2, <1>5, <2>1 DEF SetStatus
    <2>2. CASE Exists(i)
      <3> DEFINE row == [orders[i] EXCEPT !.status = s]
      <3>1. orders[i] \in OrderRow
        BY <1>1, <2>2 DEF Exists
      <3>2. /\ row \in OrderRow /\ row.rest = orders[i].rest
            /\ row.total = orders[i].total /\ row.items = orders[i].items
        BY <3>1 DEF OrderRow
      <3>3. orders' = [orders EXCEPT ![i] = row]
        BY <1>5, <2>2 DEF SetStatus
      <3>4. QED
        BY <1>4, <2>2, <3>2, <3>3
    <2>3. QED
      BY <2>1, <2>2
  <1>6. ASSUME NEW r \in 1..5, SetRating(i, r) PROVE RowsKept
    <2>1. CASE ~Exists(i)
      BY <1>2, <1>6, <2>1 DEF SetRating
    <2>2. CASE Exists(i)
      <3> DEFINE row == [orders[i] EXCEPT !.rating = r]
      <3>1. orders[i] \in OrderRow /\ r \in StoredRating
        BY <1>1, <2>2 DEF Exists, StoredRating
      <3>2. /\ row \in OrderRow /\ row.rest = orders[i].rest
            /\ row.total = orders[i].total /\ row.items = orders[i].items
        BY <3>1 DEF OrderRow
      <3>3. orders' = [orders EXCEPT ![i] = row]
        BY <1>6, <2>2 DEF SetRating
      <3>4. QED
        BY <1>4, <2>2, <3>2, <3>3
    <2>3. QED
      BY <2>1, <2>2
  <1>7. QED
    BY <1>2, <1>3, <1>5, <1>6
\* Such a step keeps the orders whole, and the console's knowledge of the order
\* it is inserting.
LEMMA RowsKeptKeeps ==
  ASSUME IInv, RowsKept
  PROVE  /\ RestOrdersWhole'
         /\ UNCHANGED <<nextId, txn, console>> => ConsoleInv'
  <1>1. RestOrdersWhole'
    BY WholeKept DEF IInv, RowsKept
  <1>2. ASSUME UNCHANGED <<nextId, txn, console>> PROVE ConsoleInv'
    BY <1>2 DEF IInv, ConsoleInv, RowsKept, FromRest, console
  <1>3. QED
    BY <1>1, <1>2

\* The UPDATE of updateStatus or rateOrder.
LEMMA WriteKeeps ==
  ASSUME IInv, NEW w \in Worker, Write(w), UNCHANGED console
  PROVE  IInv'
  <1> DEFINE i == loc[w].cur
             r == req[w]
             l == [loc[w] EXCEPT !.phase = "reread", !.half = NULL]
  <1>1. /\ pc[w] = "write" /\ ~InTransaction(w) /\ lock \in {NULL, w}
        /\ UNCHANGED <<conn, lock, txn, accepted, crashes>>
        /\ UNCHANGED <<nextId, restaurants, foods>>
    BY DEF Write, InTransaction, MayEnter, session
  <1>2. faults' \in 0..MaxFaults
    BY FaultType DEF Write, IInv
  <1>3. CASE Refuse(w, "DB_ERROR") /\ UNCHANGED orders
    BY <1>1, <1>2, <1>3, QuietReply DEF Refuse, ErrorCode, tables
  <1>4. CASE /\ \/ /\ r.op = "update"
                   /\ SetStatus(i, stringToOrderStatus(r.status))
                \/ r.op = "rate" /\ SetRating(i, r.rating)
             /\ Goto(w, "find", l)
    <2>1. /\ HandlerOK("write", r, loc[w]) /\ r \in Requests
          /\ loc[w] \in Local /\ ServiceTypeOK /\ TablesTypeOK
      BY <1>1, AtWork
    <2>2. /\ i \in OrderId
          /\ r.op \in {"update", "rate"}
          /\ r.op = "update" => l.dto \in OrderDto /\ r.status \in Status
          /\ r.op = "rate" => l.dto \in OrderDto /\ r.rating \in 1..5
      BY <2>1 DEF HandlerOK, Local
    <2>3. RowsKept
      BY <1>4, <2>1, <2>2, StatementsKeepRows DEF stringToOrderStatus
    <2>4. RestOrdersWhole' /\ ConsoleInv'
      BY <1>1, <2>3, RowsKeptKeeps
    <2>5. TablesTypeOK'
      BY <1>1, <1>2, <2>1, <2>3 DEF TablesTypeOK, RowsKept
    <2>6. l \in Local /\ l.cur = i /\ l.phase = "reread"
      BY <2>1 DEF Local
    <2> HIDE DEF l
    <2>7. /\ OnlyWorker(w) /\ pc'[w] = "find" /\ req'[w] = r /\ loc'[w] = l
      BY <1>4, <2>1, <2>6, GotoFacts DEF PC
    <2>8. HandlerOK(pc'[w], req'[w], loc'[w])
      BY <2>1, <2>2, <2>6, <2>7 DEF HandlerOK, Creating
    <2>9. txn = NULL
      BY <1>1, OthersOut, ServiceAssumption DEF IInv, TransactionGuarded
    <2>10. ~InTransaction(w)' /\ ~HoldsMutex(w)'
           /\ TxnOK(pc'[w], req'[w], loc'[w].cart, txn')
      BY <2>6, <2>7 DEF InTransaction, HoldsMutex, TxnOK
    <2>11. ServiceTypeOK'
      BY <1>1, <2>1, <2>7 DEF ServiceTypeOK, OnlyWorker
    <2>12. QED
      BY <1>1, <2>4, <2>5, <2>7, <2>8, <2>9, <2>10, <2>11, TxnStep
  <1>5. QED
    BY <1>3, <1>4 DEF Write

\* The connection is lost: the transaction is undone, the mutex stays.
LEMMA LoseConnectionKeeps ==
  ASSUME IInv, LoseConnection, UNCHANGED console
  PROVE  IInv'
  <1> USE DEF LoseConnection, IInv
  <1>1. UNCHANGED <<orders, nextId, restaurants, foods, faults, lock, pc, req,
                    loc, resp, accepted>> /\ txn' = NULL /\ conn' = "lost"
    BY DEF tables, workers
  <1>2. TypeOK'
    <2>1. TablesTypeOK'
      BY <1>1, TablesAssumption DEF TypeOK, TablesTypeOK
    <2>2. ServiceTypeOK'
      BY <1>1 DEF TypeOK, ServiceTypeOK
    <2>3. QED
      BY <2>1, <2>2 DEF TypeOK, CliTypeOK, console
  <1>3. HandlerInv' /\ MutexInv'
    BY <1>1 DEF HandlerInv, MutexInv, HoldsMutex, InTransaction
  <1>4. TransactionGuarded' /\ TxnInv'
    BY <1>1 DEF TransactionGuarded, TxnInv, TxnOK
  <1>5. ConsoleInv' /\ RestOrdersWhole'
    BY <1>1 DEF ConsoleInv, RestOrdersWhole, Exists, console
  <1>6. QED
    BY <1>2, <1>3, <1>4, <1>5

\* The process is restarted: the handlers are gone, the tables are not.
LEMMA RestartKeeps ==
  ASSUME IInv, Restart, UNCHANGED console
  PROVE  IInv'
  <1> USE DEF Restart, IInv
  <1>1. /\ UNCHANGED <<orders, nextId, restaurants, foods, faults, accepted>>
        /\ txn' = NULL /\ lock' = NULL /\ conn' \in {"up", "null"}
        /\ pc' = [w \in Worker |-> "idle"]
        /\ req' = [w \in Worker |-> NULL]
        /\ loc' = [w \in Worker |-> Fresh]
        /\ resp' = [w \in Worker |-> NULL]
    BY DEF tables
  <1>2. TypeOK'
    <2>1. TablesTypeOK'
      BY <1>1, TablesAssumption DEF TypeOK, TablesTypeOK
    <2>2. ServiceTypeOK'
      BY <1>1, FreshType DEF TypeOK, ServiceTypeOK, PC
    <2>3. QED
      BY <2>1, <2>2 DEF TypeOK, CliTypeOK, console
  <1>3. \A w \in Worker : ~HoldsMutex(w)' /\ ~InTransaction(w)'
    BY <1>1 DEF HoldsMutex, InTransaction
  <1>4. HandlerInv' /\ MutexInv'
    BY <1>1, <1>3, IdleOK DEF HandlerInv, MutexInv
  <1>5. TransactionGuarded' /\ TxnInv'
    BY <1>1, <1>3 DEF TransactionGuarded, TxnInv, TxnOK
  <1>6. ConsoleInv' /\ RestOrdersWhole'
    BY <1>1 DEF ConsoleInv, RestOrdersWhole, Exists, console
  <1>7. QED
    BY <1>2, <1>4, <1>5, <1>6
-----------------------------------------------------------------------------
(***************************************************************************)
(* The console.                                                            *)
(***************************************************************************)
\* A console step keeps the invariant if it leaves the tables right: it cannot
\* touch what the handlers know.
LEMMA ConsoleStep ==
  ASSUME IInv, UNCHANGED service, TablesTypeOK', CliTypeOK',
         nextId' >= nextId, RestOrdersWhole', ConsoleInv'
  PROVE  IInv'
  <1>1. UNCHANGED <<conn, lock, txn, pc, req, loc, resp, accepted>>
    BY DEF service, session, workers
  <1>2. TypeOK'
    BY <1>1 DEF IInv, TypeOK, ServiceTypeOK
  <1>3. HandlerInv' /\ MutexInv' /\ TransactionGuarded'
    BY <1>1 DEF IInv, HandlerInv, MutexInv, HoldsMutex, InTransaction,
                TransactionGuarded
  <1>4. TxnInv'
    <2>1. txn # NULL /\ txn.id # NULL => txn.id < nextId'
      <3>1. txn # NULL /\ txn.id # NULL => txn.id \in Int
        BY DEF IInv, TypeOK, ServiceTypeOK, Transaction, OrderId
      <3>2. nextId \in Int /\ nextId' \in Int
        BY DEF IInv, TypeOK, TablesTypeOK
      <3>3. QED
        BY <3>1, <3>2 DEF IInv, TxnInv
    <2>2. QED
      BY <1>1, <2>1 DEF IInv, TxnInv, InTransaction
  <1>5. QED
    BY <1>2, <1>3, <1>4 DEF IInv

\* Steps of the console that change no order and are not in the middle of one.
LEMMA IdleConsoleStep ==
  ASSUME IInv, UNCHANGED service, UNCHANGED <<orders, nextId>>,
         restaurants' \subseteq Restaurant,
         foods' \in [Food -> Price \cup {NULL}],
         faults' \in 0..MaxFaults, crashes' \in 0..MaxCrashes,
         CliTypeOK', cpc' # "items" \/ UNCHANGED console
  PROVE  IInv'
  <1>1. TablesTypeOK' /\ RestOrdersWhole'
    BY DEF IInv, TypeOK, TablesTypeOK, RestOrdersWhole, Exists
  <1>2. ConsoleInv'
    BY DEF IInv, ConsoleInv, Exists, console, service, session
  <1>3. nextId' >= nextId
    BY DEF IInv, TypeOK, TablesTypeOK
  <1>4. QED
    BY <1>1, <1>2, <1>3, ConsoleStep

\* The console's UPDATEs and DELETE.
LEMMA ConsoleRowsKept ==
  ASSUME IInv, UNCHANGED service, RowsKept, CliTypeOK',
         cpc' # "items" \/ UNCHANGED console,
         UNCHANGED <<crashes, nextId, restaurants, foods>>,
         faults' \in 0..MaxFaults
  PROVE  IInv'
  <1>1. TablesTypeOK'
    BY DEF IInv, TypeOK, TablesTypeOK, RowsKept
  <1>2. RestOrdersWhole'
    BY RowsKeptKeeps
  <1>3. ConsoleInv'
    <2>1. CASE cpc' # "items"
      BY <2>1 DEF ConsoleInv
    <2>2. CASE UNCHANGED console
      BY <2>2, RowsKeptKeeps DEF service, session
    <2>3. QED
      BY <2>1, <2>2
  <1>4. nextId' >= nextId
    BY DEF IInv, TypeOK, TablesTypeOK
  <1>5. QED
    BY <1>1, <1>2, <1>3, <1>4, ConsoleStep

\* A console order gets its header: the row has no restaurant, and its id is
\* not the one of the order a thread has in its transaction.
LEMMA CliPlaceOrderKeeps ==
  ASSUME IInv, NEW u \in User, NEW d \in CliDrafts, CliPlaceOrder(u, d),
         UNCHANGED service
  PROVE  IInv'
  <1> DEFINE row == Header(u, NULL, "Confirmed", d.total)
  <1>1. TablesTypeOK /\ CliTypeOK
    BY DEF IInv, TypeOK
  <1>2. /\ UNCHANGED <<crashes, restaurants, foods>>
        /\ crashes \in 0..MaxCrashes
        /\ faults' \in 0..MaxFaults
    BY <1>1, TablesAssumption
       DEF CliPlaceOrder, CliSucceeds, CliFails, TablesTypeOK
  <1>3. CASE UNCHANGED <<console, orders, nextId>>
    BY <1>1, <1>2, <1>3, IdleConsoleStep DEF TablesTypeOK, CliTypeOK, console
  <1>4. CASE /\ CanInsert(d.total)
             /\ orders' = [orders EXCEPT ![nextId] = row]
             /\ nextId' = nextId + 1
             /\ cpc' = "items" /\ cid' = nextId /\ clines' = d.lines
    <2>1. d.lines \in Seq(Line) /\ d.total \in 0..MaxTotal
      BY CliAssumption
    <2>2. /\ nextId \in OrderId /\ nextId' \in 1..(MaxOrder + 1)
          /\ nextId' > nextId
      BY <1>1, <1>4, TablesAssumption DEF CanInsert, TablesTypeOK, OrderId
    <2>3. row \in OrderRow /\ ~FromRest(row)
      <3>1. "Confirmed" \in Status /\ 0 \in StoredRating /\ << >> \in Seq(Line)
        BY DEF Status, StoredRating
      <3>2. QED
        BY <2>1, <3>1 DEF Header, OrderRow, FromRest
    <2> HIDE DEF row
    <2>4. TablesTypeOK' /\ CliTypeOK'
      BY <1>1, <1>2, <1>4, <2>1, <2>2, <2>3 DEF TablesTypeOK, CliTypeOK
    <2>5. orders'[nextId] = row
          /\ \A i \in OrderId \ {nextId} : orders'[i] = orders[i]
      BY <1>1, <1>4, <2>2 DEF TablesTypeOK
    <2>6. RestOrdersWhole'
      <3>1. ASSUME NEW i \in OrderId, Exists(i)', FromRest(orders'[i])
            PROVE  Exists(i) /\ FromRest(orders[i]) /\ orders'[i] = orders[i]
        BY <2>3, <2>5, <3>1 DEF Exists
      <3>2. QED
        BY <3>1 DEF IInv, RestOrdersWhole
    <2>7. ConsoleInv'
      <3>1. txn # NULL => txn.id # nextId
        <4>1. NULL # nextId
          BY <2>2, TablesAssumption DEF OrderId
        <4>2. txn # NULL /\ txn.id # NULL => txn.id < nextId
          BY DEF IInv, TxnInv
        <4>3. QED
          BY <1>1, <4>1, <4>2 DEF TablesTypeOK
      <3>2. txn' = txn
        BY DEF service, session
      <3>3. QED
        BY <1>4, <2>2, <2>3, <2>5, <3>1, <3>2 DEF ConsoleInv
    <2>8. QED
      BY <1>1, <2>2, <2>4, <2>6, <2>7, ConsoleStep DEF TablesTypeOK
  <1>5. QED
    BY <1>3, <1>4 DEF CliPlaceOrder

\* A line of the console's own order.
LEMMA CliAddItemKeeps ==
  ASSUME IInv, CliAddItem, UNCHANGED service
  PROVE  IInv'
  <1>1. TablesTypeOK /\ CliTypeOK
    BY DEF IInv, TypeOK
  <1>2. /\ cpc = "items" /\ clines # << >> /\ clines' = Tail(clines)
        /\ UNCHANGED <<cpc, cid, crashes, nextId, restaurants, foods>>
        /\ faults' \in 0..MaxFaults
    BY <1>1, TablesAssumption
       DEF CliAddItem, CliSucceeds, CliFails, TablesTypeOK
  <1>3. CliTypeOK' /\ Head(clines) \in Line
    BY <1>1, <1>2, HeadTailProperties DEF CliTypeOK
  <1>4. /\ cid \in OrderId /\ cid < nextId
        /\ txn # NULL => txn.id # cid
        /\ Exists(cid) => ~FromRest(orders[cid])
    BY <1>2 DEF IInv, ConsoleInv
  <1>5. nextId' >= nextId /\ txn' = txn
    BY <1>1, <1>2 DEF TablesTypeOK, service, session
  <1>6. CASE UNCHANGED orders
    <2>1. TablesTypeOK' /\ RestOrdersWhole'
      BY <1>1, <1>2, <1>6 DEF TablesTypeOK, IInv, RestOrdersWhole, Exists
    <2>2. ConsoleInv'
      BY <1>2, <1>4, <1>5, <1>6 DEF ConsoleInv, Exists
    <2>3. QED
      BY <1>3, <1>5, <2>1, <2>2, ConsoleStep
  <1>7. CASE AppendLine(cid, Head(clines))
    <2> DEFINE row == [orders[cid] EXCEPT !.items = Append(@, Head(clines))]
    <2>1. Exists(cid) /\ orders' = [orders EXCEPT ![cid] = row]
      BY <1>7 DEF AppendLine
    <2>2. orders[cid] \in OrderRow
      BY <1>1, <1>4, <2>1 DEF TablesTypeOK, Exists
    <2>3. Append(orders[cid].items, Head(clines)) \in Seq(Line)
      BY <1>3, <2>2, AppendProperties DEF OrderRow
    <2>4. row \in OrderRow /\ row.rest = orders[cid].rest
      BY <2>2, <2>3 DEF OrderRow
    <2> HIDE DEF row
    <2>5. orders'[cid] = row
          /\ \A i \in OrderId \ {cid} : orders'[i] = orders[i]
      BY <1>1, <1>4, <2>1 DEF TablesTypeOK
    <2>6. ~FromRest(row)
      BY <1>4, <2>1, <2>4 DEF FromRest
    <2>7. TablesTypeOK'
      BY <1>1, <1>2, <1>4, <2>1, <2>4 DEF TablesTypeOK
    <2>8. RestOrdersWhole'
      <3>1. ASSUME NEW i \in OrderId, Exists(i)', FromRest(orders'[i])
            PROVE  Exists(i) /\ FromRest(orders[i]) /\ orders'[i] = orders[i]
        BY <2>5, <2>6, <3>1 DEF Exists
      <3>2. QED
        BY <3>1 DEF IInv, RestOrdersWhole
    <2>9. ConsoleInv'
      BY <1>2, <1>4, <1>5, <2>5, <2>6 DEF ConsoleInv
    <2>10. QED
      BY <1>3, <1>5, <2>7, <2>8, <2>9, ConsoleStep
  <1>8. QED
    BY <1>6, <1>7 DEF CliAddItem

\* Every step of the console.
LEMMA CliKeeps ==
  ASSUME IInv, CliNext, UNCHANGED service
  PROVE  IInv'
  <1>1. TablesTypeOK /\ CliTypeOK
    BY DEF IInv, TypeOK
  <1>2. ASSUME NEW op \in {"modify", "rate"}, CliList(op) PROVE IInv'
    BY <1>1, <1>2, IdleConsoleStep
       DEF CliList, TablesTypeOK, CliTypeOK, tables
  <1>3. CliSucceeds \/ CliFails => faults' \in 0..MaxFaults
    BY <1>1, TablesAssumption DEF CliSucceeds, CliFails, TablesTypeOK
  <1>4. ASSUME NEW i \in OrderId, NEW s \in CliStatus, CliModifyOrder(i, s)
        PROVE  IInv'
    <2>1. s \in Status
      BY CliAssumption
    <2>2. RowsKept
      BY <1>1, <1>4, <2>1, StatementsKeepRows DEF CliModifyOrder
    <2>3. QED
      BY <1>1, <1>3, <1>4, <2>2, ConsoleRowsKept DEF CliModifyOrder, CliTypeOK
  <1>5. ASSUME NEW i \in OrderId, NEW r \in CliRating, CliRateOrder(i, r)
        PROVE  IInv'
    <2>1. r \in 1..5
      BY CliAssumption
    <2>2. RowsKept
      BY <1>1, <1>5, <2>1, StatementsKeepRows DEF CliRateOrder
    <2>3. QED
      BY <1>1, <1>3, <1>5, <2>2, ConsoleRowsKept DEF CliRateOrder, CliTypeOK
  <1>6. ASSUME NEW i \in OrderId, CliDeleteOrder(i) PROVE IInv'
    <2>1. RowsKept
      BY <1>1, <1>6, StatementsKeepRows DEF CliDeleteOrder
    <2>2. QED
      BY <1>1, <1>3, <1>6, <2>1, ConsoleRowsKept
         DEF CliDeleteOrder, CliTypeOK, console
  <1>7. CASE CliItemsDone
    BY <1>1, <1>7, IdleConsoleStep
       DEF CliItemsDone, TablesTypeOK, CliTypeOK, tables
  <1>8. ASSUME NEW f \in Food, NEW p \in Price, CliSetPrice(f, p) PROVE IInv'
    BY <1>1, <1>8, IdleConsoleStep
       DEF CliSetPrice, TablesTypeOK, CliTypeOK, console
  <1>9. ASSUME NEW f \in Food, CliDeleteFood(f) PROVE IInv'
    BY <1>1, <1>9, IdleConsoleStep
       DEF CliDeleteFood, TablesTypeOK, CliTypeOK, console
  <1>10. ASSUME NEW r \in Restaurant, CliDeleteRestaurant(r) PROVE IInv'
    BY <1>1, <1>10, IdleConsoleStep
       DEF CliDeleteRestaurant, TablesTypeOK, CliTypeOK, console
  <1>11. CASE CliKill
    BY <1>1, <1>11, IdleConsoleStep, TablesAssumption
       DEF CliKill, TablesTypeOK, CliTypeOK, tables
  <1>12. QED
    BY <1>2, <1>4, <1>5, <1>6, <1>7, <1>8, <1>9, <1>10, <1>11,
       CliPlaceOrderKeeps, CliAddItemKeeps DEF CliNext
-----------------------------------------------------------------------------
(***************************************************************************)
(* The theorems.                                                           *)
(***************************************************************************)
\* The invariant holds initially: no order, no request, no transaction.
LEMMA InitIInv == Init => IInv
  <1> SUFFICES ASSUME Init PROVE IInv
    OBVIOUS
  <1> USE DEF Init, TablesInit, ServiceInit, CliInit
  <1>1. TypeOK
    <2>1. TablesTypeOK
      BY TablesAssumption DEF TablesTypeOK
    <2>2. ServiceTypeOK
      BY ServiceAssumption, FreshType DEF ServiceTypeOK, PC
    <2>3. CliTypeOK
      BY DEF CliTypeOK
    <2>4. QED
      BY <2>1, <2>2, <2>3 DEF TypeOK
  <1>2. HandlerInv
    BY IdleOK DEF HandlerInv
  <1>3. \A w \in Worker : ~HoldsMutex(w) /\ ~InTransaction(w)
    BY DEF HoldsMutex, InTransaction
  <1>4. MutexInv /\ TransactionGuarded
    BY <1>3 DEF MutexInv, TransactionGuarded
  <1>5. TxnInv
    BY <1>3 DEF TxnInv, TxnOK
  <1>6. ConsoleInv /\ RestOrdersWhole
    BY DEF ConsoleInv, RestOrdersWhole, Exists
  <1>7. QED
    BY <1>1, <1>2, <1>4, <1>5, <1>6 DEF IInv

\* Every step of a worker keeps the invariant.
LEMMA WorkerKeeps ==
  ASSUME IInv, NEW w \in Worker, WorkerStep(w), UNCHANGED console
  PROVE  IInv'
  BY StartKeeps, FindRestaurantKeeps, LoadMenuKeeps, BeginKeeps,
     InsertHeaderKeeps, InsertItemKeeps, CommitKeeps, FindHeaderKeeps,
     FindNothingKeeps, GetOrderKeeps, CheckUpdateKeeps, CheckRateKeeps,
     RereadKeeps, ListOneKeeps, WriteKeeps, ListIdsKeeps DEF WorkerStep

\* So does every step of the system, and a stuttering step.
LEMMA NextIInv == IInv /\ [Next]_vars => IInv'
  <1> SUFFICES ASSUME IInv, [Next]_vars PROVE IInv'
    OBVIOUS
  <1>1. CASE ServiceNext /\ UNCHANGED console
    BY <1>1, AcceptKeeps, WorkerKeeps, LoseConnectionKeeps, RestartKeeps
       DEF ServiceNext
  <1>2. CASE CliNext /\ UNCHANGED service
    BY <1>2, CliKeeps
  <1>3. CASE UNCHANGED vars
    <2>1. TablesTypeOK /\ CliTypeOK
      BY DEF IInv, TypeOK
    <2>2. UNCHANGED <<tables, faults, crashes, service, console>>
      BY <1>3 DEF vars
    <2>3. QED
      BY <2>1, <2>2, IdleConsoleStep
         DEF TablesTypeOK, CliTypeOK, tables, console
  <1>4. QED
    BY <1>1, <1>2, <1>3 DEF Next

\* The inductive invariant holds in every reachable state of the system.
THEOREM Invariance == Spec => []IInv
  BY InitIInv, NextIInv, PTL DEF Spec

\* Every variable always has its type, whatever fails: no total outgrows its
\* column, no rating but 0 to 5 is stored, no status is unknown.
THEOREM TypeCorrect == Spec => []TypeOK
  <1>1. IInv => TypeOK
    BY DEF IInv
  <1>2. QED
    BY <1>1, Invariance, PTL

\* Every order placed through the API is always whole, priced right and from
\* one restaurant, for any number of threads, requests, failures and console
\* actions: the transaction of Database::createOrder does its work.
THEOREM WholeOrders == Spec => []RestOrdersWhole
  <1>1. IInv => RestOrdersWhole
    BY DEF IInv
  <1>2. QED
    BY <1>1, Invariance, PTL

\* A transaction is open only while the worker it belongs to holds the mutex
\* of Database: no statement of another thread can get into it.
THEOREM NoForeignStatement == Spec => []TransactionGuarded
  <1>1. IInv => TransactionGuarded
    BY DEF IInv
  <1>2. QED
    BY <1>1, Invariance, PTL
=============================================================================
