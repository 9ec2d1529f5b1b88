---------------------------- MODULE MCOrderSystem ----------------------------
(***************************************************************************)
(* Small instances of OrderSystem: two restaurants with one food each,     *)
(* prices in cents, and the requests of a customer, another customer and   *)
(* an admin.                                                               *)
(***************************************************************************)
EXTENDS OrderSystem, TLC

CONSTANTS u1, u2, r1, r2, f1, f2

MCFoodOf == f1 :> r1 @@ f2 :> r2

Blank == [op |-> "get", user |-> u1, isAdmin |-> FALSE, id |-> 1,
          status |-> "", rating |-> 0, rest |-> r1, delivery |-> "Standard",
          lines |-> << >>]

Get(u, i) == [Blank EXCEPT !.user = u, !.id = i]

AdminGet(i) == [Get(u2, i) EXCEPT !.isAdmin = TRUE]

List(u, admin) == [Blank EXCEPT !.op = "list", !.user = u, !.isAdmin = admin]

Create(u, r, lines) ==
  [Blank EXCEPT !.op = "create", !.user = u, !.rest = r, !.lines = lines]

Update(i, s) ==
  [Blank EXCEPT !.op = "update", !.user = u2, !.isAdmin = TRUE,
                !.id = i, !.status = s]

Rate(u, i, n) == [Blank EXCEPT !.op = "rate", !.user = u, !.id = i,
                               !.rating = n]

OneF1 == <<[food |-> f1, qty |-> 1]>>
TwoLines == <<[food |-> f1, qty |-> 2], [food |-> f1, qty |-> 1]>>
OneF2 == <<[food |-> f2, qty |-> 1]>>

\* Creates that end in each of the ways createOrder has to refuse them.
BadCreates ==
  { Create(u1, r1, << >>),
    Create(u1, r1, <<[food |-> f1, qty |-> 0]>>),
    Create(u1, r1, OneF2),
    Create(u1, NULL, OneF1),
    Create(u1, r1, <<[food |-> f1, qty |-> 9]>>),
    [Create(u1, r1, OneF1) EXCEPT !.delivery = "Drone"] }

Moves == {Update(1, s) : s \in Status}

CreateRequests == {Create(u1, r1, TwoLines), Create(u2, r2, OneF2)}

ReadRequests == {Get(u1, 1), Get(u2, 1), AdminGet(1), List(u1, FALSE),
                 List(u2, TRUE)}

RateRequests == {Rate(u1, 1, 5), Rate(u2, 1, 3), Rate(u1, 1, 6)}

AllRequests ==
  CreateRequests \cup BadCreates \cup ReadRequests \cup RateRequests \cup Moves
    \cup {[Update(1, "Confirmed") EXCEPT !.isAdmin = FALSE]}

\* Reads and writes of orders that some other request creates.
SharedRequests ==
  {Create(u1, r1, TwoLines), Get(u2, 1), List(u2, FALSE), Rate(u2, 1, 3),
   Update(1, "Confirmed")}

LifeRequests == {Create(u1, r1, OneF1), Rate(u1, 1, 4), Rate(u1, 1, 5),
                 Rate(u1, 1, 6), Update(1, "Shipped")} \cup Moves

\* Requests on an order that console users also change.
ConsoleRequests == {Create(u1, r1, OneF1), Rate(u1, 1, 5), List(u1, FALSE)}

Drafts == { [lines |-> << >>, total |-> 0],
            [lines |-> <<[food |-> f1, price |-> 1, qty |-> 1]>>, total |-> 1] }

OneDraft == {[lines |-> <<[food |-> f1, price |-> 1, qty |-> 1]>>, total |-> 1]}

NoDrafts == {}

WorkerSymmetry == Permutations(Worker)
=============================================================================
