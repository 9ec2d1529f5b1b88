--------------------------- MODULE OrderLifecycle ---------------------------
(***************************************************************************)
(* What the order API promises about one order, whoever calls it: it is    *)
(* placed once, moves along the status machine only, and is rated only     *)
(* once it is delivered.  (A later rating may replace an earlier one: see  *)
(* the finding on RatedOnce.)                                              *)
(***************************************************************************)
EXTENDS OrderStatusMachine

CONSTANT Orders

VARIABLE life   \* each order: not placed yet, or its status and rating

Unplaced == [status |-> "None", rating |-> 0]

Init == life = [i \in Orders |-> Unplaced]

Place(i) ==
  /\ life[i] = Unplaced
  /\ life' = [life EXCEPT ![i] = [status |-> "Pending", rating |-> 0]]

Advance(i, s) ==
  /\ isValidTransition(life[i].status, s)
  /\ life' = [life EXCEPT ![i].status = s]

Rate(i, r) ==
  /\ canRate(life[i].status)
  /\ isValidRating(r)
  /\ life' = [life EXCEPT ![i].rating = r]

Next == \E i \in Orders :
          \/ Place(i)
          \/ \E s \in Status : Advance(i, s)
          \/ \E r \in StoredRating : Rate(i, r)

Spec == Init /\ [][Next]_life
=============================================================================
