------------------------- MODULE OrderStatusMachine -------------------------
(***************************************************************************)
(* The order status machine of the REST service                            *)
(* (src/service/OrderStatusMachine.h).  A rating is a double in the code;  *)
(* only its comparison with 0, 1 and 5 matters, so it is an integer here.  *)
(***************************************************************************)
EXTENDS Integers

Status == {"Pending", "Confirmed", "Preparing",
           "Delivering", "Delivered", "Cancelled"}

kTransitions ==
  { <<"Pending", "Confirmed">>,   <<"Pending", "Cancelled">>,
    <<"Confirmed", "Preparing">>, <<"Confirmed", "Cancelled">>,
    <<"Preparing", "Delivering">>, <<"Delivering", "Delivered">> }

isValidTransition(from, to) == <<from, to>> \in kTransitions

canRate(status) == status = "Delivered"

isValidRating(rating) == rating >= 1 /\ rating <= 5

\* What a stored rating may be: 0 stands for "not rated yet".
StoredRating == 0..5

\* The conversion of a status string to the enum of core/Order: any string
\* that names no status becomes PENDING.
stringToOrderStatus(s) == IF s \in Status THEN s ELSE "Pending"
=============================================================================
