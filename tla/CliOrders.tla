------------------------------ MODULE CliOrders ------------------------------
(***************************************************************************)
(* The console program (src/core/FoodOrderSystem.cpp) as a writer of the   *)
(* same tables.  It is a process of its own, with its own connection and   *)
(* no transactions: each statement takes effect at once, and the user may  *)
(* take any time between a listing and the order id he then types.         *)
(***************************************************************************)
EXTENDS OrderTables

CONSTANTS
  CliOps,     \* which parts of the console menu are in use
  CliDrafts,  \* the orders a console user may confirm: lines and total
  CliStatus,  \* the statuses a console user may choose
  CliRating   \* the ratings a console user may give

CliMenu == {"place", "modify", "rate", "delete", "catalogue"}

ASSUME CliAssumption ==
  /\ CliOps \subseteq CliMenu
  /\ CliDrafts \subseteq [lines : Seq(Line), total : 0..MaxTotal]
  /\ CliStatus \subseteq Status
  /\ CliRating \subseteq 1..5

VARIABLES
  cpc,    \* where the console is: "menu", "modify", "rate" or "items"
  cid,    \* the order whose lines are being inserted, or NULL
  clines  \* the lines still to insert

console == <<cpc, cid, clines>>

CliTypeOK ==
  /\ cpc \in {"menu", "modify", "rate", "items"}
  /\ cid \in OrderId \cup {NULL}
  /\ clines \in Seq(Line)

CliInit == cpc = "menu" /\ cid = NULL /\ clines = << >>

CliSucceeds == UNCHANGED faults

CliFails == faults < MaxFaults /\ faults' = faults + 1

\* modifyOrder and rateOrder: the user must have an order to be asked for an
\* id, but may then type any id.
CliList(op) ==
  /\ op \in CliOps
  /\ cpc = "menu"
  /\ \E u \in User, i \in OrderId : Exists(i) /\ orders[i].owner = u
  /\ cpc' = op
  /\ UNCHANGED <<cid, clines, faults, crashes, tables>>

CliModifyOrder(i, s) ==
  /\ cpc = "modify"
  /\ \/ CliSucceeds /\ SetStatus(i, s)
     \/ CliFails /\ UNCHANGED orders
  /\ cpc' = "menu"
  /\ UNCHANGED <<cid, clines, crashes, nextId, restaurants, foods>>

CliRateOrder(i, r) ==
  /\ cpc = "rate"
  /\ \/ CliSucceeds /\ SetRating(i, r)
     \/ CliFails /\ UNCHANGED orders
  /\ cpc' = "menu"
  /\ UNCHANGED <<cid, clines, crashes, nextId, restaurants, foods>>

CliDeleteOrder(i) ==
  /\ "delete" \in CliOps
  /\ cpc = "menu"
  /\ \/ CliSucceeds /\ Delete(i)
     \/ CliFails /\ UNCHANGED orders
  /\ UNCHANGED <<console, crashes, nextId, restaurants, foods>>

\* newFoodOrder and reorder save a confirmed order: first its header.
CliPlaceOrder(u, d) ==
  /\ "place" \in CliOps
  /\ cpc = "menu"
  /\ \/ /\ CliSucceeds
        /\ CanInsert(d.total)
        /\ orders' = [orders EXCEPT ![nextId] =
                        Header(u, NULL, "Confirmed", d.total)]
        /\ nextId' = nextId + 1
        /\ cpc' = "items"
        /\ cid' = nextId
        /\ clines' = d.lines
     \/ /\ (CliSucceeds /\ ~CanInsert(d.total)) \/ CliFails
        /\ UNCHANGED <<console, orders, nextId>>
  /\ UNCHANGED <<crashes, restaurants, foods>>

\* addOrderItems: a line that cannot be inserted is logged and skipped.
CliAddItem ==
  /\ cpc = "items"
  /\ clines # << >>
  /\ clines' = Tail(clines)
  /\ \/ CliSucceeds /\ AppendLine(cid, Head(clines))
     \/ /\ (CliSucceeds /\ ~Exists(cid)) \/ CliFails
        /\ UNCHANGED orders
  /\ UNCHANGED <<cpc, cid, crashes, nextId, restaurants, foods>>

CliItemsDone ==
  /\ cpc = "items"
  /\ clines = << >>
  /\ cpc' = "menu"
  /\ cid' = NULL
  /\ UNCHANGED <<clines, faults, crashes, tables>>

\* The admin panel: a new price, a dish or a restaurant taken off.  Deleting a
\* restaurant deletes its foods (ON DELETE CASCADE).
CliSetPrice(f, p) ==
  /\ "catalogue" \in CliOps
  /\ cpc = "menu"
  /\ foods' = IF foods[f] # NULL THEN [foods EXCEPT ![f] = p] ELSE foods
  /\ UNCHANGED <<console, faults, crashes, orders, nextId, restaurants>>

CliDeleteFood(f) ==
  /\ "catalogue" \in CliOps
  /\ cpc = "menu"
  /\ foods' = [foods EXCEPT ![f] = NULL]
  /\ UNCHANGED <<console, faults, crashes, orders, nextId, restaurants>>

CliDeleteRestaurant(r) ==
  /\ "catalogue" \in CliOps
  /\ cpc = "menu"
  /\ restaurants' = restaurants \ {r}
  /\ foods' = [f \in Food |-> IF FoodOf[f] = r THEN NULL ELSE foods[f]]
  /\ UNCHANGED <<console, faults, crashes, orders, nextId>>

\* The console is killed while it is inserting the lines of an order.
CliKill ==
  /\ cpc = "items"
  /\ crashes < MaxCrashes
  /\ crashes' = crashes + 1
  /\ cpc' = "menu"
  /\ cid' = NULL
  /\ clines' = << >>
  /\ UNCHANGED <<faults, tables>>

CliNext ==
  \/ \E op \in {"modify", "rate"} : CliList(op)
  \/ \E i \in OrderId, s \in CliStatus : CliModifyOrder(i, s)
  \/ \E i \in OrderId, r \in CliRating : CliRateOrder(i, r)
  \/ \E i \in OrderId : CliDeleteOrder(i)
  \/ \E u \in User, d \in CliDrafts : CliPlaceOrder(u, d)
  \/ CliAddItem \/ CliItemsDone
  \/ \E f \in Food, p \in Price : CliSetPrice(f, p)
  \/ \E f \in Food : CliDeleteFood(f)
  \/ \E r \in Restaurant : CliDeleteRestaurant(r)
  \/ CliKill
=============================================================================
