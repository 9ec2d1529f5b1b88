---------------------------- MODULE OrderParser -----------------------------
(***************************************************************************)
(* services/parser.py: the answer of the language model to an order in     *)
(* plain words becomes a draft of foods of the menu.  Names are compared   *)
(* exactly, without regard to case, and as parts of one another; a name is *)
(* a value and these comparisons are given by constants.                   *)
(***************************************************************************)
EXTENDS Integers, Sequences, SequencesExt, FiniteSets, FiniteSetsExt

CONSTANTS
  Lower,   \* for each name, the name in lower case
  Strip,   \* for each name, the name without outer blanks
  Within   \* pairs of lower case names, the first a part of the second

\* A food of the menu.
MenuItem ==
  [food_id : Nat \ {0}, food_name : DOMAIN Lower, restaurant_id : Nat \ {0},
   restaurant_name : DOMAIN Lower, unit_price : Nat]

\* An item of the language model's answer.
NamedItem == [food_name : DOMAIN Lower, quantity : Int]

NoFood == [food_id |-> 0]

\* Of places in the menu, those of the first kind that there are any of.
FirstOf(exact, same, part) ==
  IF exact # {} THEN exact ELSE IF same # {} THEN same ELSE part

\* Mutant: the whole menu is searched, whatever the restaurant.
ResolveFoodAnywhere(name, menu, restaurant) ==
  LET low   == Strip[Lower[name]]
      found == FirstOf({i \in DOMAIN menu : menu[i].food_name = name},
                       {i \in DOMAIN menu : Lower[menu[i].food_name] = low}, {})
  IN  IF found = {} THEN NoFood ELSE menu[Min(found)]

\* The food of that name at the restaurant, or of the whole menu when no
\* restaurant has that name: an exact match, else one in another case, else a
\* part of a name; the first in the menu.
ResolveFood(name, menu, restaurant) ==
  LET there == {i \in DOMAIN menu : Lower[menu[i].restaurant_name]
                                      = Lower[restaurant]}
      candidates == IF there = {} THEN DOMAIN menu ELSE there
      low   == Strip[Lower[name]]
      found == FirstOf({i \in candidates : menu[i].food_name = name},
                       {i \in candidates : Lower[menu[i].food_name] = low},
                       {i \in candidates :
                          \/ <<low, Lower[menu[i].food_name]>> \in Within
                          \/ <<Lower[menu[i].food_name], low>> \in Within})
  IN  IF found = {} THEN NoFood ELSE menu[Min(found)]

\* The restaurant of that name, else the first one whose name contains it, else
\* the one of the hint, which is 0 when there is none.  An empty name is a part
\* of every name.
ResolveRestaurant(name, menu, hint) ==
  LET same   == {i \in DOMAIN menu : Lower[menu[i].restaurant_name] = Lower[name]}
      part   == {i \in DOMAIN menu :
                   <<Lower[name], Lower[menu[i].restaurant_name]>> \in Within}
      hinted == {i \in DOMAIN menu : menu[i].restaurant_id = hint}
  IN  IF same # {}
      THEN [id |-> menu[Min(same)].restaurant_id, name |-> name, found |-> TRUE]
      ELSE IF part # {}
      THEN [id |-> menu[Min(part)].restaurant_id,
            name |-> menu[Min(part)].restaurant_name, found |-> TRUE]
      ELSE [id |-> hint, found |-> FALSE,
            name |-> IF hinted = {} THEN name ELSE menu[Min(hinted)].restaurant_name]

\* Items are kept by their place in the answer.
Total(items) ==
  MapThenSumSet(LAMBDA i : items[i].unit_price * items[i].quantity, DOMAIN items)

Refused == [kind |-> "refused"]  \* a ValueError that starts with LLM_REFUSED
Invalid == [kind |-> "invalid"]  \* any other ValueError, also of the validation

\* Mutant: an item that is left out is not reported.
IssuesOfRestaurant(restaurant, missing) == IF restaurant.found THEN {} ELSE {0}

\* What is wrong with the draft: 0 for the restaurant, and the places of the items
\* that were left out.
Issues(restaurant, missing) ==
  (IF restaurant.found THEN {} ELSE {0}) \cup missing

Draft(reply, menu, hint) ==
  LET r       == ResolveRestaurant(reply.restaurant_name, menu, hint)
      asked   == reply.items
      food    == [i \in DOMAIN asked |-> ResolveFood(asked[i].food_name, menu, r.name)]
      found   == {i \in DOMAIN asked : food[i] # NoFood}
      items   == [i \in found |-> [food_id    |-> food[i].food_id,
                                   unit_price |-> food[i].unit_price,
                                   quantity   |-> asked[i].quantity]]
      issues  == Issues(r, DOMAIN asked \ found)
  IN  IF \E i \in found : asked[i].quantity < 1 THEN Invalid
      ELSE IF found = {} THEN Refused
      ELSE [kind |-> "draft", restaurant_id |-> r.id, restaurant_name |-> r.name,
            items |-> items, estimated_total |-> Total(items), issues |-> issues,
            confidence |-> Max({0, 100 - 15 * Cardinality(issues)})]

\* parse_order, given what the language model answered.
ParseOrder(reply, menu, hint) ==
  IF reply.tool = "none" THEN Refused
  ELSE IF reply.tool # "create_order_draft" THEN Invalid
  ELSE IF reply.items = <<>> THEN Refused
  ELSE Draft(reply, menu, hint)
=============================================================================
