SPECIFICATION Spec
CONSTANTS
  NULL = NULL
  u1 = u1  u2 = u2  r1 = r1  r2 = r2  f1 = f1  f2 = f2
  User = {u1, u2}
  Restaurant = {r1, r2}
  Food = {f1, f2}
  FoodOf <- MCFoodOf
  Price = {1, 2}
  MaxOrder = 1
  MaxTotal = 5
  Worker = {w1}
  Requests <- AllRequests
  MaxRequests = 6
  MaxFaults = 1
  MaxCrashes = 1
  CliOps = {"catalogue"}
  CliStatus = {"Delivered", "Cancelled"}
  CliRating = {1}
  CliDrafts <- Drafts
INVARIANTS TypeOK RestOrdersWhole
PROPERTY LifecycleSpec
CHECK_DEADLOCK FALSE
