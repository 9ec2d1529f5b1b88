SPECIFICATION Spec
CONSTANTS
  NULL = NULL
  u1 = u1  u2 = u2  r1 = r1  r2 = r2  f1 = f1  f2 = f2
  User = {u1, u2}
  Restaurant = {r1, r2}
  Food = {f1, f2}
  FoodOf <- MCFoodOf
  Price = {1}
  MaxOrder = 2
  MaxTotal = 5
  Worker = {w1, w2}
  Requests <- SharedRequests
  MaxRequests = 3
  MaxFaults = 1
  MaxCrashes = 1
  CliOps = {"place", "delete"}
  CliStatus = {"Delivered", "Cancelled"}
  CliRating = {1}
  CliDrafts <- Drafts
SYMMETRY WorkerSymmetry
INVARIANTS RestOrdersWhole OwnOrdersOnly TransactionGuarded CreatedAsRequested
CHECK_DEADLOCK FALSE
