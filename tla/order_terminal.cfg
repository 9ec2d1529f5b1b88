SPECIFICATION Spec
CONSTANTS
  NULL = NULL
  u1 = u1  u2 = u2  r1 = r1  r2 = r2  f1 = f1  f2 = f2
  User = {u1, u2}
  Restaurant = {r1, r2}
  Food = {f1, f2}
  FoodOf <- MCFoodOf
  Price = {1}
  MaxOrder = 1
  MaxTotal = 5
  Worker = {w1, w2}
  Requests <- LifeRequests
  MaxRequests = 4
  MaxFaults = 0
  MaxCrashes = 0
  CliOps = {}
  CliStatus = {"Delivered", "Cancelled"}
  CliRating = {1}
  CliDrafts <- NoDrafts
PROPERTY TerminalIsFinal
CHECK_DEADLOCK FALSE
