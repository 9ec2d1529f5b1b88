SPECIFICATION FairSpec
CONSTANTS
  NULL = NULL
  u1 = u1  u2 = u2  r1 = r1  r2 = r2  f1 = f1  f2 = f2
  User = {u1, u2}
  Restaurant = {r1, r2}
  Food = {f1, f2}
  FoodOf <- MCFoodOf
  Price = {1}
  MaxOrder = 2
  MaxTotal = 5
  Worker = {w1, w2}
  Requests <- ConsoleRequests
  MaxRequests = 2
  MaxFaults = 1
  MaxCrashes = 0
  CliOps = {"place", "modify", "rate"}
  CliStatus = {"Delivered"}
  CliRating = {1}
  CliDrafts <- OneDraft
INVARIANT OwnOrdersOnly
PROPERTIES ContentsImmutable Answered
CHECK_DEADLOCK FALSE
