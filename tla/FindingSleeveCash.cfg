\* As the account run, with rebalances also while sleeves exist and plans that
\* a signal sized.
CONSTANTS
  x = x
  y = y
  s1 = s1
  s2 = s2
  o1 = o1
  o2 = o2
  Symbols <- TwoSymbols
  Sleeves <- TwoSleeves
  Orders <- TwoOrders
  InitialCash = 10
  Prices = {1, 3}
  Fee = 1
  MaxQty = 2
  Mixed = TRUE
  SnapshotPlans = TRUE

SPECIFICATION Spec
SYMMETRY AccountSymmetry
INVARIANTS SleevesBacked
