\* Two symbols, two sleeves, two waiting orders; sleeves trade definition plans.
CONSTANTS
  x = x
  y = y
  s1 = s1
  s2 = s2
  o1 = o1
  o2 = o2
  Symbols <- TwoSymbols
  Sleeves <- TwoSleeves
  Orders <- TwoOrders
  InitialCash = 10
  Prices = {1, 3}
  Fee = 1
  MaxQty = 2
  Mixed = FALSE
  SnapshotPlans = FALSE

SPECIFICATION Spec
SYMMETRY AccountSymmetry
INVARIANTS TypeOK SleevesBacked ReservationsCovered FirstInLineFills
