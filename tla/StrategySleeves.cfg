\* Two plans of one sleeve, two processing commands, two days, two crashes.
CONSTANTS
  s1 = s1
  p1 = p1
  p2 = p2
  r1 = r1
  r2 = r2
  Sleeves <- OneSleeve
  Plans <- TwoPlans
  SleeveOf <- SameSleeve
  Runners <- TwoRunners
  Scoped = {}
  LastDay = 2
  MaxRequests = 1
  MaxAborts = 2

SPECIFICATION Spec
SYMMETRY SleeveSymmetry
INVARIANTS TypeOK BooksAgree OutcomeTrue FilledOnce AllocationHasSleeve
PROPERTIES DecidedStays
