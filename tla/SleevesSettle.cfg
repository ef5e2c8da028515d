\* Two plans of one sleeve under the fairness of the scheduler, one crash.
CONSTANTS
  s1 = s1
  p1 = p1
  p2 = p2
  r1 = r1
  r2 = r2
  Sleeves <- OneSleeve
  Plans <- TwoPlans
  SleeveOf <- SameSleeve
  Runners <- OneRunner
  Scoped <- OneSleeve
  LastDay = 2
  MaxRequests = 1
  MaxAborts = 1

SPECIFICATION FairSpec
PROPERTIES PlansSettle
