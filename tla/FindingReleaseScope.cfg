\* As the admission run, with what a comment says of release sessions.
CONSTANTS
  a1 = a1
  a2 = a2
  x1 = x1
  g1 = g1
  g2 = g2
  s1 = s1
  c1 = c1
  Admissions = {a1, a2}
  Stamps = {x1}
  Cutovers = {x1}
  Generations = {g1, g2}
  Sessions = {s1}
  Turns = {c1}
  NoAdmission = NoAdmission
  NoGeneration = NoGeneration
  NoSession = NoSession
  MaxEpoch = 2

SPECIFICATION Spec
SYMMETRY OperatorSymmetry
\* Operators, clients and daemons may all stop.
CHECK_DEADLOCK FALSE
INVARIANTS ReleaseSessionWritable
