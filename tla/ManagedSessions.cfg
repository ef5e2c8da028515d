\* A root session, a fork of it, and a fork of an external session under the
\* first one's key; two workers, two abandoned
\* claims, one lease outrun; one worker on each port.
CONSTANTS
  root = root
  fork = fork
  again = again
  ext = ext
  w1 = w1
  w2 = w2
  k1 = k1
  k2 = k2
  Sessions = {root, fork, again, ext}
  Workers = {w1, w2}
  NoSession = NoSession
  Observed = {ext}
  Parent <- MCParent
  Key <- MCKey
  NativeWorkers = {w2}
  MaxAttempts = 2
  MaxCrashes = 2
  MaxTakeovers = 1

SPECIFICATION FairSpec
\* Clients may stop once everything is settled.
CHECK_DEADLOCK FALSE
INVARIANTS TypeOK ReadyIsReal AcceptedOncePerKey
PROPERTIES SettledStands SessionsSettle
