\* Two jobs on two threads, two restarts, one reconciliation that may fail.
CONSTANTS
  j1 = j1
  j2 = j2
  Jobs <- TwoJobs
  MaxWorkers = 2
  MaxRestarts = 2
  MaxStoreErrors = 1

SPECIFICATION FairSpec
\* The API need not be started again.
CHECK_DEADLOCK FALSE
INVARIANTS TypeOK NoZombies ShutdownSettles
PROPERTIES LateWritesLose JobsEnd
