\* Two commands, one of which can outlive its payload; two Runs.
CONSTANTS
  c1 = c1
  c2 = c2
  r1 = r1
  r2 = r2
  NoRun = NoRun
  Commands <- MCCommands
  Runs <- MCRuns
  Research <- MCResearch
  MaxVersion = 7

SPECIFICATION LedgerSpec
\* Rows at MaxVersion have no successor.
CHECK_DEADLOCK FALSE
INVARIANTS RowConstraints WakeUpMatchesState
PROPERTIES NothingUndone VersionedSnapshots ImplementsLifecycle
