SPECIFICATION Spec
CONSTANTS
  Threads = {t1, t2, t3}
  InitialCount = 1
  MaxCount = 2
  NULL = NULL
SYMMETRY Symmetry
INVARIANT NobodyStuck
\* All threads may be waiting, with nobody left to signal them.
CHECK_DEADLOCK FALSE
