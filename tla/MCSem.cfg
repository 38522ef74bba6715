SPECIFICATION Spec
CONSTANTS
  Threads = {t1, t2, t3, t4}
  InitialCount = 1
  MaxCount = 2
  NULL = NULL
SYMMETRY Symmetry
INVARIANTS TypeOK NoneSleepsOnPermit
PROPERTY ImplementsSemSpec
\* All threads may be waiting, with nobody left to signal them.
CHECK_DEADLOCK FALSE
