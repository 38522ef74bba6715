SPECIFICATION Spec
CONSTANTS
  Threads = {t1, t2, t3}
  Types <- Both
  NULL = NULL
SYMMETRY Symmetry
INVARIANT NobodyStuck
\* A lock handed to an interrupted waiter stays taken: all may sleep for ever.
CHECK_DEADLOCK FALSE
