SPECIFICATION Spec
CONSTANTS
  Threads = {t1, t2}
  Archs = {"arm"}
  Uses = {"swap8"}
  Word = 3
  NULL = NULL
SYMMETRY Symmetry
PROPERTY SuccessSwaps
\* A thread of ARM goes astray after a swap8.
CHECK_DEADLOCK FALSE
