SPECIFICATION Spec
CONSTANTS
  Threads = {t1, t2, t3}
  Archs = {"x86", "arm", "nios2"}
  Uses = {"mutex", "swap", "swap8", "add"}
  Word = 3
  NULL = NULL
SYMMETRY Symmetry
INVARIANTS TypeOK OwnerMatchesHolder
PROPERTY ImplementsAtomic
\* A panic stops the machine, and a thread of ARM goes astray after a swap8.
CHECK_DEADLOCK FALSE
