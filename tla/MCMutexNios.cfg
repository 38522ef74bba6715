SPECIFICATION Spec
CONSTANTS
  Threads = {t1, t2}
  Archs = {"nios2"}
  Uses = {"mutex"}
  Word = 3
  NULL = NULL
SYMMETRY Symmetry
INVARIANT MutualExclusion
