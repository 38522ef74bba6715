SPECIFICATION Spec
CONSTANTS
  Threads = {t1, t2}
  Archs = {"arm"}
  Uses = {"mutex"}
  Word = 3
  NULL = NULL
SYMMETRY Symmetry
INVARIANT MutualExclusion
