SPECIFICATION Spec
CONSTANTS
  Threads = {t1, t2}
  Archs = {"x86"}
  Uses = {"add"}
  Word = 3
  NULL = NULL
SYMMETRY Symmetry
PROPERTY AddsAtOnce
