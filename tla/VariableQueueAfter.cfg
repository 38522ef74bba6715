SPECIFICATION Spec
CONSTANTS
  Queues = {q1, q2}
  Elements = {e1, e2, e3, e4}
  AfterLastOnly = FALSE
  NULL = NULL
PROPERTY ImplementsLists
