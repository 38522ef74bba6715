SPECIFICATION Spec
CONSTANTS
  Queues = {q1, q2}
  Elements = {e1, e2, e3, e4}
  AfterLastOnly = TRUE
  NULL = NULL
INVARIANT LinksAgree
PROPERTY ImplementsLists
