SPECIFICATION Spec
CONSTANTS
  Threads = {t1, t2}
  m1 = m1
  m2 = m2
  c1 = c1
  t1 = t1
  Mutexes = {m1, m2}
  Conds = {c1, c2}
  Guard <- OwnGuard
  Waiters <- OneWaits
  Killable = {t1, t2}
  InterruptHolding = FALSE
  NULL = NULL
PROPERTY ImplementsCondSpec
\* All threads may be waiting, with nobody left to signal them.
CHECK_DEADLOCK FALSE
