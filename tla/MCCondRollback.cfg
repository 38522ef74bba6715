SPECIFICATION Spec
CONSTANTS
  Threads = {t1, t2}
  m1 = m1
  m2 = m2
  c1 = c1
  t1 = t1
  Mutexes = {m1}
  Conds = {c1}
  Guard <- SharedGuard
  Waiters <- AllWait
  Killable = {t2}
  InterruptHolding = FALSE
  NULL = NULL
PROPERTY RollbackUndoesPush
\* All threads may be waiting, with nobody left to signal them.
CHECK_DEADLOCK FALSE
