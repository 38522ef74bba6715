SPECIFICATION LiveSpec
CONSTANTS
  Threads = {t1, t2, t3}
  m1 = m1
  Mutexes = {m1}
  Conds = {c1}
  Guard <- OneGuard
  Waiters <- AllWait
  Killable = {}
  InterruptHolding = FALSE
  NULL = NULL
  MaxCalls = 2
PROPERTIES CallsEnd WokenReacquires
\* All threads may be waiting, with nobody left to signal them.
CHECK_DEADLOCK FALSE
