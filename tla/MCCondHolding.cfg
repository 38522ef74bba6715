SPECIFICATION LiveSpec
CONSTANTS
  Threads = {t1, t2, t3}
  m1 = m1
  Mutexes = {m1}
  Conds = {c1}
  Guard <- OneGuard
  Waiters <- AllWait
  Killable = {}
  InterruptHolding = TRUE
  NULL = NULL
  MaxCalls = 2
PROPERTY WokenReacquires
CHECK_DEADLOCK FALSE
