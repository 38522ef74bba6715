SPECIFICATION Spec
CONSTANTS
  Threads = {t1, t2, t3}
  m1 = m1
  m2 = m2
  c1 = c1
  t1 = t1
  Mutexes = {m1}
  Conds = {c1, c2}
  Guard <- SharedGuard
  Waiters <- AllWait
  Killable = {}
  InterruptHolding = FALSE
  NULL = NULL
SYMMETRY Symmetry
INVARIANTS TypeOK LocksMatchSections QueuedOnlyWhileWaiting NoWaiterLost
  InterruptHitsItsWait NoSpinDeadlock
PROPERTY ImplementsCondSpec
\* All threads may be waiting, with nobody left to signal them.
CHECK_DEADLOCK FALSE
