SPECIFICATION Spec
CONSTANTS
  Threads = {t1, t2, t3, t4}
  Types <- Both
  NULL = NULL
SYMMETRY Symmetry
INVARIANTS TypeOK CountMatchesOwners QueueMatchesWaiters
  NoReaderSleepsWhileReading HandOffReachesSomeone
PROPERTY WriterEntersAlone
\* A lock handed to an interrupted waiter stays taken: all may sleep for ever.
CHECK_DEADLOCK FALSE
