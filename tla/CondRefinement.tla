--------------------------- MODULE CondRefinement ---------------------------
(***************************************************************************)
(* The locking of kernel/cond.c implements the atomic calls of CondSpec.   *)
(***************************************************************************)
EXTENDS Cond

\* A thread that pushed itself waits only once it has released the mutex.
BeingPushed(c) == \E t \in Threads : pc[t] = "wait_block" /\ cv[t] = c

\* cond_broadcast takes effect when it has locked the queue.
BeingEmptied(c) == \E t \in Threads : pc[t] = "bcast_loop" /\ cv[t] = c

absQueue == [c \in Conds |-> IF BeingEmptied(c) THEN <<>>
                             ELSE IF BeingPushed(c) THEN Tail(waiting[c])
                             ELSE waiting[c]]

\* cond_interrupt takes effect when it removes the thread from the queue.
WasInterrupted(t) ==
  \/ INTERRUPTED \in flags[t]
  \/ \E u \in Threads : pc[u] = "intr_wake" /\ target[u] = t

absState == [t \in Threads |->
  IF pc[t] \notin {"sleep", "wait_mp"} THEN "running"
  ELSE IF \E c \in Conds : Contains(absQueue[c], t) THEN "waiting"
  ELSE IF WasInterrupted(t) THEN "interrupted" ELSE "signaled"]

absCall == [t \in Threads |->
  CASE pc[t] \in WaitLabels                  -> <<"wait", cv[t], unint[t]>>
    [] pc[t] \in {"signal_q", "signal_pop"}  -> <<"signal", cv[t]>>
    [] pc[t] = "bcast_q"                     -> <<"broadcast", cv[t]>>
    [] pc[t] \in InterruptLabels             -> <<"interrupt", target[t]>>
    [] OTHER                                 -> NULL]

absRet == [t \in Threads |-> IF pc[t] = "intr_wake" THEN "0" ELSE ret[t]]

Abstract == INSTANCE CondSpec
  WITH queue <- absQueue, state <- absState, call <- absCall, ret <- absRet

\* Every step of cond.c is a step that cond.h promises, or changes nothing
\* that a client can see: no wakeup is lost, none is spurious, the oldest
\* waiter is signaled first, and each call returns what cond.h says.
ImplementsCondSpec == Abstract!Spec

=============================================================================
