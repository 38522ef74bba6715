----------------------------- MODULE MCCondLive -----------------------------
(***************************************************************************)
(* Cond with clients that make finitely many calls.                        *)
(*                                                                         *)
(* mutex_lock spins on a compare-and-swap and has no queue: among threads  *)
(* that never stop taking a lock, one may lose each time.  With MaxCalls   *)
(* calls and lock acquisitions a thread, contention ends, and weak         *)
(* fairness is enough: a thread that can run is scheduled, and clients     *)
(* release their mutexes.                                                  *)
(***************************************************************************)
EXTENDS Cond

CONSTANTS MaxCalls, m1

VARIABLE calls  \* the calls each thread has made

OneGuard == [c \in Conds |-> m1]
AllWait == [c \in Conds |-> Threads]

LiveInit == Init /\ calls = [t \in Threads |-> 0]

LiveCall(t) ==
  /\ calls[t] < MaxCalls
  /\ Call(t)
  /\ calls' = [calls EXCEPT ![t] = @ + 1]

LiveNext == \E t \in Threads :
  \/ LiveCall(t)
  \/ (Unlock(t) \/ Kernel(t)) /\ UNCHANGED calls

LiveSpec ==
  /\ LiveInit
  /\ [][LiveNext]_<<vars, calls>>
  /\ \A t \in Threads :
       /\ WF_<<vars, calls>>(Kernel(t) /\ UNCHANGED calls)
       /\ WF_<<vars, calls>>(Unlock(t) /\ UNCHANGED calls)

-----------------------------------------------------------------------------
\* A thread in cond.c that is not asleep comes out or falls asleep: no call
\* spins for ever on the locks of the nodes, the queues and the clients.
CallsEnd == \A t \in Threads :
  pc[t] # "idle" /\ sched[t] = "runnable"
    ~> pc[t] = "idle" \/ sched[t] = "blocked"

\* cond.h:122: a thread that was woken has its mutex again when it returns,
\* and does return.
WokenReacquires == \A t \in Threads : \A c \in Conds :
  pc[t] = "sleep" /\ cv[t] = c /\ sched[t] = "runnable"
    ~> pc[t] = "idle" /\ mp[Guard[c]] = t

=============================================================================
