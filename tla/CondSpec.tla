------------------------------ MODULE CondSpec ------------------------------
(***************************************************************************)
(* What include/timix/cond.h promises of a condition variable, with no     *)
(* lock but the mutexes of the clients.  Each call takes effect in one     *)
(* step between its beginning and its end:                                 *)
(*                                                                         *)
(*   cond_wait       queues the caller and releases the mutex; it returns  *)
(*                   with the mutex held, 0 if the thread was signaled,    *)
(*                   -EINTR if it was interrupted or could not sleep;      *)
(*   cond_signal     wakes the thread that waits longest, if any waits;    *)
(*   cond_broadcast  wakes all that wait;                                  *)
(*   cond_interrupt  wakes the given thread, or answers -EINVAL.           *)
(***************************************************************************)
EXTENDS Naturals, SequencesExt

CONSTANTS Threads, Mutexes, Conds, Guard, Killable, NULL

VARIABLES
  mp,     \* owner of each mutex, NULL if unlocked
  queue,  \* the waiting threads of each condition variable, newest first
  state,  \* "running", "waiting", "signaled" or "interrupted"
  call,   \* the call each thread has begun and that is not done, or NULL
  ret     \* the result of each thread's last call, NULL if it has none

vars == <<mp, queue, state, call, ret>>

Operations ==
  {<<"wait", c, u>> : c \in Conds, u \in BOOLEAN} \cup
  {<<kind, c>> : kind \in {"signal", "broadcast"}, c \in Conds} \cup
  {<<"interrupt", u>> : u \in Threads}

Init ==
  /\ mp    = [m \in Mutexes |-> NULL]
  /\ queue = [c \in Conds |-> <<>>]
  /\ state = [t \in Threads |-> "running"]
  /\ call  = [t \in Threads |-> NULL]
  /\ ret   = [t \in Threads |-> NULL]

Lock(t, m) ==
  /\ call[t] = NULL
  /\ mp[m] = NULL
  /\ mp' = [mp EXCEPT ![m] = t]
  /\ UNCHANGED <<queue, state, call, ret>>

Unlock(t, m) ==
  /\ call[t] = NULL
  /\ mp[m] = t
  /\ mp' = [mp EXCEPT ![m] = NULL]
  /\ UNCHANGED <<queue, state, call, ret>>

Begin(t, op) ==
  /\ call[t] = NULL
  /\ op[1] = "wait" => mp[Guard[op[2]]] = t
  /\ call' = [call EXCEPT ![t] = op]
  /\ ret' = [ret EXCEPT ![t] = NULL]
  /\ UNCHANGED <<mp, queue, state>>

End(t, op, result) ==
  /\ call[t] = op
  /\ call' = [call EXCEPT ![t] = NULL]
  /\ ret' = [ret EXCEPT ![t] = result]

Waits(t, c, u) == call[t] = <<"wait", c, u>>

Wait(t, c, u) ==
  /\ Waits(t, c, u)
  /\ state[t] = "running"
  /\ mp' = [mp EXCEPT ![Guard[c]] = NULL]
  /\ queue' = [queue EXCEPT ![c] = <<t>> \o @]
  /\ state' = [state EXCEPT ![t] = "waiting"]
  /\ UNCHANGED <<call, ret>>

\* The thread is unable to sleep: nothing happened, and it keeps the mutex.
WaitFails(t, c) ==
  /\ t \in Killable
  /\ state[t] = "running"
  /\ End(t, <<"wait", c, FALSE>>, "-EINTR")
  /\ UNCHANGED <<mp, queue, state>>

\* A woken thread takes the mutex again and returns.
WaitReturns(t, c, u) ==
  /\ \/ state[t] = "signaled" /\ End(t, <<"wait", c, u>>, "0")
     \/ state[t] = "interrupted" /\ End(t, <<"wait", c, u>>, "-EINTR")
  /\ mp[Guard[c]] = NULL
  /\ mp' = [mp EXCEPT ![Guard[c]] = t]
  /\ state' = [state EXCEPT ![t] = "running"]
  /\ UNCHANGED queue

Wakes(S, why) ==
  state' = [t \in Threads |-> IF t \in S THEN why ELSE state[t]]

Signal(t, c) ==
  /\ End(t, <<"signal", c>>, NULL)
  /\ IF queue[c] = <<>>
     THEN UNCHANGED <<queue, state>>
     ELSE /\ queue' = [queue EXCEPT ![c] = Front(@)]
          /\ Wakes({Last(queue[c])}, "signaled")
  /\ UNCHANGED mp

Broadcast(t, c) ==
  /\ End(t, <<"broadcast", c>>, NULL)
  /\ queue' = [queue EXCEPT ![c] = <<>>]
  /\ Wakes(ToSet(queue[c]), "signaled")
  /\ UNCHANGED mp

\* Whoever waits uninterruptably is not woken.
Interrupt(t, u) ==
  /\ End(t, <<"interrupt", u>>, "0")
  /\ state[u] = "waiting"
  /\ \E c \in Conds : \E i \in 1..Len(queue[c]) :
       /\ Waits(u, c, FALSE)
       /\ queue[c][i] = u
       /\ queue' = [queue EXCEPT ![c] = RemoveAt(@, i)]
  /\ Wakes({u}, "interrupted")
  /\ UNCHANGED mp

InterruptFails(t, u) ==
  /\ End(t, <<"interrupt", u>>, "-EINVAL")
  /\ ~(state[u] = "waiting" /\ \E c \in Conds : Waits(u, c, FALSE))
  /\ UNCHANGED <<mp, queue, state>>

Next == \E t \in Threads :
  \/ \E m \in Mutexes : Lock(t, m) \/ Unlock(t, m)
  \/ \E op \in Operations : Begin(t, op)
  \/ \E c \in Conds :
       \/ \E u \in BOOLEAN : Wait(t, c, u) \/ WaitReturns(t, c, u)
       \/ WaitFails(t, c) \/ Signal(t, c) \/ Broadcast(t, c)
  \/ \E u \in Threads : Interrupt(t, u) \/ InterruptFails(t, u)

Spec == Init /\ [][Next]_vars

=============================================================================
