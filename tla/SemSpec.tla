------------------------------ MODULE SemSpec -------------------------------
(***************************************************************************)
(* The counting semaphore that include/timix/sem.h promises.               *)
(***************************************************************************)
EXTENDS Naturals

CONSTANTS Threads, InitialCount, NULL

VARIABLES
  value,   \* the permits nobody has
  status,  \* "out" of sem_wait, "waiting" in it, or "granted" a permit
  result   \* what each thread's last sem_wait returned, or NULL

vars == <<value, status, result>>

Init ==
  /\ value  = InitialCount
  /\ status = [t \in Threads |-> "out"]
  /\ result = [t \in Threads |-> NULL]

Moves(t, from, to) == status[t] = from /\ status' = [status EXCEPT ![t] = to]
Answers(t, val) == result' = [result EXCEPT ![t] = val]

Begin(t) == Moves(t, "out", "waiting") /\ Answers(t, NULL) /\ UNCHANGED value

\* Only whoever takes a permit passes.
Grant(t) ==
  /\ Moves(t, "waiting", "granted")
  /\ value > 0
  /\ value' = value - 1
  /\ UNCHANGED result

Return(t) == Moves(t, "granted", "out") /\ Answers(t, "0") /\ UNCHANGED value

\* An interrupted thread leaves without a permit.
Fail(t) == Moves(t, "waiting", "out") /\ Answers(t, "-EINTR") /\ UNCHANGED value

Signal == value' = value + 1 /\ UNCHANGED <<status, result>>

Next ==
  \/ \E t \in Threads : Begin(t) \/ Grant(t) \/ Return(t) \/ Fail(t)
  \/ Signal

Spec == Init /\ [][Next]_vars

=============================================================================
