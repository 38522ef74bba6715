----------------------------- MODULE AtomicSpec -----------------------------
(***************************************************************************)
(* The operations that include/timix/atomic.h promises, on one location:   *)
(* each acts at once, between its call and its return.                     *)
(***************************************************************************)
EXTENDS Naturals

CONSTANTS Threads, Word, Operations, NULL

VARIABLES
  mem,  \* the location
  op,   \* the operation each thread is in, or NULL
  res   \* what its last operation returns, NULL until it has acted

vars == <<mem, op, res>>

\* The value an operation leaves, and what it returns.
NewValue(o, m) ==
  CASE o.name = "swap" -> o.val
    [] o.name = "add"  -> (m + o.val) % Word
    [] o.name \in {"swap_conditional", "swap8"} -> IF m = o.old THEN o.val ELSE m
Result(o, m) ==
  IF o.name \in {"swap", "add"} THEN m ELSE IF m = o.old THEN 0 ELSE 1

Init ==
  /\ mem = 0
  /\ op  = [t \in Threads |-> NULL]
  /\ res = [t \in Threads |-> NULL]

Call(t) ==
  /\ op[t] = NULL
  /\ \E o \in Operations : op' = [op EXCEPT ![t] = o]
  /\ res' = [res EXCEPT ![t] = NULL]
  /\ UNCHANGED mem

Act(t) ==
  /\ op[t] # NULL /\ res[t] = NULL
  /\ mem' = NewValue(op[t], mem)
  /\ res' = [res EXCEPT ![t] = Result(op[t], mem)]
  /\ UNCHANGED op

Return(t) ==
  /\ op[t] # NULL /\ res[t] # NULL
  /\ op' = [op EXCEPT ![t] = NULL]
  /\ UNCHANGED <<mem, res>>

\* The plain store of mutex_unlock.
Store == mem' = 0 /\ UNCHANGED <<op, res>>

Next == (\E t \in Threads : Call(t) \/ Act(t) \/ Return(t)) \/ Store

=============================================================================
