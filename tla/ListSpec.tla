------------------------------ MODULE ListSpec ------------------------------
(***************************************************************************)
(* What the comments of include/timix/variable_queue.h say of the queue    *)
(* macros: each queue is a sequence of elements, front first, and an       *)
(* element is in one queue at most.                                        *)
(***************************************************************************)
EXTENDS Naturals, SequencesExt

CONSTANTS Queues, Elements

VARIABLE list  \* the elements of each queue

Init == list = [q \in Queues |-> <<>>]

In(q, e) == Contains(list[q], e)
Detached(e) == \A q \in Queues : ~In(q, e)

InsertFront(q, e) == Detached(e) /\ list' = [list EXCEPT ![q] = <<e>> \o @]

InsertTail(q, e) == Detached(e) /\ list' = [list EXCEPT ![q] = Append(@, e)]

InsertAfter(q, x, e) ==
  /\ Detached(e)
  /\ \E i \in DOMAIN list[q] :
       list[q][i] = x /\ list' = [list EXCEPT ![q] = InsertAt(@, i + 1, e)]

InsertBefore(q, x, e) ==
  /\ Detached(e)
  /\ \E i \in DOMAIN list[q] :
       list[q][i] = x /\ list' = [list EXCEPT ![q] = InsertAt(@, i, e)]

Concat(q, r) ==
  q # r /\ list' = [list EXCEPT ![q] = @ \o list[r], ![r] = <<>>]

Delete(q, e) ==
  \E i \in DOMAIN list[q] :
    list[q][i] = e /\ list' = [list EXCEPT ![q] = RemoveAt(@, i)]

Next == \E q \in Queues :
  \/ \E r \in Queues : Concat(q, r)
  \/ \E e \in Elements :
       \/ InsertFront(q, e) \/ InsertTail(q, e) \/ Delete(q, e)
       \/ \E x \in Elements : InsertAfter(q, x, e) \/ InsertBefore(q, x, e)

Spec == Init /\ [][Next]_list

=============================================================================
