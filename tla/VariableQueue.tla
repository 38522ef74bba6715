---------------------------- MODULE VariableQueue ----------------------------
(***************************************************************************)
(* The queue macros of include/timix/variable_queue.h: doubly linked lists *)
(* through a link that each element holds.  The field "ptr" of a queue     *)
(* head, a temporary of the macros, is a LET.                              *)
(***************************************************************************)
EXTENDS Naturals, FiniteSets, SequencesExt

CONSTANTS
  Queues,
  Elements,
  AfterLastOnly,  \* whether Q_INSERT_AFTER is used on tails only
  NULL

ASSUME VariableQueueAssumption ==
  /\ IsFiniteSet(Elements)
  /\ AfterLastOnly \in BOOLEAN
  /\ NULL \notin Elements

VARIABLES
  head, tail,  \* of each queue
  next, prev   \* of the link of each element

vars == <<head, tail, next, prev>>

\* Every queue and every element is initialized once, before any use.
Init ==
  /\ head = [q \in Queues |-> NULL]
  /\ tail = [q \in Queues |-> NULL]
  /\ next = [e \in Elements |-> NULL]
  /\ prev = [e \in Elements |-> NULL]

\* The elements that the links f lead to from the element "start".
Walk(start, f) ==
  LET at[k \in 1..(Cardinality(Elements) + 1)] ==
        IF k = 1 THEN start
        ELSE IF at[k - 1] = NULL THEN NULL ELSE f[at[k - 1]]
  IN  [k \in 1..Cardinality({j \in DOMAIN at : at[j] # NULL}) |-> at[k]]

\* The elements that Q_FOREACH visits.
Q_FOREACH(q) == Walk(head[q], next)

In(q, e) == Contains(Q_FOREACH(q), e)
Detached(e) == \A q \in Queues : ~In(q, e)

-----------------------------------------------------------------------------
(* Faulty variants of the macros below: each breaks a property.            *)

\* Does not link the old front back to the new one.
InsertsHalf(q, e) ==
  /\ Detached(e)
  /\ next' = [next EXCEPT ![e] = head[q]]
  /\ head' = [head EXCEPT ![q] = e]
  /\ tail' = IF tail[q] = NULL THEN [tail EXCEPT ![q] = e] ELSE tail
  /\ UNCHANGED prev

\* Leaves the tail where it was.
RemovesFromFront(q, e) ==
  /\ In(q, e)
  /\ head' = IF head[q] = e THEN [head EXCEPT ![q] = next[e]] ELSE head
  /\ next' = [x \in Elements |->
       IF x = e THEN NULL ELSE IF x = prev[e] THEN next[e] ELSE next[x]]
  /\ prev' = [x \in Elements |->
       IF x = e THEN NULL ELSE IF x = next[e] THEN prev[e] ELSE prev[x]]
  /\ UNCHANGED tail

-----------------------------------------------------------------------------
Q_INSERT_FRONT(q, e) ==
  /\ Detached(e)
  /\ next' = [next EXCEPT ![e] = head[q]]
  /\ prev' = IF head[q] # NULL THEN [prev EXCEPT ![head[q]] = e] ELSE prev
  /\ head' = [head EXCEPT ![q] = e]
  /\ tail' = IF tail[q] = NULL THEN [tail EXCEPT ![q] = e] ELSE tail

Q_INSERT_TAIL(q, e) ==
  /\ Detached(e)
  /\ prev' = [prev EXCEPT ![e] = tail[q]]
  /\ next' = IF tail[q] # NULL THEN [next EXCEPT ![tail[q]] = e] ELSE next
  /\ tail' = [tail EXCEPT ![q] = e]
  /\ head' = IF head[q] = NULL THEN [head EXCEPT ![q] = e] ELSE head

Q_CONCAT(q, r) ==
  LET empty == tail[q] = NULL
      links == ~empty /\ head[r] # NULL
  IN  /\ q # r
      /\ head' = [head EXCEPT ![q] = IF empty THEN head[r] ELSE @, ![r] = NULL]
      /\ tail' = [tail EXCEPT ![q] = IF empty \/ links THEN tail[r] ELSE @,
                              ![r] = NULL]
      /\ next' = IF links THEN [next EXCEPT ![tail[q]] = head[r]] ELSE next
      /\ prev' = IF links THEN [prev EXCEPT ![head[r]] = tail[q]] ELSE prev

\* In the middle of a queue, ptr is the successor of x, and the last two
\* assignments of the macro are made to it too.
Q_INSERT_AFTER(q, x, e) ==
  LET last == tail[q] = x
      ptr  == IF last THEN x ELSE next[x]
  IN  /\ Detached(e)
      /\ In(q, x)
      /\ AfterLastOnly => last
      /\ tail' = IF last THEN [tail EXCEPT ![q] = e] ELSE tail
      /\ next' = IF last THEN [next EXCEPT ![x] = e]
                         ELSE [next EXCEPT ![e] = ptr, ![ptr] = e]
      /\ prev' = IF last THEN [prev EXCEPT ![e] = x]
                         ELSE [prev EXCEPT ![ptr] = e, ![e] = ptr]
      /\ UNCHANGED head

Q_INSERT_BEFORE(q, x, e) ==
  LET first == head[q] = x
      ptr   == prev[x]
  IN  /\ Detached(e)
      /\ In(q, x)
      /\ head' = IF first THEN [head EXCEPT ![q] = e] ELSE head
      /\ next' = IF first THEN [next EXCEPT ![e] = x]
                          ELSE [next EXCEPT ![ptr] = e, ![e] = x]
      /\ prev' = IF first THEN [prev EXCEPT ![x] = e]
                          ELSE [prev EXCEPT ![e] = ptr, ![x] = e]
      /\ UNCHANGED tail

Q_REMOVE(q, e) ==
  /\ In(q, e)
  /\ head' = IF head[q] = e THEN [head EXCEPT ![q] = next[e]] ELSE head
  /\ tail' = IF tail[q] = e THEN [tail EXCEPT ![q] = prev[e]] ELSE tail
  /\ next' = [x \in Elements |->
       IF x = e THEN NULL ELSE IF x = prev[e] THEN next[e] ELSE next[x]]
  /\ prev' = [x \in Elements |->
       IF x = e THEN NULL ELSE IF x = next[e] THEN prev[e] ELSE prev[x]]

Next == \E q \in Queues :
  \/ \E r \in Queues : Q_CONCAT(q, r)
  \/ \E e \in Elements :
       \/ Q_INSERT_FRONT(q, e) \/ Q_INSERT_TAIL(q, e) \/ Q_REMOVE(q, e)
       \/ \E x \in Elements : Q_INSERT_AFTER(q, x, e) \/ Q_INSERT_BEFORE(q, x, e)

Spec == Init /\ [][Next]_vars

-----------------------------------------------------------------------------
(* Properties                                                              *)

\* The two directions of the links tell the same story, and an element in no
\* queue is as Q_INIT_ELEM leaves it, so that inserting it needs no care:
\* cond_signal goes by the tail, where cond_interrupt walks from the head.
LinksAgree ==
  /\ \A q \in Queues : Walk(tail[q], prev) = Reverse(Q_FOREACH(q))
  /\ \A e \in Elements : Detached(e) => next[e] = NULL /\ prev[e] = NULL

Lists == INSTANCE ListSpec WITH list <- [q \in Queues |-> Q_FOREACH(q)]

\* variable_queue.h:236, "Inserts the queue element Q_TOINSERT after the element
\* Q_INQ in the queue", and so for each macro: the elements Q_FOREACH visits
\* change as the comment of the macro says.
ImplementsLists == Lists!Spec

=============================================================================
