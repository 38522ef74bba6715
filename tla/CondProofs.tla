----------------------------- MODULE CondProofs -----------------------------
(***************************************************************************)
(* Theorems about Cond, for any number of threads, mutexes and condition   *)
(* variables.                                                              *)
(***************************************************************************)
EXTENDS CondRefinement, QueueLemmas

-----------------------------------------------------------------------------
(* Types                                                                   *)

\* The local variables of a call are set from its first step to its last.
LocalsSet ==
  \A t \in Threads :
    /\ pc[t] \in WaitLabels \cup SignalLabels \cup {"intr_q", "intr_remove"}
         => cv[t] \in Conds
    /\ pc[t] \in InterruptLabels \cup {"intr_wake"} => target[t] \in Threads

TypeInv == TypeOK /\ LocalsSet

LEMMA TypeInit == Init => TypeInv
BY EmptySeq DEF Init, TypeInv, TypeOK, LocalsSet, OwnerOrNull, Labels,
   WaitLabels, SignalLabels, InterruptLabels

LEMMA CallType ==
  ASSUME TypeInv, NEW t \in Threads, Call(t)
  PROVE  TypeInv'
<1> USE DEF TypeInv, TypeOK, LocalsSet, OwnerOrNull, Labels, WaitLabels,
            SignalLabels, InterruptLabels, Begin, Goto, locals, nodes
<1>1. ASSUME NEW m \in Mutexes, ClientLock(t, m)
      PROVE  TypeInv'
  BY <1>1 DEF ClientLock, mutex_lock
<1>2. ASSUME NEW c \in Conds, NEW u \in BOOLEAN, CallWait(t, c, u)
      PROVE  TypeInv'
  BY <1>2 DEF CallWait
<1>3. ASSUME NEW c \in Conds, CallSignal(t, c)
      PROVE  TypeInv'
  BY <1>3 DEF CallSignal
<1>4. ASSUME NEW c \in Conds, CallBroadcast(t, c)
      PROVE  TypeInv'
  BY <1>4 DEF CallBroadcast
<1>5. ASSUME NEW u \in Threads, CallInterrupt(t, u)
      PROVE  TypeInv'
  BY <1>5 DEF CallInterrupt
<1> QED
  BY <1>1, <1>2, <1>3, <1>4, <1>5 DEF Call

LEMMA WaitType ==
  ASSUME TypeInv, NEW t \in Threads, WaitStep(t)
  PROVE  TypeInv'
<1> USE DEF TypeInv, TypeOK, LocalsSet, OwnerOrNull, Labels, WaitLabels,
            SignalLabels, InterruptLabels, Goto, locals, nodes, mutex_lock,
            mutex_unlock, Return, End
<1>1. CASE WaitLockNode(t)
  BY <1>1 DEF WaitLockNode
<1>2. CASE WaitLockQ(t)
  BY <1>2 DEF WaitLockQ
<1>3. CASE WaitPush(t)
  <2>1. <<t>> \o waiting[cv[t]] \in Seq(Threads)
    BY <1>3, ConcatProperties DEF WaitPush
  <2> QED
    BY <1>3, <2>1 DEF WaitPush, cond_q_push
<1>4. CASE WaitBlock(t)
  BY <1>4 DEF WaitBlock, sched_set_blocked
<1>5. CASE WaitRollback(t)
  <2>1. Front(waiting[cv[t]]) \in Seq(Threads)
    BY <1>5, FrontType DEF WaitRollback
  <2> QED
    BY <1>5, <2>1 DEF WaitRollback, cond_q_pop
<1>6. CASE WaitWake(t)
  BY <1>6 DEF WaitWake
<1>7. CASE WaitReturn(t)
  BY <1>7 DEF WaitReturn
<1> QED
  BY <1>1, <1>2, <1>3, <1>4, <1>5, <1>6, <1>7 DEF WaitStep

LEMMA SignalType ==
  ASSUME TypeInv, NEW t \in Threads, SignalStep(t)
  PROVE  TypeInv'
<1> USE DEF TypeInv, TypeOK, LocalsSet, OwnerOrNull, Labels, WaitLabels,
            SignalLabels, InterruptLabels, Goto, locals, nodes, mutex_lock,
            mutex_unlock, End
<1>1. ASSUME cv[t] \in Conds, do_cond_signal_unsafe(cv[t])
      PROVE  /\ waiting' \in [Conds -> Seq(Threads)]
             /\ sched' \in [Threads -> {"runnable", "blocked"}]
  <2>1. Front(waiting[cv[t]]) \in Seq(Threads)
    BY <1>1, FrontType
  <2> QED
    BY <1>1, <2>1 DEF do_cond_signal_unsafe, cond_q_pop, sched_unblock_tcb
<1>2. CASE SignalLockQ(t)
  BY <1>2 DEF SignalLockQ
<1>3. CASE SignalPop(t)
  BY <1>1, <1>3 DEF SignalPop
<1>4. CASE BroadcastLockQ(t)
  BY <1>4 DEF BroadcastLockQ
<1>5. CASE BroadcastPop(t)
  BY <1>1, <1>5 DEF BroadcastPop
<1>6. CASE BroadcastEnd(t)
  BY <1>6 DEF BroadcastEnd
<1> QED
  BY <1>2, <1>3, <1>4, <1>5, <1>6 DEF SignalStep

LEMMA InterruptType ==
  ASSUME TypeInv, NEW t \in Threads, InterruptStep(t)
  PROVE  TypeInv'
<1> USE DEF TypeInv, TypeOK, LocalsSet, OwnerOrNull, Labels, WaitLabels,
            SignalLabels, InterruptLabels, Goto, locals, nodes, mutex_lock,
            mutex_unlock, Return, End
<1>1. CASE InterruptLockNode(t)
  BY <1>1 DEF InterruptLockNode
<1>2. CASE InterruptRefuse(t)
  BY <1>2 DEF InterruptRefuse
<1>3. CASE InterruptAccept(t)
  BY <1>3 DEF InterruptAccept
<1>4. CASE InterruptLockQ(t)
  BY <1>4 DEF InterruptLockQ
<1>5. CASE InterruptRemove(t)
  <2>1. PICK i \in 1..Len(waiting[cv[t]]) :
          waiting' = [waiting EXCEPT ![cv[t]] = RemoveAt(@, i)]
    BY <1>5 DEF InterruptRemove, cond_q_remove
  <2>2. RemoveAt(waiting[cv[t]], i) \in Seq(Threads)
    BY <1>5, RemoveAtElements DEF InterruptRemove
  <2> QED
    BY <1>5, <2>1, <2>2 DEF InterruptRemove
<1>6. CASE InterruptTooLate(t)
  BY <1>6 DEF InterruptTooLate
<1>7. CASE InterruptWake(t)
  BY <1>7 DEF InterruptWake, sched_unblock_tcb, INTERRUPTED
<1> QED
  BY <1>1, <1>2, <1>3, <1>4, <1>5, <1>6, <1>7 DEF InterruptStep

LEMMA TypeStep == TypeInv /\ [Next]_vars => TypeInv'
<1> SUFFICES ASSUME TypeInv, [Next]_vars PROVE TypeInv'
  OBVIOUS
<1>1. CASE UNCHANGED vars
  BY <1>1 DEF vars, TypeInv, TypeOK, LocalsSet
<1>2. ASSUME NEW t \in Threads, NEW m \in Mutexes, ClientUnlock(t, m)
      PROVE  TypeInv'
  BY <1>2 DEF ClientUnlock, mutex_unlock, locals, nodes, TypeInv, TypeOK,
              LocalsSet, OwnerOrNull
<1> QED
  BY <1>1, <1>2, CallType, WaitType, SignalType, InterruptType
     DEF Next, Unlock, Kernel

\* Every variable of Cond keeps its type, and no call uses a local variable
\* before it has set it.
THEOREM TypeCorrect == Spec => []TypeOK
<1>1. TypeInv => TypeOK
  BY DEF TypeInv
<1> QED
  BY <1>1, TypeInit, TypeStep, PTL DEF Spec

-----------------------------------------------------------------------------
(* Locks                                                                   *)

LockInv == TypeInv /\ LocksMatchSections

LEMMA CallLocks ==
  ASSUME LockInv, NEW t \in Threads, Call(t) \/ Unlock(t)
  PROVE  LocksMatchSections'
<1> USE CondAssumption
    DEF LockInv, TypeInv, TypeOK, OwnerOrNull, LocksMatchSections, InNode,
        InQueue, Begin, Goto, locals, nodes
<1>1. ASSUME NEW m \in Mutexes, ClientLock(t, m)
      PROVE  LocksMatchSections'
  BY <1>1 DEF ClientLock, mutex_lock
<1>2. ASSUME NEW m \in Mutexes, ClientUnlock(t, m)
      PROVE  LocksMatchSections'
  BY <1>2 DEF ClientUnlock, mutex_unlock
<1>3. ASSUME NEW c \in Conds, NEW u \in BOOLEAN, CallWait(t, c, u)
      PROVE  LocksMatchSections'
  BY <1>3 DEF CallWait
<1>4. ASSUME NEW c \in Conds, CallSignal(t, c)
      PROVE  LocksMatchSections'
  BY <1>4 DEF CallSignal
<1>5. ASSUME NEW c \in Conds, CallBroadcast(t, c)
      PROVE  LocksMatchSections'
  BY <1>5 DEF CallBroadcast
<1>6. ASSUME NEW u \in Threads, CallInterrupt(t, u)
      PROVE  LocksMatchSections'
  BY <1>6 DEF CallInterrupt
<1> QED
  BY <1>1, <1>2, <1>3, <1>4, <1>5, <1>6 DEF Call, Unlock

LEMMA WaitLocks ==
  ASSUME LockInv, NEW t \in Threads, WaitStep(t)
  PROVE  LocksMatchSections'
<1> USE CondAssumption
    DEF LockInv, TypeInv, TypeOK, LocalsSet, WaitLabels, OwnerOrNull,
        LocksMatchSections, InNode, InQueue, Goto, locals, nodes,
        mutex_lock, mutex_unlock, Return, End
<1>1. CASE WaitLockNode(t)
  BY <1>1 DEF WaitLockNode
<1>2. CASE WaitLockQ(t)
  BY <1>2 DEF WaitLockQ
<1>3. CASE WaitPush(t)
  BY <1>3 DEF WaitPush
<1>4. CASE WaitBlock(t)
  BY <1>4 DEF WaitBlock
<1>5. CASE WaitRollback(t)
  BY <1>5 DEF WaitRollback
<1>6. CASE WaitWake(t)
  BY <1>6 DEF WaitWake
<1>7. CASE WaitReturn(t)
  BY <1>7 DEF WaitReturn
<1> QED
  BY <1>1, <1>2, <1>3, <1>4, <1>5, <1>6, <1>7 DEF WaitStep

LEMMA SignalLocks ==
  ASSUME LockInv, NEW t \in Threads, SignalStep(t)
  PROVE  LocksMatchSections'
<1> USE CondAssumption
    DEF LockInv, TypeInv, TypeOK, LocalsSet, SignalLabels, OwnerOrNull,
        LocksMatchSections, InNode, InQueue, Goto, locals, nodes,
        mutex_lock, mutex_unlock, End
<1>1. CASE SignalLockQ(t)
  BY <1>1 DEF SignalLockQ
<1>2. CASE SignalPop(t)
  BY <1>2 DEF SignalPop
<1>3. CASE BroadcastLockQ(t)
  BY <1>3 DEF BroadcastLockQ
<1>4. CASE BroadcastPop(t)
  BY <1>4 DEF BroadcastPop
<1>5. CASE BroadcastEnd(t)
  BY <1>5 DEF BroadcastEnd
<1> QED
  BY <1>1, <1>2, <1>3, <1>4, <1>5 DEF SignalStep

LEMMA InterruptLocks ==
  ASSUME LockInv, NEW t \in Threads, InterruptStep(t)
  PROVE  LocksMatchSections'
<1> USE CondAssumption
    DEF LockInv, TypeInv, TypeOK, LocalsSet, InterruptLabels, OwnerOrNull,
        LocksMatchSections, InNode, InQueue, Goto, locals, nodes,
        mutex_lock, mutex_unlock, Return, End
<1>1. CASE InterruptLockNode(t)
  BY <1>1 DEF InterruptLockNode
<1>2. CASE InterruptRefuse(t)
  BY <1>2 DEF InterruptRefuse
<1>3. CASE InterruptAccept(t)
  BY <1>3 DEF InterruptAccept
<1>4. CASE InterruptLockQ(t)
  BY <1>4 DEF InterruptLockQ
<1>5. CASE InterruptRemove(t)
  BY <1>5 DEF InterruptRemove
<1>6. CASE InterruptTooLate(t)
  BY <1>6 DEF InterruptTooLate
<1>7. CASE InterruptWake(t)
  BY <1>7 DEF InterruptWake
<1> QED
  BY <1>1, <1>2, <1>3, <1>4, <1>5, <1>6, <1>7 DEF InterruptStep

LEMMA LockStep == LockInv /\ [Next]_vars => LocksMatchSections'
<1> SUFFICES ASSUME LockInv, [Next]_vars PROVE LocksMatchSections'
  OBVIOUS
<1>1. CASE UNCHANGED vars
  BY <1>1 DEF vars, LockInv, LocksMatchSections, InNode, InQueue
<1>2. CASE Next
  BY <1>2, CallLocks, WaitLocks, SignalLocks, InterruptLocks DEF Next, Kernel
<1> QED
  BY <1>1, <1>2

LEMMA LockInit == Init => LockInv
<1> SUFFICES ASSUME Init PROVE LocksMatchSections
  BY TypeInit DEF LockInv
<1> QED
  BY CondAssumption DEF Init, LocksMatchSections, InNode, InQueue

\* cond.c never frees a lock that another thread holds, and holds each lock
\* exactly where the code it protects runs.
THEOREM LocksCorrect == Spec => []LocksMatchSections
<1>1. LockInv /\ [Next]_vars => LockInv'
  BY LockStep, TypeStep DEF LockInv
<1>2. LockInv => LocksMatchSections
  BY DEF LockInv
<1> QED
  BY <1>1, <1>2, LockInit, PTL DEF Spec

-----------------------------------------------------------------------------
(* Waiters                                                                 *)

\* What the invariants of the waiters rest on besides the locks.
\* A thread between its push and its sleep is in the queue.
PushedIsQueued ==
  \A t \in Threads : pc[t] = "wait_block" => Queued(cv[t], t)

BlockedInWait ==
  \A t \in Threads : sched[t] = "blocked" => pc[t] = "sleep"

\* The thread that cond_interrupt is about to wake is in no queue any more.
InterruptedIsOut ==
  \A t \in Threads, c \in Conds :
    pc[t] = "intr_wake" => ~Queued(c, target[t])

\* The flags of a waiting thread's node say how it waits, and those that
\* cond_interrupt has read do not change before it uses them.
FlagsMatch ==
  \A t \in Threads :
    /\ pc[t] \in {"wait_block", "sleep", "wait_mp"} /\ unint[t]
         => flags[t] = {UNINTERRUPTABLE}
    /\ pc[t] \in {"intr_q", "intr_remove"}
         => UNINTERRUPTABLE \notin flags[target[t]]

\* Who waits on a condition variable is one of its waiters.
WaitersOnly == \A t \in Threads : pc[t] \in WaitLabels => t \in Waiters[cv[t]]

\* Whom the scheduler may refuse to block has its condition variable to
\* itself, so that the rollback of its wait finds nobody else in the queue.
RollbackSafe ==
  \A c \in Conds : \A t \in Waiters[c] \cap Killable, u \in Waiters[c] : u = t

WaiterParts ==
  /\ QueuedOnlyWhileWaiting
  /\ NoWaiterLost
  /\ InterruptHitsItsWait
  /\ PushedIsQueued
  /\ BlockedInWait
  /\ InterruptedIsOut
  /\ FlagsMatch

WaiterInv == LockInv /\ WaitersOnly /\ WaiterParts

OthersStay(t) ==
  \A u \in Threads \ {t} :
    /\ pc'[u] = pc[u] /\ cv'[u] = cv[u]
    /\ target'[u] = target[u] /\ unint'[u] = unint[u]

LEMMA WaitersOnlyStep == TypeInv /\ WaitersOnly /\ [Next]_vars => WaitersOnly'
<1> SUFFICES ASSUME TypeInv, WaitersOnly, [Next]_vars PROVE WaitersOnly'
  OBVIOUS
<1> USE DEF TypeInv, TypeOK, WaitersOnly, WaitLabels, Goto
<1>1. CASE UNCHANGED vars
  BY <1>1 DEF vars
\* A step of t that leaves the other threads alone.
<1>2. ASSUME NEW t \in Threads, OthersStay(t), pc'[t] \in WaitLabels => t \in Waiters[cv'[t]]
      PROVE  WaitersOnly'
  BY <1>2 DEF OthersStay
<1>3. ASSUME NEW t \in Threads, Call(t) \/ Unlock(t)
      PROVE  WaitersOnly'
  <2>1. OthersStay(t)
    BY <1>3 DEF OthersStay, Call, Unlock, ClientLock, ClientUnlock, CallWait, CallSignal,
       CallBroadcast, CallInterrupt, Begin, locals
  <2>2. pc'[t] \in WaitLabels => t \in Waiters[cv'[t]]
    BY <1>3 DEF Call, Unlock, ClientLock, ClientUnlock, CallWait, CallSignal,
       CallBroadcast, CallInterrupt, Begin, locals
  <2> QED
    BY <1>2, <2>1, <2>2
<1>4. ASSUME NEW t \in Threads, WaitStep(t)
      PROVE  WaitersOnly'
  <2>1. OthersStay(t)
    BY <1>4 DEF OthersStay, WaitStep, WaitLockNode, WaitLockQ, WaitPush, WaitBlock,
       WaitRollback, WaitWake, WaitReturn, Return, End, locals
  <2>2. pc'[t] \in WaitLabels => t \in Waiters[cv'[t]]
    BY <1>4 DEF WaitStep, WaitLockNode, WaitLockQ, WaitPush, WaitBlock,
       WaitRollback, WaitWake, WaitReturn, Return, End, locals
  <2> QED
    BY <1>2, <2>1, <2>2
<1>5. ASSUME NEW t \in Threads, SignalStep(t)
      PROVE  WaitersOnly'
  <2>1. OthersStay(t)
    BY <1>5 DEF OthersStay, SignalStep, SignalLockQ, SignalPop, BroadcastLockQ,
       BroadcastPop, BroadcastEnd, End, locals
  <2>2. pc'[t] \notin WaitLabels
    BY <1>5 DEF SignalStep, SignalLockQ, SignalPop, BroadcastLockQ,
       BroadcastPop, BroadcastEnd, End, locals
  <2> QED
    BY <1>2, <2>1, <2>2
<1>6. ASSUME NEW t \in Threads, InterruptStep(t)
      PROVE  WaitersOnly'
  <2>1. OthersStay(t)
    BY <1>6 DEF OthersStay, InterruptStep, InterruptLockNode, InterruptRefuse,
       InterruptAccept, InterruptLockQ, InterruptRemove, InterruptTooLate,
       InterruptWake, Return, End, locals
  <2>2. pc'[t] \notin WaitLabels
    BY <1>6 DEF InterruptStep, InterruptLockNode, InterruptRefuse,
       InterruptAccept, InterruptLockQ, InterruptRemove, InterruptTooLate,
       InterruptWake, Return, End, locals
  <2> QED
    BY <1>2, <2>1, <2>2
<1> QED
  BY <1>1, <1>3, <1>4, <1>5, <1>6 DEF Next, Kernel

\* The rollback of do_cond_wait takes the caller's own node out of the queue,
\* the only one in it.
LEMMA RollbackPops ==
  ASSUME WaiterInv, RollbackSafe, NEW t \in Threads, WaitRollback(t)
  PROVE  /\ cv[t] \in Conds /\ Contains(waiting[cv[t]], t)
         /\ \A y : Contains(waiting[cv[t]], y) => y = t
         /\ Len(waiting[cv[t]]) = 1
         /\ waiting' = [waiting EXCEPT ![cv[t]] = <<>>]
<1> DEFINE c == cv[t]
<1>1. c \in Conds /\ waiting[c] \in Seq(Threads) /\ IsInjective(waiting[c])
  BY DEF WaitRollback, Goto, WaiterInv, WaiterParts, QueuedOnlyWhileWaiting, LockInv,
     TypeInv, TypeOK, LocalsSet, WaitLabels
<1>2. Contains(waiting[c], t) /\ t \in Waiters[c] \cap Killable
  BY DEF WaitRollback, Goto, WaiterInv, WaiterParts, PushedIsQueued, WaitersOnly,
     WaitLabels, Queued
<1>3. \A y : Contains(waiting[c], y) => y = t
  <2> SUFFICES ASSUME NEW y, Contains(waiting[c], y) PROVE y = t
    OBVIOUS
  <2>1. y \in Threads
    BY <1>1, LenProperties, ElementOfSeq DEF Contains
  <2>2. cv[y] = c /\ pc[y] \in WaitLabels
    BY <1>1, <2>1 DEF WaiterInv, WaiterParts, QueuedOnlyWhileWaiting, Queued, WaitLabels
  <2>3. y \in Waiters[c]
    BY <2>1, <2>2 DEF WaiterInv, WaitersOnly
  <2> QED
    BY <1>1, <1>2, <2>3 DEF RollbackSafe
<1>4. Len(waiting[c]) = 1
  <2>1. Len(waiting[c]) \in Nat /\ DOMAIN waiting[c] = 1..Len(waiting[c])
    BY <1>1, LenProperties
  <2>2. \A i \in 1..Len(waiting[c]) : waiting[c][i] = t
    BY <1>3 DEF Contains
  <2>3. Len(waiting[c]) >= 1
    BY <1>2, <2>1 DEF Contains
  <2>4. 1 \in 1..Len(waiting[c]) /\ Len(waiting[c]) \in 1..Len(waiting[c])
    BY <2>1, <2>3
  <2>5. waiting[c][1] = waiting[c][Len(waiting[c])]
    BY <2>2, <2>4
  <2> QED
    BY <1>1, <2>1, <2>4, <2>5 DEF IsInjective
<1>5. Front(waiting[c]) = <<>>
  BY <1>1, <1>4, SubSeqElements, EmptySeq DEF Front
<1> QED
  BY <1>1, <1>2, <1>3, <1>4, <1>5 DEF WaitRollback, cond_q_pop

\* A step of t that touches no queue, no flags and not the scheduler, and is
\* outside the sections the invariant speaks of.
LEMMA QuietStep ==
  ASSUME WaiterInv, NEW t \in Threads,
         UNCHANGED <<waiting, sched, flags>>, OthersStay(t),
         pc[t] \notin {"wait_block", "sleep", "intr_wake"},
         pc'[t] \notin {"wait_block", "sleep", "wait_mp", "intr_q",
                       "intr_remove", "intr_wake"}
  PROVE  WaiterParts'
<1> USE DEF WaiterInv, WaiterParts, Queued, OthersStay
<1>1. QueuedOnlyWhileWaiting'
  BY DEF QueuedOnlyWhileWaiting
<1>2. NoWaiterLost'
  BY DEF NoWaiterLost, BlockedInWait
<1>3. InterruptHitsItsWait'
  BY DEF InterruptHitsItsWait, LockInv, TypeInv, LocalsSet
<1>4. PushedIsQueued' /\ BlockedInWait'
  BY DEF PushedIsQueued, BlockedInWait
<1>5. InterruptedIsOut'
  BY DEF InterruptedIsOut
<1>6. FlagsMatch'
  BY DEF FlagsMatch
<1> QED
  BY <1>1, <1>2, <1>3, <1>4, <1>5, <1>6

LEMMA CallWaiters ==
  ASSUME WaiterInv, NEW t \in Threads, Call(t) \/ Unlock(t)
  PROVE  WaiterParts'
<1> SUFFICES /\ UNCHANGED <<waiting, sched, flags>> /\ OthersStay(t)
             /\ pc[t] = "idle"
             /\ pc'[t] \in {"idle", "wait_node", "signal_q", "bcast_q",
                            "intr_node"}
  BY QuietStep
<1> USE DEF WaiterInv, LockInv, TypeInv, TypeOK, Begin, Goto, locals, nodes,
            OthersStay
<1>1. CASE \E m \in Mutexes : ClientLock(t, m) \/ ClientUnlock(t, m)
  BY <1>1 DEF ClientLock, ClientUnlock
<1>2. CASE \E c \in Conds : \E u \in BOOLEAN : CallWait(t, c, u)
  BY <1>2 DEF CallWait
<1>3. CASE \E c \in Conds : CallSignal(t, c) \/ CallBroadcast(t, c)
  BY <1>3 DEF CallSignal, CallBroadcast
<1>4. CASE \E u \in Threads : CallInterrupt(t, u)
  BY <1>4 DEF CallInterrupt
<1> QED
  BY <1>1, <1>2, <1>3, <1>4 DEF Call, Unlock

LEMMA WaitWaiters ==
  ASSUME WaiterInv, RollbackSafe, NEW t \in Threads, WaitStep(t)
  PROVE  WaiterParts'
<1>1. CASE WaitLockNode(t) \/ WaitLockQ(t)
  <2>1. /\ UNCHANGED <<waiting, sched, flags>> /\ OthersStay(t)
        /\ pc[t] \in {"wait_node", "wait_q"}
        /\ pc'[t] \in {"wait_q", "wait_push"}
    BY <1>1 DEF WaitLockNode, WaitLockQ, OthersStay,
       WaiterInv, LockInv, TypeInv, TypeOK,
       locals, nodes, Goto
  <2> QED
    BY <2>1, QuietStep
<1>2. CASE WaitReturn(t)
  <2>1. /\ UNCHANGED <<waiting, sched, flags>> /\ OthersStay(t)
        /\ pc[t] \in {"wait_mp"}
        /\ pc'[t] \in {"idle"}
    BY <1>2 DEF WaitReturn, Return, End, OthersStay,
       WaiterInv, LockInv, TypeInv, TypeOK,
       locals, nodes, Goto
  <2> QED
    BY <2>1, QuietStep
<1> USE CondAssumption
    DEF WaiterInv, WaiterParts, LockInv, TypeInv, TypeOK, LocalsSet,
        WaitLabels, LocksMatchSections, InNode, InQueue, Queued, INTERRUPTED,
        UNINTERRUPTABLE, Goto, locals, nodes
<1>3. CASE WaitPush(t)
  <2> DEFINE c == cv[t]
  <2>1. c \in Conds /\ \A d \in Conds : ~Contains(waiting[d], t)
    BY <1>3 DEF WaitPush, QueuedOnlyWhileWaiting
  <2>2. /\ waiting' = [waiting EXCEPT ![c] = <<t>> \o waiting[c]]
        /\ IsInjective(<<t>> \o waiting[c])
        /\ \A y : Contains(<<t>> \o waiting[c], y)
                   <=> y = t \/ Contains(waiting[c], y)
    BY <1>3, <2>1, PushElements DEF WaitPush, cond_q_push,
       QueuedOnlyWhileWaiting
  <2>3. \A d \in Conds :
          /\ IsInjective(waiting'[d])
          /\ \A y : Contains(waiting'[d], y)
                     <=> (d = c /\ y = t) \/ Contains(waiting[d], y)
    <3> SUFFICES ASSUME NEW d \in Conds
                 PROVE  /\ IsInjective(waiting'[d])
                        /\ \A y : Contains(waiting'[d], y) <=>
                                   (d = c /\ y = t) \/ Contains(waiting[d], y)
      OBVIOUS
    <3>1. waiting'[d] = IF d = c THEN <<t>> \o waiting[c] ELSE waiting[d]
      BY <2>1, <2>2
    <3>2. IsInjective(waiting[d])
      BY DEF QueuedOnlyWhileWaiting
    <3>3. CASE d = c
      BY <2>2, <3>1, <3>3
    <3>4. CASE d # c
      BY <3>1, <3>2, <3>4
    <3> QED
      BY <3>3, <3>4
  <2>4. QueuedOnlyWhileWaiting'
    BY <1>3, <2>1, <2>3 DEF QueuedOnlyWhileWaiting, WaitPush
  <2>5. NoWaiterLost'
    <3> SUFFICES ASSUME NEW y \in Threads, sched'[y] = "blocked"
                 PROVE  \/ Contains(waiting'[cv'[y]], y)
                        \/ \E u \in Threads :
                             pc'[u] = "intr_wake" /\ target'[u] = y
      BY DEF NoWaiterLost
    <3>1. /\ sched[y] = "blocked" /\ cv'[y] = cv[y] /\ cv[y] \in Conds
      BY <1>3 DEF WaitPush, BlockedInWait
    <3>2. CASE Contains(waiting[cv[y]], y)
      BY <2>3, <3>1, <3>2
    <3>3. ASSUME NEW u \in Threads, pc[u] = "intr_wake", target[u] = y
          PROVE  pc'[u] = "intr_wake" /\ target'[u] = y
      BY <1>3, <3>3 DEF WaitPush
    <3>4. \/ Contains(waiting[cv[y]], y)
          \/ \E u \in Threads : pc[u] = "intr_wake" /\ target[u] = y
      BY <3>1 DEF NoWaiterLost
    <3>5. ASSUME NEW u \in Threads, pc[u] = "intr_wake", target[u] = y
          PROVE  \E v \in Threads : pc'[v] = "intr_wake" /\ target'[v] = y
      BY <3>3, <3>5
    <3> QED
      BY <3>2, <3>4, <3>5
  <2>6. InterruptHitsItsWait'
    BY <1>3, <2>1, <2>3 DEF InterruptHitsItsWait, WaitPush
  <2>7. PushedIsQueued'
    BY <1>3, <2>1, <2>3 DEF PushedIsQueued, WaitPush
  <2>8. BlockedInWait'
    BY <1>3, <2>1, <2>3 DEF BlockedInWait, WaitPush
  <2>9. InterruptedIsOut'
    BY <1>3, <2>1, <2>3 DEF InterruptedIsOut, WaitPush,
       InterruptHitsItsWait
  <2>10. FlagsMatch'
    BY <1>3, <2>1, <2>3 DEF FlagsMatch, WaitPush
  <2> QED
    BY <2>4, <2>5, <2>6, <2>7, <2>8, <2>9, <2>10 DEF WaiterParts
<1>4. CASE WaitBlock(t)
  <2>1. QueuedOnlyWhileWaiting'
    BY <1>4 DEF QueuedOnlyWhileWaiting, WaitBlock, sched_set_blocked
  <2>2. NoWaiterLost'
    BY <1>4 DEF NoWaiterLost, WaitBlock, sched_set_blocked, PushedIsQueued
  <2>3. InterruptHitsItsWait'
    BY <1>4 DEF InterruptHitsItsWait, WaitBlock, sched_set_blocked
  <2>4. PushedIsQueued'
    BY <1>4 DEF PushedIsQueued, WaitBlock, sched_set_blocked
  <2>5. BlockedInWait'
    BY <1>4 DEF BlockedInWait, WaitBlock, sched_set_blocked
  <2>6. InterruptedIsOut'
    BY <1>4 DEF InterruptedIsOut, WaitBlock, sched_set_blocked
  <2>7. FlagsMatch'
    BY <1>4 DEF FlagsMatch, WaitBlock, sched_set_blocked
  <2> QED
    BY <2>1, <2>2, <2>3, <2>4, <2>5, <2>6, <2>7 DEF WaiterParts
<1>5. CASE WaitRollback(t)
  <2>1. /\ UNCHANGED <<sched, flags>> /\ OthersStay(t)
        /\ pc[t] = "wait_block" /\ pc'[t] = "idle"
    BY <1>5 DEF WaitRollback, Return, End, OthersStay
  <2>2. \A d \in Conds :
          /\ IsInjective(waiting'[d])
          /\ \A y : Contains(waiting'[d], y) <=> Contains(waiting[d], y) /\ (d = cv[t] => y # t)
    <3>1. IsInjective(<<>>) /\ \A y : ~Contains(<<>>, y)
      BY DEF IsInjective, Contains
    <3>2. /\ \A y : Contains(waiting[cv[t]], y) => y = t
          /\ waiting' = [waiting EXCEPT ![cv[t]] = <<>>]
      BY <1>5, RollbackPops
    <3> QED
      BY <3>1, <3>2 DEF QueuedOnlyWhileWaiting
  <2>3. \A d \in Conds, y \in Threads : Contains(waiting[d], y) /\ y # t => Contains(waiting'[d], y)
    BY <2>2
  <2>4. \A d \in Conds, y \in Threads : Contains(waiting'[d], y) => Contains(waiting[d], y) /\ y # t
    <3>1. \A d \in Conds : Contains(waiting[d], t) => d = cv[t]
      BY DEF QueuedOnlyWhileWaiting
    <3> QED
      BY <2>2, <3>1
  <2>5. QueuedOnlyWhileWaiting'
    BY <2>1, <2>2, <2>4 DEF QueuedOnlyWhileWaiting, OthersStay
  <2>6. \A u \in Threads : pc'[u] = "intr_wake" =>
          /\ pc[u] = "intr_wake" /\ target'[u] = target[u]
          /\ target[u] \in Threads \ {t} /\ pc[target[u]] = "sleep"
    BY <2>1 DEF InterruptHitsItsWait, OthersStay
  <2>7. \A u \in Threads : pc[u] = "intr_wake" =>
          pc'[u] = "intr_wake" /\ target'[u] = target[u]
    BY <2>1 DEF OthersStay
  <2>8. \A y \in Threads : sched[y] = "blocked" => y # t /\ pc[y] = "sleep" /\ cv[y] \in Conds
    BY <2>1 DEF BlockedInWait
  <2> HIDE DEF LockInv, TypeInv, TypeOK, LocksMatchSections, WaitLabels, Goto
  <2>9. NoWaiterLost'
    <3> SUFFICES ASSUME NEW y \in Threads, sched'[y] = "blocked"
                 PROVE  \/ Contains(waiting'[cv'[y]], y)
                        \/ \E u \in Threads :
                             pc'[u] = "intr_wake" /\ target'[u] = y
      BY DEF NoWaiterLost
    <3>1. sched[y] = "blocked"
      BY <2>1
    <3>2. y # t /\ cv'[y] = cv[y] /\ cv[y] \in Conds
      BY <2>1, <2>8, <3>1 DEF OthersStay
    <3>3. \/ Contains(waiting[cv[y]], y)
          \/ \E u \in Threads : pc[u] = "intr_wake" /\ target[u] = y
      BY <3>1 DEF NoWaiterLost
    <3>4. CASE Contains(waiting[cv[y]], y)
      BY <2>3, <3>2, <3>4
    <3>5. CASE \E u \in Threads : pc[u] = "intr_wake" /\ target[u] = y
      BY <2>7, <3>5
    <3> QED
      BY <3>3, <3>4, <3>5
  <2>10. InterruptHitsItsWait'
    BY <2>1, <2>6 DEF InterruptHitsItsWait, OthersStay
  <2>11. PushedIsQueued'
    <3> SUFFICES ASSUME NEW y \in Threads, pc'[y] = "wait_block"
                 PROVE  Contains(waiting'[cv'[y]], y)
      BY DEF PushedIsQueued
    <3>1. y # t /\ pc[y] = "wait_block" /\ cv'[y] = cv[y]
      BY <2>1 DEF OthersStay
    <3>2. cv[y] \in Conds
      BY <3>1 DEF LockInv, TypeInv, WaitLabels
    <3> QED
      BY <2>3, <3>1, <3>2 DEF PushedIsQueued
  <2>12. BlockedInWait'
    BY <2>1, <2>8 DEF BlockedInWait, OthersStay
  <2>13. InterruptedIsOut'
    BY <2>4, <2>6 DEF InterruptedIsOut
  <2>14. FlagsMatch'
    BY <2>1 DEF FlagsMatch, OthersStay
  <2> QED
    BY <2>5, <2>9, <2>10, <2>11, <2>12, <2>13, <2>14 DEF WaiterParts
<1>6. CASE WaitWake(t)
  <2>1. QueuedOnlyWhileWaiting'
    BY <1>6 DEF QueuedOnlyWhileWaiting, WaitWake
  <2>2. NoWaiterLost'
    BY <1>6 DEF NoWaiterLost, WaitWake
  <2>3. InterruptHitsItsWait'
    BY <1>6 DEF InterruptHitsItsWait, WaitWake, FlagsMatch
  <2>4. PushedIsQueued'
    BY <1>6 DEF PushedIsQueued, WaitWake
  <2>5. BlockedInWait'
    BY <1>6 DEF BlockedInWait, WaitWake
  <2>6. InterruptedIsOut'
    BY <1>6 DEF InterruptedIsOut, WaitWake
  <2>7. FlagsMatch'
    BY <1>6 DEF FlagsMatch, WaitWake
  <2> QED
    BY <2>1, <2>2, <2>3, <2>4, <2>5, <2>6, <2>7 DEF WaiterParts
<1> QED
  BY <1>1, <1>2, <1>3, <1>4, <1>5, <1>6 DEF WaitStep

LEMMA SignalWaiters ==
  ASSUME WaiterInv, NEW t \in Threads, SignalStep(t)
  PROVE  WaiterParts'
<1>1. CASE SignalLockQ(t) \/ BroadcastLockQ(t)
  <2>1. /\ UNCHANGED <<waiting, sched, flags>> /\ OthersStay(t)
        /\ pc[t] \in {"signal_q", "bcast_q"}
        /\ pc'[t] \in {"signal_pop", "bcast_loop"}
    BY <1>1 DEF SignalLockQ, BroadcastLockQ, OthersStay,
       WaiterInv, LockInv, TypeInv, TypeOK,
       locals, nodes, Goto
  <2> QED
    BY <2>1, QuietStep
<1>2. CASE SignalPop(t) /\ waiting[cv[t]] = <<>>
  <2>1. /\ UNCHANGED <<waiting, sched, flags>> /\ OthersStay(t)
        /\ pc[t] \in {"signal_pop"}
        /\ pc'[t] \in {"idle"}
    BY <1>2 DEF SignalPop, do_cond_signal_unsafe, End, OthersStay,
       WaiterInv, LockInv, TypeInv, TypeOK,
       locals, nodes, Goto
  <2> QED
    BY <2>1, QuietStep
<1>3. CASE BroadcastEnd(t)
  <2>1. /\ UNCHANGED <<waiting, sched, flags>> /\ OthersStay(t)
        /\ pc[t] \in {"bcast_loop"}
        /\ pc'[t] \in {"idle"}
    BY <1>3 DEF BroadcastEnd, End, OthersStay,
       WaiterInv, LockInv, TypeInv, TypeOK,
       locals, nodes, Goto
  <2> QED
    BY <2>1, QuietStep
<1> USE CondAssumption
    DEF WaiterInv, WaiterParts, LockInv, TypeInv, TypeOK, LocalsSet,
        WaitLabels, LocksMatchSections, InNode, InQueue, Queued, INTERRUPTED,
        UNINTERRUPTABLE, Goto, locals, nodes
<1>4. ASSUME SignalPop(t) \/ BroadcastPop(t), waiting[cv[t]] # <<>>
      PROVE  WaiterParts'
  <2> DEFINE c == cv[t]
             x == Last(waiting[c])
  <2>1. c \in Conds /\ InQueue(t, c)
    BY <1>4 DEF SignalPop, BroadcastPop, SignalLabels
  <2>2. /\ waiting' = [waiting EXCEPT ![c] = Front(waiting[c])]
        /\ sched' = [sched EXCEPT ![x] = "runnable"]
        /\ UNCHANGED flags
        /\ pc[t] \in {"signal_pop", "bcast_loop"}
        /\ pc'[t] \in {"idle", "bcast_loop"}
        /\ OthersStay(t)
    BY <1>4 DEF SignalPop, BroadcastPop, do_cond_signal_unsafe, cond_q_pop,
                sched_unblock_tcb, End, OthersStay
  <2>3. /\ IsInjective(Front(waiting[c]))
        /\ \A y : Contains(Front(waiting[c]), y)
                   <=> Contains(waiting[c], y) /\ y # x
        /\ x \in Threads
    BY <1>4, <2>1, PopElements DEF QueuedOnlyWhileWaiting
  <2>4. \A d \in Conds :
          /\ IsInjective(waiting'[d])
          /\ \A y : Contains(waiting'[d], y)
                     <=> ~(d = c /\ y = x) /\ Contains(waiting[d], y)
    BY <2>1, <2>2, <2>3 DEF QueuedOnlyWhileWaiting
  <2>5. Contains(waiting[c], x)
    BY <1>4, <2>1, LenProperties, EmptySeq DEF Contains, Last
  <2>6. pc[x] = "sleep" /\ sched[x] = "blocked" /\ cv[x] = c
    BY <2>1, <2>2, <2>3, <2>5 DEF QueuedOnlyWhileWaiting
  <2> HIDE DEF x
  <2>7. QueuedOnlyWhileWaiting'
    BY <2>1, <2>2, <2>3, <2>4, <2>5, <2>6 DEF QueuedOnlyWhileWaiting,
       OthersStay
  <2>8. NoWaiterLost'
    <3> SUFFICES ASSUME NEW y \in Threads, sched'[y] = "blocked"
                 PROVE  \/ Contains(waiting'[cv'[y]], y)
                        \/ \E u \in Threads :
                             pc'[u] = "intr_wake" /\ target'[u] = y
      BY DEF NoWaiterLost
    <3>1. /\ sched[y] = "blocked" /\ y # x /\ y # t
          /\ cv'[y] = cv[y] /\ cv[y] \in Conds
      BY <2>2, <2>3 DEF OthersStay, BlockedInWait
    <3>2. CASE Contains(waiting[cv[y]], y)
      BY <2>4, <3>1, <3>2
    <3>3. ASSUME NEW u \in Threads, pc[u] = "intr_wake", target[u] = y
          PROVE  pc'[u] = "intr_wake" /\ target'[u] = y
      BY <2>2, <3>3 DEF OthersStay
    <3>4. \/ Contains(waiting[cv[y]], y)
          \/ \E u \in Threads : pc[u] = "intr_wake" /\ target[u] = y
      BY <3>1 DEF NoWaiterLost
    <3>5. ASSUME NEW u \in Threads, pc[u] = "intr_wake", target[u] = y
          PROVE  \E v \in Threads : pc'[v] = "intr_wake" /\ target'[v] = y
      BY <3>3, <3>5
    <3> QED
      BY <3>2, <3>4, <3>5
  <2>9. InterruptHitsItsWait'
    <3>1. ASSUME NEW u \in Threads, pc'[u] = "intr_wake"
          PROVE  /\ pc'[target'[u]] = "sleep"
                 /\ sched'[target'[u]] = "blocked"
                 /\ ~unint'[target'[u]]
      <4>1. u # t /\ pc[u] = "intr_wake" /\ target'[u] = target[u]
        BY <2>2, <3>1 DEF OthersStay
      <4>2. /\ target[u] \in Threads \ {t, x}
            /\ pc[target[u]] = "sleep" /\ sched[target[u]] = "blocked"
            /\ ~unint[target[u]]
        BY <2>1, <2>2, <2>5, <4>1 DEF InterruptHitsItsWait, InterruptedIsOut
      <4> QED
        BY <2>2, <4>1, <4>2 DEF OthersStay
    <3>2. ASSUME NEW u \in Threads, pc'[u] = "wait_mp", unint'[u]
          PROVE  INTERRUPTED \notin flags'[u]
      BY <2>2, <3>2 DEF OthersStay, InterruptHitsItsWait
    <3> QED
      BY <3>1, <3>2 DEF InterruptHitsItsWait
  <2>10. PushedIsQueued'
    BY <2>1, <2>2, <2>3, <2>4, <2>5, <2>6 DEF PushedIsQueued, OthersStay
  <2>11. BlockedInWait'
    BY <2>1, <2>2, <2>3, <2>4, <2>5, <2>6 DEF BlockedInWait, OthersStay
  <2>12. InterruptedIsOut'
    BY <2>1, <2>2, <2>3, <2>4, <2>5, <2>6 DEF InterruptedIsOut, OthersStay
  <2>13. FlagsMatch'
    BY <2>1, <2>2, <2>3, <2>4, <2>5, <2>6 DEF FlagsMatch, OthersStay
  <2> QED
    BY <2>7, <2>8, <2>9, <2>10, <2>11, <2>12, <2>13 DEF WaiterParts
<1> QED
  BY <1>1, <1>2, <1>3, <1>4 DEF SignalStep, BroadcastPop

LEMMA InterruptWaiters ==
  ASSUME WaiterInv, NEW t \in Threads, InterruptStep(t)
  PROVE  WaiterParts'
<1>1. CASE \/ InterruptLockNode(t)
          \/ InterruptRefuse(t)
          \/ InterruptTooLate(t)
  <2>1. /\ UNCHANGED <<waiting, sched, flags>> /\ OthersStay(t)
        /\ pc[t] \in {"intr_node", "intr_check", "intr_remove"}
        /\ pc'[t] \in {"intr_check", "idle"}
    BY <1>1 DEF InterruptLockNode, InterruptRefuse,
       InterruptTooLate, Return, End, OthersStay,
       WaiterInv, LockInv, TypeInv, TypeOK,
       locals, nodes, Goto
  <2> QED
    BY <2>1, QuietStep
<1> USE CondAssumption
    DEF WaiterInv, WaiterParts, LockInv, TypeInv, TypeOK, LocalsSet,
        WaitLabels, LocksMatchSections, InNode, InQueue, Queued, INTERRUPTED,
        UNINTERRUPTABLE, Goto, locals, nodes
<1>2. CASE InterruptAccept(t) \/ InterruptLockQ(t)
  <2>1. QueuedOnlyWhileWaiting'
    BY <1>2 DEF QueuedOnlyWhileWaiting, InterruptAccept, InterruptLockQ
  <2>2. NoWaiterLost'
    <3> SUFFICES ASSUME NEW y \in Threads, sched'[y] = "blocked"
                 PROVE  \/ Contains(waiting'[cv'[y]], y)
                        \/ \E u \in Threads :
                             pc'[u] = "intr_wake" /\ target'[u] = y
      BY DEF NoWaiterLost
    <3>1. waiting' = waiting /\ cv'[y] = cv[y] /\ sched[y] = "blocked"
      BY <1>2 DEF InterruptAccept, InterruptLockQ, BlockedInWait
    <3>2. ASSUME NEW u \in Threads, pc[u] = "intr_wake", target[u] = y
          PROVE  pc'[u] = "intr_wake" /\ target'[u] = y
      BY <1>2, <3>2 DEF InterruptAccept, InterruptLockQ
    <3> QED
      BY <3>1, <3>2 DEF NoWaiterLost
  <2>3. InterruptHitsItsWait'
    BY <1>2 DEF InterruptHitsItsWait, InterruptAccept, InterruptLockQ
  <2>4. PushedIsQueued'
    BY <1>2 DEF PushedIsQueued, InterruptAccept, InterruptLockQ
  <2>5. BlockedInWait'
    BY <1>2 DEF BlockedInWait, InterruptAccept, InterruptLockQ
  <2>6. InterruptedIsOut'
    BY <1>2 DEF InterruptedIsOut, InterruptAccept, InterruptLockQ
  <2>7. FlagsMatch'
    BY <1>2 DEF FlagsMatch, InterruptAccept, InterruptLockQ
  <2> QED
    BY <2>1, <2>2, <2>3, <2>4, <2>5, <2>6, <2>7 DEF WaiterParts
<1>3. CASE InterruptRemove(t)
  <2> DEFINE c == cv[t]
             x == target[t]
  <2>1. c \in Conds /\ x \in Threads /\ InQueue(t, c) /\ InNode(t, x)
    BY <1>3 DEF InterruptRemove, InterruptLabels
  <2>2. PICK i \in 1..Len(waiting[c]) :
          /\ waiting[c][i] = x
          /\ waiting' = [waiting EXCEPT ![c] = RemoveAt(waiting[c], i)]
    BY <1>3 DEF InterruptRemove, cond_q_remove
  <2>3. /\ IsInjective(RemoveAt(waiting[c], i))
        /\ \A y : Contains(RemoveAt(waiting[c], i), y)
                   <=> Contains(waiting[c], y) /\ y # x
    BY <2>1, <2>2, RemoveElements DEF QueuedOnlyWhileWaiting
  <2>4. \A d \in Conds :
          /\ IsInjective(waiting'[d])
          /\ \A y : Contains(waiting'[d], y)
                     <=> ~(d = c /\ y = x) /\ Contains(waiting[d], y)
    BY <2>1, <2>2, <2>3 DEF QueuedOnlyWhileWaiting
  <2>5. pc[x] = "sleep" /\ sched[x] = "blocked" /\ cv[x] = c /\ ~unint[x]
    BY <1>3, <2>1 DEF InterruptRemove, QueuedOnlyWhileWaiting, FlagsMatch
  <2>6. QueuedOnlyWhileWaiting'
    BY <1>3, <2>1, <2>4, <2>5 DEF QueuedOnlyWhileWaiting, InterruptRemove
  <2>7. NoWaiterLost'
    <3> SUFFICES ASSUME NEW y \in Threads, sched'[y] = "blocked"
                 PROVE  \/ Contains(waiting'[cv'[y]], y)
                        \/ \E u \in Threads :
                             pc'[u] = "intr_wake" /\ target'[u] = y
      BY DEF NoWaiterLost
    <3>1. CASE y = x
      BY <1>3, <2>1, <3>1 DEF InterruptRemove
    <3>2. CASE y # x /\ Contains(waiting[cv[y]], y)
      BY <1>3, <2>1, <2>4, <3>2 DEF InterruptRemove, BlockedInWait
    <3>3. ASSUME NEW u \in Threads, pc[u] = "intr_wake", target[u] = y
          PROVE  pc'[u] = "intr_wake" /\ target'[u] = y
      BY <1>3, <3>3 DEF InterruptRemove
    <3>4. sched[y] = "blocked"
      BY <1>3 DEF InterruptRemove
    <3>5. Contains(waiting[cv[y]], y)
            \/ \E u \in Threads : pc[u] = "intr_wake" /\ target[u] = y
      BY <3>4 DEF NoWaiterLost
    <3> HIDE DEF x
    <3> QED
      BY <3>1, <3>2, <3>3, <3>5
  <2>8. InterruptHitsItsWait'
    BY <1>3, <2>1, <2>4, <2>5 DEF InterruptHitsItsWait, InterruptRemove
  <2>9. PushedIsQueued'
    BY <1>3, <2>1, <2>4, <2>5 DEF PushedIsQueued, InterruptRemove
  <2>10. BlockedInWait'
    BY <1>3, <2>1, <2>4, <2>5 DEF BlockedInWait, InterruptRemove
  <2>11. InterruptedIsOut'
    BY <1>3, <2>1, <2>4, <2>5 DEF InterruptedIsOut, InterruptRemove,
       QueuedOnlyWhileWaiting
  <2>12. FlagsMatch'
    BY <1>3, <2>1, <2>4, <2>5 DEF FlagsMatch, InterruptRemove
  <2> QED
    BY <2>6, <2>7, <2>8, <2>9, <2>10, <2>11, <2>12 DEF WaiterParts
<1>4. CASE InterruptWake(t)
  <2> DEFINE x == target[t]
  <2>1. x \in Threads /\ pc[x] = "sleep" /\ ~unint[x]
    BY <1>4 DEF InterruptWake, InterruptHitsItsWait
  <2>2. QueuedOnlyWhileWaiting'
    BY <1>4, <2>1 DEF QueuedOnlyWhileWaiting, InterruptWake,
       sched_unblock_tcb, Return, End, InterruptedIsOut
  <2>3. NoWaiterLost'
    <3> SUFFICES ASSUME NEW y \in Threads, sched'[y] = "blocked"
                 PROVE  \/ Contains(waiting'[cv'[y]], y)
                        \/ \E u \in Threads :
                             pc'[u] = "intr_wake" /\ target'[u] = y
      BY DEF NoWaiterLost
    <3>1. sched' = [sched EXCEPT ![x] = "runnable"] /\ UNCHANGED waiting
          /\ pc' = [pc EXCEPT ![t] = "idle"]
          /\ \A v \in Threads : v # t => cv'[v] = cv[v] /\ target'[v] = target[v]
      BY <1>4 DEF InterruptWake, sched_unblock_tcb, Return, End
    <3>2. pc[t] = "intr_wake"
      BY <1>4 DEF InterruptWake
    <3> HIDE DEF x
    <3>3. sched[y] = "blocked" /\ y # x /\ y # t
      BY <2>1, <3>1, <3>2 DEF BlockedInWait
    <3>4. cv'[y] = cv[y]
      BY <3>1, <3>3
    <3>5. ASSUME NEW u \in Threads, pc[u] = "intr_wake", target[u] = y
          PROVE  pc'[u] = "intr_wake" /\ target'[u] = y
      <4>1. u # t
        BY <3>3, <3>5 DEF x
      <4> QED
        BY <3>1, <3>5, <4>1
    <3>6. \/ Contains(waiting[cv[y]], y)
          \/ \E u \in Threads : pc[u] = "intr_wake" /\ target[u] = y
      BY <3>3 DEF NoWaiterLost
    <3> QED
      BY <3>1, <3>4, <3>5, <3>6
  <2>4. InterruptHitsItsWait'
    BY <1>4, <2>1 DEF InterruptHitsItsWait, InterruptWake,
       sched_unblock_tcb, Return, End
  <2>5. PushedIsQueued'
    BY <1>4, <2>1 DEF PushedIsQueued, InterruptWake, sched_unblock_tcb,
       Return, End
  <2>6. BlockedInWait'
    BY <1>4, <2>1 DEF BlockedInWait, InterruptWake, sched_unblock_tcb,
       Return, End
  <2>7. InterruptedIsOut'
    BY <1>4, <2>1 DEF InterruptedIsOut, InterruptWake, sched_unblock_tcb,
       Return, End
  <2>8. FlagsMatch'
    BY <1>4, <2>1 DEF FlagsMatch, InterruptWake, sched_unblock_tcb, Return,
       End
  <2> QED
    BY <2>2, <2>3, <2>4, <2>5, <2>6, <2>7, <2>8 DEF WaiterParts
<1> QED
  BY <1>1, <1>2, <1>3, <1>4 DEF InterruptStep

LEMMA WaiterStep == WaiterInv /\ RollbackSafe /\ [Next]_vars => WaiterInv'
<1> SUFFICES ASSUME WaiterInv, RollbackSafe, [Next]_vars
             PROVE  WaiterInv'
  OBVIOUS
<1>1. LockInv' /\ WaitersOnly'
  BY LockStep, TypeStep, WaitersOnlyStep DEF WaiterInv, LockInv
<1>2. CASE UNCHANGED vars
  BY <1>1, <1>2 DEF vars, WaiterInv, WaiterParts, QueuedOnlyWhileWaiting,
     NoWaiterLost, InterruptHitsItsWait, PushedIsQueued, BlockedInWait,
     InterruptedIsOut, FlagsMatch, Queued
<1>3. CASE Next
  BY <1>1, <1>3, CallWaiters, WaitWaiters, SignalWaiters, InterruptWaiters
     DEF Next, Kernel, WaiterInv
<1> QED
  BY <1>2, <1>3

LEMMA WaiterInit == Init => WaiterInv
<1> SUFFICES ASSUME Init PROVE WaiterParts /\ WaitersOnly
  BY LockInit DEF WaiterInv
<1>1. \A c \in Conds : IsInjective(waiting[c])
  BY LenProperties, EmptySeq DEF Init, IsInjective
<1>2. \A c \in Conds, t \in Threads : ~Queued(c, t)
  BY LenProperties, EmptySeq DEF Init, Queued, Contains
<1> QED
  BY <1>1, <1>2 DEF Init, WaiterParts, QueuedOnlyWhileWaiting, NoWaiterLost,
     InterruptHitsItsWait, PushedIsQueued, BlockedInWait, InterruptedIsOut,
     FlagsMatch, WaitersOnly, WaitLabels

LEMMA WaiterInvariant == RollbackSafe /\ Spec => []WaiterInv
<1>1. ASSUME RollbackSafe PROVE WaiterInv /\ [Next]_vars => WaiterInv'
  BY <1>1, WaiterStep
<1>2. ASSUME RollbackSafe PROVE Spec => []WaiterInv
  BY <1>1, <1>2, WaiterInit, PTL DEF Spec
<1> QED
  BY <1>2

(* The three theorems hold where the scheduler never refuses to block a    *)
(* thread, and where it refuses only threads that have their condition     *)
(* variable to themselves.  (Elsewhere the rollback of do_cond_wait breaks *)
(* them.)                                                                  *)

\* A queued thread is asleep, or about to sleep, in the wait that queued it,
\* and it is queued once (cond.c:62, 78).
THEOREM QueuedCorrect ==
  ASSUME RollbackSafe
  PROVE  Spec => []QueuedOnlyWhileWaiting
<1>1. WaiterInv => QueuedOnlyWhileWaiting
  BY DEF WaiterInv, WaiterParts
<1>2. Spec => []WaiterInv
  BY WaiterInvariant
<1> QED
  BY <1>1, <1>2, PTL

\* No wakeup is lost: a sleeping thread can always be found by a signal or is
\* being woken (cond.c:71-86, 132-203).
THEOREM WaitersCorrect ==
  ASSUME RollbackSafe
  PROVE  Spec => []NoWaiterLost
<1>1. WaiterInv => NoWaiterLost
  BY DEF WaiterInv, WaiterParts
<1>2. Spec => []WaiterInv
  BY WaiterInvariant
<1> QED
  BY <1>1, <1>2, PTL

\* An interrupt ends the wait it was meant for, and never one that must not be
\* interrupted (cond.c:132-167).
THEOREM InterruptCorrect ==
  ASSUME RollbackSafe
  PROVE  Spec => []InterruptHitsItsWait
<1>1. WaiterInv => InterruptHitsItsWait
  BY DEF WaiterInv, WaiterParts
<1>2. Spec => []WaiterInv
  BY WaiterInvariant
<1> QED
  BY <1>1, <1>2, PTL

-----------------------------------------------------------------------------
(* Deadlock.  The locks of cond.c have an order: a thread that spins for a *)
(* queue's lock waits for threads that do not spin; one that spins for its *)
(* own node, for threads on their way to a queue; one that spins for a     *)
(* client's mutex, for either; one that spins for another's node, for all  *)
(* of these.  The order needs cond_interrupt to be called without a mutex  *)
(* held.                                                                   *)

\* A client has one mutex at a time, and none once it sleeps and while it
\* interrupts.
MutexesHeld ==
  /\ \A t \in Threads :
       pc[t] \in {"sleep", "wait_mp", "intr_wake"} \cup InterruptLabels => ~HoldsMutex(t)
  /\ \A t \in Threads : \A m, n \in Mutexes : mp[m] = t /\ mp[n] = t => m = n

SpinInv == LockInv /\ BlockedInWait /\ MutexesHeld

LEMMA BlockedStep == TypeInv /\ BlockedInWait /\ [Next]_vars => BlockedInWait'
<1> SUFFICES ASSUME TypeInv, BlockedInWait, [Next]_vars PROVE BlockedInWait'
  OBVIOUS
<1> USE DEF TypeInv, TypeOK, BlockedInWait, Goto
<1>1. CASE UNCHANGED vars
  BY <1>1 DEF vars
\* Steps that block nobody, and of nobody who is at its sleep.
<1>2. ASSUME NEW t \in Threads, \A u \in Threads \ {t} : pc'[u] = pc[u],
             \A u \in Threads : sched'[u] = "blocked" => sched[u] = "blocked",
             pc[t] = "sleep" => sched[t] = "runnable"
      PROVE  BlockedInWait'
  BY <1>2
<1>3. ASSUME NEW t \in Threads, Call(t) \/ Unlock(t)
      PROVE  BlockedInWait'
  <2>1. UNCHANGED sched /\ pc[t] = "idle" /\ \A u \in Threads \ {t} : pc'[u] = pc[u]
    BY <1>3 DEF Call, Unlock, ClientLock, ClientUnlock, CallWait, CallSignal,
       CallBroadcast, CallInterrupt, Begin
  <2> QED
    BY <1>2, <2>1
<1>4. ASSUME NEW t \in Threads, WaitBlock(t)
      PROVE  BlockedInWait'
  BY <1>4 DEF WaitBlock, sched_set_blocked
<1>5. ASSUME NEW t \in Threads, WaitStep(t), ~WaitBlock(t)
      PROVE  BlockedInWait'
  <2>1. /\ UNCHANGED sched /\ (pc[t] = "sleep" => sched[t] = "runnable")
        /\ \A u \in Threads \ {t} : pc'[u] = pc[u]
    BY <1>5 DEF WaitStep, WaitLockNode, WaitLockQ, WaitPush, WaitRollback, WaitWake,
       WaitReturn
  <2> QED
    BY <1>2, <2>1
<1>6. ASSUME NEW t \in Threads, SignalStep(t)
      PROVE  BlockedInWait'
  <2>1. /\ pc[t] # "sleep" /\ \A u \in Threads \ {t} : pc'[u] = pc[u]
        /\ UNCHANGED sched \/ \E x : sched_unblock_tcb(x)
    BY <1>6 DEF SignalStep, SignalLockQ, SignalPop, BroadcastLockQ, BroadcastPop,
       BroadcastEnd, do_cond_signal_unsafe
  <2> QED
    BY <1>2, <2>1 DEF sched_unblock_tcb
<1>7. ASSUME NEW t \in Threads, InterruptStep(t)
      PROVE  BlockedInWait'
  <2>1. /\ pc[t] # "sleep" /\ \A u \in Threads \ {t} : pc'[u] = pc[u]
        /\ UNCHANGED sched \/ \E x : sched_unblock_tcb(x)
    BY <1>7 DEF InterruptStep, InterruptLockNode, InterruptRefuse, InterruptAccept,
       InterruptLockQ, InterruptRemove, InterruptTooLate, InterruptWake
  <2> QED
    BY <1>2, <2>1 DEF sched_unblock_tcb
<1> QED
  BY <1>1, <1>3, <1>4, <1>5, <1>6, <1>7 DEF Next, Kernel

LEMMA MutexesStep ==
  ASSUME ~InterruptHolding, LockInv, MutexesHeld, [Next]_vars
  PROVE  MutexesHeld'
<1> USE CondAssumption
    DEF LockInv, TypeInv, TypeOK, OwnerOrNull, MutexesHeld, HoldsMutex, InterruptLabels, Goto
<1>1. CASE UNCHANGED vars
  BY <1>1 DEF vars
\* Steps that give no thread a mutex.
<1>2. ASSUME NEW t \in Threads, \A u \in Threads \ {t} : pc'[u] = pc[u],
             \A m \in Mutexes : mp'[m] = mp[m] \/ mp'[m] = NULL,
             pc'[t] \in {"sleep", "wait_mp", "intr_wake"} \cup InterruptLabels
               => ~HoldsMutex(t)'
      PROVE  MutexesHeld'
  <2>1. \A u \in Threads, m \in Mutexes : mp'[m] = u => mp[m] = u
    BY <1>2
  <2>2. \A u \in Threads \ {t} : ~HoldsMutex(u) => ~HoldsMutex(u)'
    BY <2>1
  <2>3. \A u \in Threads \ {t} :
          pc'[u] \in {"sleep", "wait_mp", "intr_wake"} \cup InterruptLabels
            => ~HoldsMutex(u)'
    BY <1>2, <2>2
  <2>4. \A u \in Threads, m, n \in Mutexes : mp'[m] = u /\ mp'[n] = u => m = n
    BY <2>1
  <2> HIDE DEF HoldsMutex, InterruptLabels
  <2> QED
    BY <1>2, <2>3, <2>4
<1>3. ASSUME NEW t \in Threads, NEW m \in Mutexes, ClientLock(t, m)
      PROVE  MutexesHeld'
  BY <1>3 DEF ClientLock, mutex_lock
<1>4. ASSUME NEW t \in Threads, NEW m \in Mutexes, ClientUnlock(t, m)
      PROVE  MutexesHeld'
  <2>1. /\ UNCHANGED pc /\ pc[t] = "idle"
        /\ \A n \in Mutexes : mp'[n] = mp[n] \/ mp'[n] = NULL
    BY <1>4 DEF ClientUnlock, mutex_unlock
  <2> QED
    BY <1>2, <2>1
<1>5. ASSUME NEW t \in Threads, NEW c \in Conds,
             \/ \E u \in BOOLEAN : CallWait(t, c, u)
             \/ CallSignal(t, c) \/ CallBroadcast(t, c)
      PROVE  MutexesHeld'
  <2>1. /\ UNCHANGED mp /\ \A u \in Threads \ {t} : pc'[u] = pc[u]
        /\ pc'[t] \in {"wait_node", "signal_q", "bcast_q"}
    BY <1>5 DEF CallWait, CallSignal, CallBroadcast, Begin
  <2> QED
    BY <1>2, <2>1
<1>6. ASSUME NEW t \in Threads, NEW u \in Threads, CallInterrupt(t, u)
      PROVE  MutexesHeld'
  <2>1. UNCHANGED mp /\ ~HoldsMutex(t) /\ \A y \in Threads \ {t} : pc'[y] = pc[y]
    BY <1>6 DEF CallInterrupt, Begin
  <2> QED
    BY <1>2, <2>1
<1>7. ASSUME NEW t \in Threads, WaitBlock(t)
      PROVE  MutexesHeld'
  <2>1. /\ mp' = [mp EXCEPT ![Guard[cv[t]]] = NULL]
        /\ \A u \in Threads \ {t} : pc'[u] = pc[u]
    BY <1>7 DEF WaitBlock, mutex_unlock
  <2>2. mp[Guard[cv[t]]] = t /\ Guard[cv[t]] \in Mutexes
    BY <1>7 DEF WaitBlock, LocksMatchSections, LocalsSet, WaitLabels
  <2>3. ~HoldsMutex(t)'
    BY <2>1, <2>2
  <2> QED
    BY <1>2, <2>1, <2>3
<1>8. ASSUME NEW t \in Threads, WaitReturn(t)
      PROVE  MutexesHeld'
  BY <1>8 DEF WaitReturn, mutex_lock
<1>9. ASSUME NEW t \in Threads, WaitStep(t), ~WaitBlock(t), ~WaitReturn(t)
      PROVE  MutexesHeld'
  <2>1. /\ UNCHANGED mp /\ \A u \in Threads \ {t} : pc'[u] = pc[u]
        /\ \/ pc'[t] \in {"idle", "wait_q", "wait_push", "wait_block"}
           \/ pc[t] = "sleep" /\ pc'[t] = "wait_mp"
    BY <1>9 DEF WaitStep, WaitLockNode, WaitLockQ, WaitPush, WaitRollback, WaitWake
  <2> QED
    BY <1>2, <2>1
<1>10. ASSUME NEW t \in Threads, SignalStep(t)
       PROVE  MutexesHeld'
  <2>1. /\ UNCHANGED mp /\ \A u \in Threads \ {t} : pc'[u] = pc[u]
        /\ pc'[t] \in {"idle", "signal_pop", "bcast_loop"}
    BY <1>10 DEF SignalStep, SignalLockQ, SignalPop, BroadcastLockQ, BroadcastPop,
       BroadcastEnd
  <2> QED
    BY <1>2, <2>1
<1>11. ASSUME NEW t \in Threads, InterruptStep(t)
       PROVE  MutexesHeld'
  <2>1. /\ UNCHANGED mp /\ \A u \in Threads \ {t} : pc'[u] = pc[u]
        /\ pc[t] \in {"intr_wake"} \cup InterruptLabels
    BY <1>11 DEF InterruptStep, InterruptLockNode, InterruptRefuse, InterruptAccept,
       InterruptLockQ, InterruptRemove, InterruptTooLate, InterruptWake
  <2> QED
    BY <1>2, <2>1
<1> QED
  BY <1>1, <1>3, <1>4, <1>5, <1>6, <1>7, <1>8, <1>9, <1>10, <1>11
     DEF Next, Call, Unlock, Kernel

\* What a thread spins for, and who has it.
LEMMA SpinsWhere ==
  ASSUME SpinInv, NEW t \in Threads, NEW u \in Threads, SpinsOn(t) = u
  PROVE  /\ \/ pc[t] \in {"wait_q", "signal_q", "bcast_q", "intr_q"} /\ InQueue(u, cv[t])
            \/ pc[t] \in {"wait_node", "sleep"} /\ InNode(u, t)
            \/ pc[t] = "wait_mp" /\ HoldsMutex(u)
            \/ pc[t] = "intr_node" /\ InNode(u, target[t])
         /\ sched[u] # "blocked"
<1> USE DEF SpinInv, LockInv, TypeInv, LocalsSet, LocksMatchSections
<1>1. t \in Threads /\ u # NULL
  BY CondAssumption
<1>2. \/ pc[t] \in {"wait_q", "signal_q", "bcast_q", "intr_q"} /\ InQueue(u, cv[t])
      \/ pc[t] \in {"wait_node", "sleep"} /\ InNode(u, t)
      \/ pc[t] = "wait_mp" /\ HoldsMutex(u)
      \/ pc[t] = "intr_node" /\ InNode(u, target[t])
  <2>1. CASE pc[t] \in {"wait_q", "signal_q", "bcast_q", "intr_q"}
    <3>1. q_lock[cv[t]] = u /\ cv[t] \in Conds
      BY <2>1 DEF SpinsOn, WaitLabels, SignalLabels, InterruptLabels
    <3> QED
      BY <2>1, <3>1
  <2>2. CASE pc[t] = "wait_node" \/ (pc[t] = "sleep" /\ sched[t] = "runnable")
    <3>1. lock[t] = u
      BY <2>2 DEF SpinsOn
    <3> QED
      BY <2>2, <3>1
  <2>3. CASE pc[t] = "wait_mp"
    <3>1. mp[Guard[cv[t]]] = u /\ Guard[cv[t]] \in Mutexes
      BY <2>3, CondAssumption DEF SpinsOn, WaitLabels
    <3> QED
      BY <2>3, <3>1 DEF HoldsMutex
  <2>4. CASE pc[t] = "intr_node"
    <3>1. lock[target[t]] = u /\ target[t] \in Threads
      BY <2>4 DEF SpinsOn, InterruptLabels
    <3> QED
      BY <2>4, <3>1
  <2> QED
    BY <1>1, <2>1, <2>2, <2>3, <2>4 DEF SpinsOn
<1>3. pc[u] # "sleep"
  BY <1>2 DEF InQueue, InNode, MutexesHeld
<1> QED
  BY <1>2, <1>3 DEF BlockedInWait

\* The order of the locks.
LEMMA SpinOrder ==
  ASSUME SpinInv, NEW t \in Threads, NEW u \in Threads, SpinsOn(t) = u,
         NEW v \in Threads, SpinsOn(u) = v
  PROVE  /\ pc[t] \notin {"wait_q", "signal_q", "bcast_q", "intr_q"}
         /\ pc[t] \in {"wait_node", "sleep"} =>
              pc[u] \in {"wait_q", "signal_q", "bcast_q", "intr_q"}
         /\ pc[t] = "wait_mp" =>
              pc[u] \in {"wait_q", "signal_q", "bcast_q", "wait_node"}
         /\ pc[t] = "intr_node" => pc[u] \in {"wait_q", "intr_q", "wait_mp"}
<1>1. /\ \/ pc[t] \in {"wait_q", "signal_q", "bcast_q", "intr_q"} /\ InQueue(u, cv[t])
         \/ pc[t] \in {"wait_node", "sleep"} /\ InNode(u, t)
         \/ pc[t] = "wait_mp" /\ HoldsMutex(u)
         \/ pc[t] = "intr_node" /\ InNode(u, target[t])
  BY SpinsWhere
<1>2. pc[u] \in {"wait_q", "signal_q", "bcast_q", "intr_q", "wait_node", "sleep", "wait_mp",
                 "intr_node"}
  BY SpinsWhere
<1>3. CASE pc[t] \in {"wait_q", "signal_q", "bcast_q", "intr_q"}
  BY <1>1, <1>2, <1>3 DEF InQueue
<1>4. CASE pc[t] \in {"wait_node", "sleep"}
  BY <1>1, <1>2, <1>4 DEF InNode
<1>5. CASE pc[t] = "wait_mp"
  BY <1>1, <1>2, <1>5 DEF SpinInv, MutexesHeld, InterruptLabels
<1>6. CASE pc[t] = "intr_node"
  BY <1>1, <1>2, <1>6 DEF InNode
<1> QED
  BY <1>1, <1>3, <1>4, <1>5, <1>6

LEMMA SpinInvImplies == SpinInv => NoSpinDeadlock
<1> SUFFICES ASSUME SpinInv, NEW S \in SUBSET Threads,
                    \A t \in S : \E u \in Threads :
                      SpinsOn(t) = u /\ (u \in S \/ sched[u] = "blocked")
             PROVE  S = {}
  BY DEF NoSpinDeadlock
<1>1. \A t \in S : \E u \in S : SpinsOn(t) = u
  BY SpinsWhere
<1>2. \A t \in S : \E u \in S :
        /\ pc[t] \notin {"wait_q", "signal_q", "bcast_q", "intr_q"}
        /\ pc[t] \in {"wait_node", "sleep"} =>
             pc[u] \in {"wait_q", "signal_q", "bcast_q", "intr_q"}
        /\ pc[t] = "wait_mp" => pc[u] \in {"wait_q", "signal_q", "bcast_q", "wait_node"}
        /\ pc[t] = "intr_node" => pc[u] \in {"wait_q", "intr_q", "wait_mp"}
  <2> SUFFICES ASSUME NEW t \in S
               PROVE  \E u \in S :
                 /\ pc[t] \notin {"wait_q", "signal_q", "bcast_q", "intr_q"}
                 /\ pc[t] \in {"wait_node", "sleep"} =>
                      pc[u] \in {"wait_q", "signal_q", "bcast_q", "intr_q"}
                 /\ pc[t] = "wait_mp" => pc[u] \in {"wait_q", "signal_q", "bcast_q", "wait_node"}
                 /\ pc[t] = "intr_node" => pc[u] \in {"wait_q", "intr_q", "wait_mp"}
    OBVIOUS
  <2>1. PICK u \in S : SpinsOn(t) = u
    BY <1>1
  <2>2. PICK v \in S : SpinsOn(u) = v
    BY <1>1
  <2> QED
    BY <2>1, <2>2, SpinOrder
<1>3. \A t \in S : pc[t] \notin {"wait_q", "signal_q", "bcast_q", "intr_q"}
  BY <1>2
<1>4. \A t \in S : pc[t] \notin {"wait_node", "sleep"}
  BY <1>2, <1>3
<1>5. \A t \in S : pc[t] # "wait_mp"
  BY <1>2, <1>3, <1>4
<1>6. \A t \in S : pc[t] # "intr_node"
  BY <1>2, <1>3, <1>5
<1>7. \A t \in S : pc[t] \in {"wait_q", "signal_q", "bcast_q", "intr_q", "wait_node", "sleep",
                              "wait_mp", "intr_node"}
  BY <1>1, SpinsWhere
<1> QED
  BY <1>3, <1>4, <1>5, <1>6, <1>7

\* Where cond_interrupt is called without a mutex held, no threads spin for one
\* another's locks in a circle, and none spins for the lock of a sleeping
\* thread, whatever the scheduler refuses (cond.c:89-98, 137-151).
THEOREM NoDeadlock ==
  ASSUME ~InterruptHolding
  PROVE  Spec => []NoSpinDeadlock
<1>1. Init => SpinInv
  <2> SUFFICES ASSUME Init PROVE BlockedInWait /\ MutexesHeld
    BY LockInit DEF SpinInv
  <2> QED
    BY CondAssumption DEF Init, BlockedInWait, MutexesHeld, HoldsMutex, InterruptLabels
<1>2. SpinInv /\ [Next]_vars => SpinInv'
  BY LockStep, TypeStep, BlockedStep, MutexesStep DEF SpinInv, LockInv
<1> QED
  BY <1>1, <1>2, SpinInvImplies, PTL DEF Spec

-----------------------------------------------------------------------------
(* The refinement: what CondSpec sees.                                     *)

\* The result of a call is not known before it ends.
NoResultYet == \A t \in Threads : pc[t] # "idle" => ret[t] = NULL

\* A thread that pushed itself is the newest in the queue until it releases
\* the queue's lock.
PushedIsFirst ==
  \A t \in Threads : pc[t] = "wait_block" =>
    waiting[cv[t]] # <<>> /\ waiting[cv[t]][1] = t

\* The node of a waiting thread says for what it waits, and how; it does not say
\* that it was interrupted while it is queued; and cond_interrupt looks for it
\* in the queue that the node names.
NodesMatchWaits ==
  \A t \in Threads :
    /\ pc[t] \in {"wait_block", "sleep"} => node_cv[t] = cv[t]
    /\ pc[t] \in {"wait_block", "sleep", "wait_mp"} /\ ~unint[t]
         => UNINTERRUPTABLE \notin flags[t]
    /\ \A c \in Conds : Queued(c, t) => INTERRUPTED \notin flags[t]
    /\ pc[t] \in {"intr_q", "intr_remove"} => cv[t] = node_cv[target[t]]

RefinedInv == WaiterInv /\ NoResultYet /\ PushedIsFirst /\ NodesMatchWaits

LEMMA ResultStep == TypeInv /\ NoResultYet /\ [Next]_vars => NoResultYet'
<1> SUFFICES ASSUME TypeInv, NoResultYet, [Next]_vars PROVE NoResultYet'
  OBVIOUS
<1> USE DEF TypeInv, TypeOK, NoResultYet, Goto
<1>1. CASE UNCHANGED vars
  BY <1>1 DEF vars
<1>2. ASSUME NEW t \in Threads, Call(t) \/ Unlock(t)
      PROVE  NoResultYet'
  BY <1>2 DEF Call, Unlock, ClientLock, ClientUnlock, CallWait, CallSignal,
     CallBroadcast, CallInterrupt, Begin
<1>3. ASSUME NEW t \in Threads, WaitStep(t)
      PROVE  NoResultYet'
  BY <1>3 DEF WaitStep, WaitLockNode, WaitLockQ, WaitPush, WaitBlock,
     WaitRollback, WaitWake, WaitReturn, Return
<1>4. ASSUME NEW t \in Threads, SignalStep(t)
      PROVE  NoResultYet'
  BY <1>4 DEF SignalStep, SignalLockQ, SignalPop, BroadcastLockQ, BroadcastPop,
     BroadcastEnd
<1>5. ASSUME NEW t \in Threads, InterruptStep(t)
      PROVE  NoResultYet'
  BY <1>5 DEF InterruptStep, InterruptLockNode, InterruptRefuse, InterruptAccept,
     InterruptLockQ, InterruptRemove, InterruptTooLate, InterruptWake, Return
<1> QED
  BY <1>1, <1>2, <1>3, <1>4, <1>5 DEF Next, Kernel

\* A step of t leaves the calls of the other threads alone.
LEMMA StepsAlone ==
  ASSUME TypeInv, NEW t \in Threads, Call(t) \/ Unlock(t) \/ Kernel(t)
  PROVE  OthersStay(t) /\ \A u \in Threads \ {t} : ret'[u] = ret[u]
<1> USE DEF TypeInv, TypeOK, OthersStay, Goto, locals, Return, End
<1>1. CASE Call(t) \/ Unlock(t)
  BY <1>1 DEF Call, Unlock, ClientLock, ClientUnlock, CallWait, CallSignal,
     CallBroadcast, CallInterrupt, Begin
<1>2. CASE WaitStep(t)
  BY <1>2 DEF WaitStep, WaitLockNode, WaitLockQ, WaitPush, WaitBlock, WaitRollback,
     WaitWake, WaitReturn
<1>3. CASE SignalStep(t)
  BY <1>3 DEF SignalStep, SignalLockQ, SignalPop, BroadcastLockQ, BroadcastPop,
     BroadcastEnd
<1>4. CASE InterruptStep(t)
  BY <1>4 DEF InterruptStep, InterruptLockNode, InterruptRefuse, InterruptAccept,
     InterruptLockQ, InterruptRemove, InterruptTooLate, InterruptWake
<1> QED
  BY <1>1, <1>2, <1>3, <1>4 DEF Kernel

\* Only the thread in the section of a queue's lock changes the queue.
LEMMA QueueOwner ==
  ASSUME TypeInv, NEW t \in Threads, Call(t) \/ Unlock(t) \/ Kernel(t),
         NEW c \in Conds, waiting'[c] # waiting[c]
  PROVE  InQueue(t, c)
<1> USE DEF TypeInv, TypeOK, LocalsSet, WaitLabels, SignalLabels, InterruptLabels,
            InQueue, Goto
<1>1. ~Call(t) /\ ~Unlock(t)
  BY DEF Call, Unlock, ClientLock, ClientUnlock, CallWait, CallSignal,
     CallBroadcast, CallInterrupt, Begin
<1>2. WaitStep(t) => InQueue(t, c)
  BY DEF WaitStep, WaitLockNode, WaitLockQ, WaitPush, WaitBlock, WaitRollback,
     WaitWake, WaitReturn, cond_q_push, cond_q_pop
<1>3. SignalStep(t) => InQueue(t, c)
  BY DEF SignalStep, SignalLockQ, SignalPop, BroadcastLockQ, BroadcastPop,
     BroadcastEnd, do_cond_signal_unsafe, cond_q_pop
<1>4. InterruptStep(t) => InQueue(t, c)
  BY DEF InterruptStep, InterruptLockNode, InterruptRefuse, InterruptAccept,
     InterruptLockQ, InterruptRemove, InterruptTooLate, InterruptWake, cond_q_remove
<1> QED
  BY <1>1, <1>2, <1>3, <1>4 DEF Kernel

\* The steps that lead to wait_block and stay there.
LEMMA PushedStep ==
  ASSUME LockInv, PushedIsFirst, [Next]_vars
  PROVE  PushedIsFirst'
<1>1. CASE UNCHANGED vars
  BY <1>1 DEF vars, PushedIsFirst
<1>2. ASSUME NEW t \in Threads, Call(t) \/ Unlock(t) \/ Kernel(t)
      PROVE  PushedIsFirst'
  <2> SUFFICES ASSUME NEW u \in Threads, pc'[u] = "wait_block"
               PROVE  waiting'[cv'[u]] # <<>> /\ waiting'[cv'[u]][1] = u
    BY DEF PushedIsFirst
  <2>1. CASE u # t
    <3>1. pc[u] = "wait_block" /\ cv'[u] = cv[u]
      BY <1>2, <2>1, StepsAlone DEF LockInv, OthersStay
    <3>2. cv[u] \in Conds /\ InQueue(u, cv[u])
      BY <3>1 DEF LockInv, TypeInv, LocalsSet, WaitLabels, InQueue
    <3>3. ~InQueue(t, cv[u])
      BY <2>1, <3>2 DEF LockInv, LocksMatchSections
    <3>4. waiting'[cv[u]] = waiting[cv[u]]
      BY <1>2, <3>2, <3>3, QueueOwner DEF LockInv
    <3> QED
      BY <3>1, <3>4 DEF PushedIsFirst
  <2>2. CASE u = t
    <3>1. WaitPush(t) \/ (pc[t] = "idle" /\ pc'[t] = "idle")
      BY <1>2, <2>2
      DEF LockInv, TypeInv, TypeOK, Call, Unlock, ClientLock, ClientUnlock, CallWait,
          CallSignal, CallBroadcast, CallInterrupt, Begin, Goto,
          Kernel, WaitStep, WaitLockNode, WaitLockQ, WaitBlock, WaitRollback,
          WaitWake, WaitReturn,
          SignalStep, SignalLockQ, SignalPop, BroadcastLockQ, BroadcastPop, BroadcastEnd,
          InterruptStep, InterruptLockNode, InterruptRefuse, InterruptAccept,
          InterruptLockQ, InterruptRemove, InterruptTooLate, InterruptWake
    <3>2. cv'[t] = cv[t] /\ cv[t] \in Conds /\ waiting'[cv[t]] = <<t>> \o waiting[cv[t]]
      BY <2>2, <3>1 DEF WaitPush, Goto, locals, cond_q_push, LockInv, TypeInv, TypeOK,
                   LocalsSet, WaitLabels
    <3>3. waiting[cv[t]] \in Seq(Threads)
      BY <3>2 DEF LockInv, TypeInv, TypeOK
    <3>4. (<<t>> \o waiting[cv[t]])[1] = t /\ <<t>> \o waiting[cv[t]] # <<>>
      BY <3>3
    <3> QED
      BY <2>2, <3>2, <3>4
  <2> QED
    BY <2>1, <2>2
<1> QED
  BY <1>1, <1>2 DEF Next

\* Only WaitPush puts a thread in a queue.
LEMMA QueuesShrink ==
  ASSUME WaiterInv, NEW t \in Threads, Call(t) \/ Unlock(t) \/ Kernel(t),
         NEW c \in Conds, NEW u \in Threads, Queued(c, u)'
  PROVE  Queued(c, u) \/ (u = t /\ WaitPush(t))
<1>0. /\ waiting \in [Conds -> Seq(Threads)]
      /\ \A d \in Conds : IsInjective(waiting[d])
      /\ pc[t] \in WaitLabels \cup SignalLabels \cup {"intr_q", "intr_remove"}
           => cv[t] \in Conds
  BY DEF WaiterInv, WaiterParts, QueuedOnlyWhileWaiting, LockInv, TypeInv, TypeOK, LocalsSet
<1>1. CASE UNCHANGED waiting
  BY <1>1 DEF Queued
<1>2. ASSUME NEW d \in Conds, cond_q_pop(d), waiting[d] # <<>>
      PROVE  Queued(c, u)
  BY <1>0, <1>2, PopElements DEF cond_q_pop, Queued
<1>3. CASE WaitPush(t)
  <2>1. cv[t] \in Conds /\ ~Queued(cv[t], t)
    BY <1>0, <1>3 DEF WaitPush, Goto, WaitLabels, WaiterInv, WaiterParts,
                  QueuedOnlyWhileWaiting
  <2>2. \A y : Contains(<<t>> \o waiting[cv[t]], y) <=> y = t \/ Contains(waiting[cv[t]], y)
    BY <1>0, <2>1, PushElements DEF Queued
  <2> QED
    BY <1>0, <1>3, <2>1, <2>2 DEF WaitPush, cond_q_push, Queued
<1>4. CASE WaitRollback(t)
  <2>1. cv[t] \in Conds /\ waiting[cv[t]] # <<>> /\ cond_q_pop(cv[t])
    BY <1>0, <1>4, EmptySeq, LenProperties
       DEF WaitRollback, Goto, WaitLabels, WaiterInv, WaiterParts, PushedIsQueued,
           Queued, Contains
  <2> QED
    BY <1>2, <2>1
<1>5. CASE SignalPop(t) \/ BroadcastPop(t)
  <2>1. cv[t] \in Conds /\ do_cond_signal_unsafe(cv[t])
    BY <1>0, <1>5 DEF SignalPop, BroadcastPop, Goto, SignalLabels
  <2> QED
    BY <1>1, <1>2, <2>1 DEF do_cond_signal_unsafe
<1>6. CASE InterruptRemove(t)
  <2>1. cv[t] \in Conds /\ \E i \in 1..Len(waiting[cv[t]]) :
          waiting' = [waiting EXCEPT ![cv[t]] = RemoveAt(@, i)]
    BY <1>0, <1>6 DEF InterruptRemove, Goto, cond_q_remove
  <2> QED
    BY <1>0, <2>1, RemoveElements DEF Queued
<1>7. \/ UNCHANGED waiting \/ WaitPush(t) \/ WaitRollback(t) \/ SignalPop(t)
      \/ BroadcastPop(t) \/ InterruptRemove(t)
  BY DEF Call, Unlock, ClientLock, ClientUnlock, CallWait, CallSignal, CallBroadcast,
         CallInterrupt, Kernel, WaitStep, WaitLockNode, WaitLockQ, WaitBlock, WaitWake,
         WaitReturn, SignalStep, SignalLockQ, BroadcastLockQ, BroadcastEnd,
         InterruptStep, InterruptLockNode, InterruptRefuse, InterruptAccept,
         InterruptLockQ, InterruptTooLate, InterruptWake
<1> QED
  BY <1>1, <1>3, <1>4, <1>5, <1>6, <1>7

\* Nodes and calls of a step that touches no node and begins no wait.
LEMMA NodesQuiet ==
  ASSUME WaiterInv, NodesMatchWaits, NEW t \in Threads,
         Call(t) \/ Unlock(t) \/ Kernel(t), ~WaitPush(t), UNCHANGED nodes,
         pc'[t] \in {"wait_block", "sleep", "wait_mp"} =>
           /\ UNCHANGED locals
           /\ pc[t] \in {"wait_block", "sleep", "wait_mp"}
           /\ pc'[t] # "wait_mp" => pc[t] # "wait_mp",
         pc'[t] \in {"intr_q", "intr_remove"} =>
           target'[t] = target[t] /\ cv'[t] = node_cv[target[t]]
  PROVE  NodesMatchWaits'
<1>0. OthersStay(t) /\ UNCHANGED <<node_cv, flags>>
  BY StepsAlone DEF WaiterInv, LockInv, nodes
<1>1. \A u \in Threads, c \in Conds : Queued(c, u)' => Queued(c, u)
  BY QueuesShrink
<1> SUFFICES ASSUME NEW u \in Threads
             PROVE /\ pc'[u] \in {"wait_block", "sleep"} => node_cv'[u] = cv'[u]
                   /\ pc'[u] \in {"wait_block", "sleep", "wait_mp"} /\ ~unint'[u]
                        => UNINTERRUPTABLE \notin flags'[u]
                   /\ \A c \in Conds : Queued(c, u)' => INTERRUPTED \notin flags'[u]
                   /\ pc'[u] \in {"intr_q", "intr_remove"} => cv'[u] = node_cv'[target'[u]]
  BY DEF NodesMatchWaits
<1>2. CASE u # t
  BY <1>0, <1>1, <1>2 DEF NodesMatchWaits, OthersStay
<1>3. CASE u = t
  BY <1>0, <1>1, <1>3 DEF NodesMatchWaits, locals
<1> QED
  BY <1>2, <1>3

LEMMA NodesStep ==
  ASSUME WaiterInv, NodesMatchWaits, [Next]_vars
  PROVE  NodesMatchWaits'
<1>1. CASE UNCHANGED vars
  BY <1>1 DEF vars, NodesMatchWaits, Queued
<1>2. ASSUME NEW t \in Threads, Call(t) \/ Unlock(t) \/ Kernel(t)
      PROVE  NodesMatchWaits'
  <2> USE DEF Goto
  <2>0. TypeInv
    BY DEF WaiterInv, LockInv
  <2>1. CASE Call(t) \/ Unlock(t)
    <3>1. /\ ~WaitPush(t) /\ UNCHANGED nodes
          /\ pc'[t] \in {"idle", "wait_node", "signal_q", "bcast_q", "intr_node"}
      BY <2>0, <2>1 DEF Call, Unlock, ClientLock, ClientUnlock, CallWait, CallSignal,
         CallBroadcast, CallInterrupt, Begin, WaitPush, TypeInv, TypeOK
    <3> QED
      BY <1>2, <3>1, NodesQuiet
  <2>2. CASE WaitStep(t) /\ ~WaitPush(t) /\ ~WaitWake(t)
    <3>1. /\ UNCHANGED nodes
          /\ pc'[t] = "sleep" => UNCHANGED locals /\ pc[t] = "wait_block"
          /\ pc'[t] \in {"idle", "wait_q", "wait_push", "sleep"}
      BY <2>0, <2>2 DEF WaitStep, WaitLockNode, WaitLockQ, WaitBlock, WaitRollback,
                   WaitReturn, TypeInv, TypeOK
    <3> QED
      BY <1>2, <2>2, <3>1, NodesQuiet
  <2>3. CASE SignalStep(t)
    <3>1. /\ ~WaitPush(t) /\ UNCHANGED nodes
          /\ pc'[t] \in {"idle", "signal_pop", "bcast_loop"}
      BY <2>0, <2>3 DEF SignalStep, SignalLockQ, SignalPop, BroadcastLockQ, BroadcastPop,
         BroadcastEnd, WaitPush, TypeInv, TypeOK
    <3> QED
      BY <1>2, <3>1, NodesQuiet
  <2>4. CASE InterruptStep(t) /\ ~InterruptWake(t)
    <3>1. /\ ~WaitPush(t) /\ UNCHANGED nodes
          /\ pc'[t] \in {"idle", "intr_check", "intr_q", "intr_remove", "intr_wake"}
      BY <2>0, <2>4 DEF InterruptStep, InterruptLockNode, InterruptRefuse, InterruptAccept,
         InterruptLockQ, InterruptRemove, InterruptTooLate, WaitPush, TypeInv, TypeOK
    <3>2. pc'[t] \in {"intr_q", "intr_remove"} =>
            target'[t] = target[t] /\ cv'[t] = node_cv[target[t]]
      BY <2>0, <2>4 DEF InterruptStep, InterruptLockNode, InterruptRefuse, InterruptAccept,
         InterruptLockQ, InterruptRemove, InterruptTooLate, TypeInv, TypeOK, locals,
         NodesMatchWaits
    <3> QED
      BY <1>2, <3>1, <3>2, NodesQuiet
  <2>5. CASE InterruptWake(t)
    <3> DEFINE x == target[t]
    <3>1. /\ flags' = [flags EXCEPT ![x] = @ \cup {INTERRUPTED}]
          /\ UNCHANGED <<node_cv, waiting>> /\ pc'[t] = "idle"
          /\ OthersStay(t)
      BY <1>2, <2>0, <2>5, StepsAlone DEF InterruptWake, TypeInv, TypeOK
    <3>2. x \in Threads /\ \A c \in Conds : ~Queued(c, x)
      BY <2>0, <2>5 DEF InterruptWake, TypeInv, LocalsSet, WaiterInv, WaiterParts,
                    InterruptedIsOut
    <3> HIDE DEF x
    <3>3. \A u \in Threads : /\ u # x => flags'[u] = flags[u]
                             /\ UNINTERRUPTABLE \in flags'[u] => UNINTERRUPTABLE \in flags[u]
      BY <2>0, <3>1, <3>2 DEF TypeInv, TypeOK, INTERRUPTED, UNINTERRUPTABLE
    <3>4. \A u \in Threads, c \in Conds : Queued(c, u)' <=> Queued(c, u)
      BY <3>1 DEF Queued
    <3> QED
      BY <3>1, <3>2, <3>3, <3>4 DEF NodesMatchWaits, OthersStay
  <2>6. CASE WaitPush(t) \/ WaitWake(t)
    <3>1. /\ UNCHANGED locals /\ OthersStay(t)
          /\ \A u \in Threads \ {t} : flags'[u] = flags[u] /\ node_cv'[u] = node_cv[u]
      BY <1>2, <2>0, <2>6, StepsAlone DEF WaitPush, WaitWake, TypeInv, TypeOK
    <3>2. \A u \in Threads, c \in Conds : Queued(c, u)' /\ u # t => Queued(c, u)
      BY <1>2, QueuesShrink
    \* t has its node locked, so nobody is interrupting it.
    <3>3. \A u \in Threads : pc[u] \in {"intr_q", "intr_remove"}
            => u # t /\ target[u] \in Threads \ {t}
      <4>1. lock[t] = t \/ lock[t] = NULL
        BY <2>6 DEF WaitPush, WaitWake, mutex_lock, WaiterInv, LockInv, LocksMatchSections,
           InNode
      <4>2. \A u \in Threads : pc[u] \in {"intr_q", "intr_remove"} /\ target[u] = t
              => lock[t] = u
        BY DEF WaiterInv, LockInv, LocksMatchSections, InNode
      <4>3. pc[t] \notin {"intr_q", "intr_remove"}
        BY <2>6 DEF WaitPush, WaitWake
      <4> QED
        BY <2>0, <4>1, <4>2, <4>3, CondAssumption DEF TypeInv, LocalsSet, InterruptLabels
    <3>4. CASE WaitPush(t)
      <4>1. /\ pc'[t] = "wait_block" /\ node_cv'[t] = cv[t]
            /\ flags'[t] = IF unint[t] THEN {UNINTERRUPTABLE} ELSE {}
        BY <2>0, <3>4 DEF WaitPush, TypeInv, TypeOK
      <4> QED
        BY <3>1, <3>2, <3>3, <4>1
           DEF NodesMatchWaits, OthersStay, locals, INTERRUPTED, UNINTERRUPTABLE
    <3>5. CASE WaitWake(t)
      <4>1. /\ pc[t] = "sleep" /\ pc'[t] = "wait_mp" /\ flags' = flags /\ waiting' = waiting
        BY <2>0, <3>5 DEF WaitWake, TypeInv, TypeOK
      <4>2. \A u \in Threads, c \in Conds : Queued(c, u)' <=> Queued(c, u)
        BY <4>1 DEF Queued
      <4> QED
        BY <3>1, <3>2, <3>3, <4>1, <4>2 DEF NodesMatchWaits, OthersStay, locals
    <3> QED
      BY <2>6, <3>4, <3>5
  <2> QED
    BY <1>2, <2>1, <2>2, <2>3, <2>4, <2>5, <2>6 DEF Kernel, WaitStep, InterruptStep
<1> QED
  BY <1>1, <1>2 DEF Next

LEMMA RefinedInit == Init => RefinedInv
<1> SUFFICES ASSUME Init PROVE NoResultYet /\ PushedIsFirst /\ NodesMatchWaits
  BY WaiterInit DEF RefinedInv
<1>1. \A c \in Conds, t \in Threads : ~Queued(c, t)
  BY LenProperties, EmptySeq DEF Init, Queued, Contains
<1> QED
  BY <1>1 DEF Init, NoResultYet, PushedIsFirst, NodesMatchWaits

LEMMA RefinedStep == RollbackSafe /\ RefinedInv /\ [Next]_vars => RefinedInv'
BY WaiterStep, ResultStep, PushedStep, NodesStep DEF RefinedInv, WaiterInv, LockInv

-----------------------------------------------------------------------------
(* What a step changes of what CondSpec sees.                              *)

InWait(t) == pc[t] = "sleep" /\ Queued(cv[t], t) /\ ~BeingEmptied(cv[t])

StateOf(t) ==
  IF pc[t] \notin {"sleep", "wait_mp"} THEN "running"
  ELSE IF InWait(t) THEN "waiting"
  ELSE IF WasInterrupted(t) THEN "interrupted" ELSE "signaled"

\* The mapping, thread by thread and queue by queue.
ViewRight ==
  /\ \A c \in Conds :
       /\ absQueue[c] \in Seq(Threads) /\ IsInjective(absQueue[c])
       /\ \A t \in Threads :
            Contains(absQueue[c], t) <=> pc[t] = "sleep" /\ Queued(c, t) /\ ~BeingEmptied(c)
  /\ \A t \in Threads : absState[t] = StateOf(t)

\* One thread at a time is in the section of a queue's lock.
SectionsRight ==
  \A t \in Threads, c \in Conds : InQueue(t, c) =>
    /\ \A u \in Threads : InQueue(u, c) => u = t
    /\ BeingPushed(c) <=> pc[t] = "wait_block"
    /\ BeingEmptied(c) <=> pc[t] = "bcast_loop"

LEMMA OneInQueue == LockInv => SectionsRight
BY DEF LockInv, LocksMatchSections, InQueue, BeingPushed, BeingEmptied, SectionsRight

LEMMA ViewIs == RefinedInv => ViewRight
<1> SUFFICES ASSUME RefinedInv PROVE ViewRight
  OBVIOUS
<1> USE DEF RefinedInv
<1>0. /\ LockInv /\ QueuedOnlyWhileWaiting
      /\ \A c \in Conds : waiting[c] \in Seq(Threads) /\ IsInjective(waiting[c])
  BY DEF WaiterInv, WaiterParts, LockInv, TypeInv, TypeOK, QueuedOnlyWhileWaiting
<1>1. \A c \in Conds :
        /\ absQueue[c] \in Seq(Threads) /\ IsInjective(absQueue[c])
        /\ \A t \in Threads :
             Contains(absQueue[c], t) <=> pc[t] = "sleep" /\ Queued(c, t) /\ ~BeingEmptied(c)
  <2> TAKE c \in Conds
  <2>1. CASE BeingEmptied(c)
    <3>1. absQueue[c] = <<>>
      BY <2>1 DEF absQueue
    <3>2. <<>> \in Seq(Threads) /\ IsInjective(<<>>) /\ \A y : ~Contains(<<>>, y)
      BY EmptySeq DEF IsInjective, Contains
    <3> QED
      BY <2>1, <3>1, <3>2
  <2>2. CASE ~BeingEmptied(c) /\ BeingPushed(c)
    <3>1. absQueue[c] = Tail(waiting[c])
      BY <2>2 DEF absQueue
    <3>2. PICK p \in Threads : pc[p] = "wait_block" /\ cv[p] = c
      BY <2>2 DEF BeingPushed
    <3>3. waiting[c] # <<>> /\ Head(waiting[c]) = p
      BY <1>0, <3>2 DEF PushedIsFirst
    <3>4. /\ Tail(waiting[c]) \in Seq(Threads) /\ IsInjective(Tail(waiting[c]))
          /\ \A y : Contains(Tail(waiting[c]), y) <=> Contains(waiting[c], y) /\ y # p
      BY <1>0, <3>3, TailElements
    <3>5. \A t \in Threads : pc[t] = "wait_block" /\ cv[t] = c => t = p
      BY <1>0, <3>2, OneInQueue DEF InQueue, SectionsRight
    <3>6. \A t \in Threads : Queued(c, t) /\ t # p => pc[t] = "sleep"
      BY <1>0, <3>5 DEF QueuedOnlyWhileWaiting
    <3> QED
      BY <2>2, <3>1, <3>2, <3>4, <3>6 DEF Queued
  <2>3. CASE ~BeingEmptied(c) /\ ~BeingPushed(c)
    <3>1. absQueue[c] = waiting[c]
      BY <2>3 DEF absQueue
    <3>2. \A t \in Threads : Queued(c, t) => pc[t] = "sleep"
      BY <1>0, <2>3 DEF QueuedOnlyWhileWaiting, BeingPushed
    <3> QED
      BY <1>0, <2>3, <3>1, <3>2 DEF Queued
  <2> QED
    BY <2>1, <2>2, <2>3
<1>2. \A t \in Threads : absState[t] = StateOf(t)
  <2> TAKE t \in Threads
  <2>1. (\E c \in Conds : Contains(absQueue[c], t)) <=> InWait(t)
    <3>1. \A c \in Conds : Queued(c, t) => cv[t] = c
      BY <1>0 DEF QueuedOnlyWhileWaiting
    <3>2. pc[t] = "sleep" => cv[t] \in Conds
      BY <1>0 DEF LockInv, TypeInv, LocalsSet, WaitLabels
    <3> QED
      BY <1>1, <3>1, <3>2 DEF InWait
  <2> QED
    BY <2>1 DEF absState, StateOf
<1> QED
  BY <1>1, <1>2 DEF ViewRight

LEMMA StateView ==
  ASSUME RefinedInv, RefinedInv'
  PROVE  /\ (\A u \in Threads : StateOf(u)' = StateOf(u)) => absState' = absState
         /\ \A S, why :
              (\A u \in Threads : StateOf(u)' = IF u \in S THEN why ELSE StateOf(u))
                => absState' = [u \in Threads |-> IF u \in S THEN why ELSE absState[u]]
         /\ \A t \in Threads : \A why :
              (\A u \in Threads : StateOf(u)' = IF u = t THEN why ELSE StateOf(u))
                => absState' = [absState EXCEPT ![t] = why]
<1>0. ViewRight /\ ViewRight'
  BY ViewIs, PTL
<1>1. \A u \in Threads : absState[u] = StateOf(u) /\ absState'[u] = StateOf(u)'
  BY <1>0 DEF ViewRight
<1>2. /\ absState  = [u \in Threads |-> absState[u]]
      /\ absState' = [u \in Threads |-> absState'[u]]
  BY DEF absState
<1> QED
  BY <1>1, <1>2

\* The call and the result of a thread depend on that thread alone.
LEMMA CallView ==
  ASSUME NEW t \in Threads, OthersStay(t)
  PROVE  /\ absCall'[t] = absCall[t] => absCall' = absCall
         /\ \A op : absCall'[t] = op => absCall' = [absCall EXCEPT ![t] = op]
<1>1. \A u \in Threads \ {t} : absCall'[u] = absCall[u]
  BY DEF OthersStay, absCall
<1>2. /\ absCall  = [u \in Threads |-> absCall[u]]
      /\ absCall' = [u \in Threads |-> absCall'[u]]
  BY DEF absCall
<1> HIDE DEF absCall
<1> QED
  BY <1>1, <1>2

LEMMA ResultView ==
  ASSUME NEW t \in Threads, OthersStay(t), \A u \in Threads \ {t} : ret'[u] = ret[u]
  PROVE  /\ absRet'[t] = absRet[t] => absRet' = absRet
         /\ \A r : absRet'[t] = r => absRet' = [absRet EXCEPT ![t] = r]
<1>1. \A u \in Threads \ {t} : absRet'[u] = absRet[u]
  BY DEF OthersStay, absRet
<1>2. /\ absRet  = [u \in Threads |-> absRet[u]]
      /\ absRet' = [u \in Threads |-> absRet'[u]]
  BY DEF absRet
<1> QED
  BY <1>1, <1>2

\* What the call and the result of a thread are, by its place.
CallsRight ==
  \A t \in Threads :
    /\ pc[t] \in WaitLabels => absCall[t] = <<"wait", cv[t], unint[t]>>
    /\ pc[t] \in {"signal_q", "signal_pop"} => absCall[t] = <<"signal", cv[t]>>
    /\ pc[t] = "bcast_q" => absCall[t] = <<"broadcast", cv[t]>>
    /\ pc[t] \in InterruptLabels => absCall[t] = <<"interrupt", target[t]>>
    /\ pc[t] \in {"idle", "bcast_loop", "intr_wake"} => absCall[t] = NULL
    /\ pc[t] = "intr_wake" => absRet[t] = "0"
    /\ pc[t] # "intr_wake" => absRet[t] = ret[t]

LEMMA CallsAre == CallsRight
<1> SUFFICES ASSUME NEW t \in Threads
             PROVE  /\ pc[t] \in WaitLabels => absCall[t] = <<"wait", cv[t], unint[t]>>
                    /\ pc[t] \in {"signal_q", "signal_pop"} => absCall[t] = <<"signal", cv[t]>>
                    /\ pc[t] = "bcast_q" => absCall[t] = <<"broadcast", cv[t]>>
                    /\ pc[t] \in InterruptLabels => absCall[t] = <<"interrupt", target[t]>>
                    /\ pc[t] \in {"idle", "bcast_loop", "intr_wake"} => absCall[t] = NULL
                    /\ pc[t] = "intr_wake" => absRet[t] = "0"
                    /\ pc[t] # "intr_wake" => absRet[t] = ret[t]
  BY DEF CallsRight
<1>1. CASE pc[t] \in WaitLabels
  BY <1>1 DEF absCall, absRet, WaitLabels, InterruptLabels
<1>2. CASE pc[t] \in {"signal_q", "signal_pop"}
  BY <1>2 DEF absCall, absRet, WaitLabels, InterruptLabels
<1>3. CASE pc[t] = "bcast_q"
  BY <1>3 DEF absCall, absRet, WaitLabels, InterruptLabels
<1>4. CASE pc[t] \in InterruptLabels
  BY <1>4 DEF absCall, absRet, WaitLabels, InterruptLabels
<1>5. CASE pc[t] \in {"idle", "bcast_loop", "intr_wake"}
  BY <1>5 DEF absCall, absRet, WaitLabels, InterruptLabels
<1>6. pc[t] # "intr_wake" => absRet[t] = ret[t]
  BY DEF absRet
<1> QED
  BY <1>1, <1>2, <1>3, <1>4, <1>5, <1>6

\* Places at which a thread is in nobody's view.
Unseen == Labels \ {"wait_block", "sleep", "wait_mp", "bcast_loop", "intr_wake"}

LEMMA QuietView ==
  ASSUME RefinedInv, RefinedInv', NEW t \in Threads, OthersStay(t),
         UNCHANGED <<waiting, flags>>, pc[t] \in Unseen, pc'[t] \in Unseen
  PROVE  UNCHANGED <<absQueue, absState>>
<1>1. \A c \in Conds : /\ BeingPushed(c)' <=> BeingPushed(c)
                       /\ BeingEmptied(c)' <=> BeingEmptied(c)
  BY DEF OthersStay, BeingPushed, BeingEmptied, Unseen
<1>2. absQueue' = absQueue
  BY <1>1 DEF absQueue
<1>3. \A u \in Threads : StateOf(u)' = StateOf(u)
  <2> TAKE u \in Threads
  <2>1. CASE u = t
    BY <2>1 DEF StateOf, Unseen
  <2>2. CASE u # t
    <3>1. pc'[u] = pc[u] /\ cv'[u] = cv[u]
      BY <2>2 DEF OthersStay
    <3>2. WasInterrupted(u)' <=> WasInterrupted(u)
      BY DEF OthersStay, WasInterrupted, Unseen
    <3>3. pc[u] = "sleep" => cv[u] \in Conds
      BY DEF RefinedInv, WaiterInv, LockInv, TypeInv, LocalsSet, WaitLabels
    <3>4. InWait(u)' <=> InWait(u)
      BY <1>1, <3>1, <3>3 DEF InWait, Queued
    <3> QED
      BY <3>1, <3>2, <3>4 DEF StateOf
  <2> QED
    BY <2>1, <2>2
<1> QED
  BY <1>2, <1>3, StateView

-----------------------------------------------------------------------------
(* Every step of cond.c is a step of CondSpec, or none.                    *)

\* A step of t that does not change what CondSpec sees.
Hidden == UNCHANGED <<mp, absQueue, absState, absCall, absRet>>

LEMMA HiddenStutters == Hidden => UNCHANGED Abstract!vars
BY DEF Hidden, Abstract!vars

LEMMA CallMaps ==
  ASSUME RefinedInv, RefinedInv', NEW t \in Threads, Call(t) \/ Unlock(t)
  PROVE  Abstract!Next
<1>0. /\ TypeInv /\ CallsRight /\ CallsRight'
      /\ OthersStay(t) /\ \A u \in Threads \ {t} : ret'[u] = ret[u]
  <2>1. CallsRight /\ CallsRight'
    BY CallsAre, PTL
  <2> QED
    BY <2>1, StepsAlone DEF RefinedInv, WaiterInv, LockInv
<1>1. /\ pc[t] = "idle" /\ UNCHANGED <<waiting, flags>>
      /\ pc'[t] \in {"idle", "wait_node", "signal_q", "bcast_q", "intr_node"}
  BY <1>0 DEF Call, Unlock, ClientLock, ClientUnlock, CallWait, CallSignal,
     CallBroadcast, CallInterrupt, Begin, Goto, nodes, TypeInv, TypeOK
<1>2. UNCHANGED <<absQueue, absState>>
  BY <1>0, <1>1, QuietView DEF Unseen, Labels, WaitLabels, SignalLabels, InterruptLabels
<1>3. absCall[t] = NULL /\ absRet[t] = ret[t]
  BY <1>0, <1>1 DEF CallsRight
<1>4. ASSUME NEW m \in Mutexes, ClientLock(t, m) \/ ClientUnlock(t, m)
      PROVE  Abstract!Next
  <2>1. pc'[t] = "idle" /\ ret'[t] = ret[t]
    BY <1>0, <1>4 DEF ClientLock, ClientUnlock
  <2>2. absCall' = absCall /\ absRet' = absRet
    BY <1>0, <1>3, <2>1, CallView, ResultView DEF CallsRight
  <2>3. Abstract!Lock(t, m) \/ Abstract!Unlock(t, m)
    BY <1>2, <1>3, <1>4, <2>2
       DEF ClientLock, ClientUnlock, mutex_lock, mutex_unlock,
           Abstract!Lock, Abstract!Unlock
  <2> QED
    BY <2>3 DEF Abstract!Next
<1>5. ASSUME NEW op, op \in Abstract!Operations, absCall'[t] = op, UNCHANGED mp,
             ret'[t] = NULL, pc'[t] # "intr_wake",
             op[1] = "wait" => mp[Guard[op[2]]] = t
      PROVE  Abstract!Next
  <2>1. absRet'[t] = NULL
    BY <1>0, <1>5 DEF CallsRight
  <2>2. absCall' = [absCall EXCEPT ![t] = op] /\ absRet' = [absRet EXCEPT ![t] = NULL]
    BY <1>0, <1>5, <2>1, CallView, ResultView
  <2>3. Abstract!Begin(t, op)
    BY <1>2, <1>3, <1>5, <2>2 DEF Abstract!Begin
  <2> QED
    BY <1>5, <2>3 DEF Abstract!Next
<1>6. ASSUME NEW c \in Conds, NEW u \in BOOLEAN, CallWait(t, c, u)
      PROVE  Abstract!Next
  <2>1. /\ pc'[t] = "wait_node" /\ cv'[t] = c /\ unint'[t] = u /\ ret'[t] = NULL
        /\ UNCHANGED mp /\ mp[Guard[c]] = t
    BY <1>0, <1>6 DEF CallWait, Begin, Goto, TypeInv, TypeOK
  <2>2. absCall'[t] = <<"wait", c, u>>
    BY <1>0, <2>1 DEF CallsRight, WaitLabels
  <2>3. <<"wait", c, u>> \in Abstract!Operations
    BY DEF Abstract!Operations
  <2> QED
    BY <1>5, <2>1, <2>2, <2>3
<1>7. ASSUME NEW c \in Conds, CallSignal(t, c) \/ CallBroadcast(t, c)
      PROVE  Abstract!Next
  <2>1. /\ pc'[t] \in {"signal_q", "bcast_q"} /\ cv'[t] = c /\ ret'[t] = NULL
        /\ UNCHANGED mp
    BY <1>0, <1>7 DEF CallSignal, CallBroadcast, Begin, Goto, TypeInv, TypeOK
  <2>2. PICK kind \in {"signal", "broadcast"} : absCall'[t] = <<kind, c>>
    BY <1>0, <2>1 DEF CallsRight
  <2>3. <<kind, c>> \in Abstract!Operations
    BY DEF Abstract!Operations
  <2>4. <<kind, c>>[1] # "wait"
    OBVIOUS
  <2> QED
    BY <1>5, <2>1, <2>2, <2>3, <2>4
<1>8. ASSUME NEW u \in Threads, CallInterrupt(t, u)
      PROVE  Abstract!Next
  <2>1. /\ pc'[t] = "intr_node" /\ target'[t] = u /\ ret'[t] = NULL /\ UNCHANGED mp
    BY <1>0, <1>8 DEF CallInterrupt, Begin, Goto, TypeInv, TypeOK
  <2>2. absCall'[t] = <<"interrupt", u>>
    BY <1>0, <2>1 DEF CallsRight, InterruptLabels
  <2>3. <<"interrupt", u>> \in Abstract!Operations
    BY DEF Abstract!Operations
  <2>4. <<"interrupt", u>>[1] # "wait"
    OBVIOUS
  <2> QED
    BY <1>5, <2>1, <2>2, <2>3, <2>4
<1> QED
  BY <1>4, <1>6, <1>7, <1>8 DEF Call, Unlock

LEMMA SameInterrupted ==
  ASSUME NEW t \in Threads, OthersStay(t), pc[t] # "intr_wake", pc'[t] # "intr_wake"
  PROVE  \A u : flags'[u] = flags[u] => (WasInterrupted(u)' <=> WasInterrupted(u))
BY DEF OthersStay, WasInterrupted

\* A step that changes no queue and nobody's sleep.
LEMMA StatesKept ==
  ASSUME absQueue' = absQueue,
         \A u \in Threads : pc'[u] \in {"sleep", "wait_mp"} <=> pc[u] \in {"sleep", "wait_mp"},
         \A u \in Threads : pc[u] \in {"sleep", "wait_mp"} =>
           (WasInterrupted(u)' <=> WasInterrupted(u))
  PROVE  absState' = absState
<1>1. \A u \in Threads : absState'[u] = absState[u]
  BY DEF absState
<1>2. /\ absState  = [u \in Threads |-> absState[u]]
      /\ absState' = [u \in Threads |-> absState'[u]]
  BY DEF absState
<1> QED
  BY <1>1, <1>2

\* A step of t that changes one queue.
LEMMA QueueView ==
  ASSUME NEW t \in Threads, OthersStay(t), NEW d \in Conds,
         \A c \in Conds \ {d} : waiting'[c] = waiting[c],
         pc[t] \in {"wait_block", "bcast_loop"} => cv[t] = d,
         pc'[t] \in {"wait_block", "bcast_loop"} => cv'[t] = d
  PROVE  /\ \A c \in Conds \ {d} : BeingEmptied(c)' <=> BeingEmptied(c)
         /\ absQueue'[d] = absQueue[d] => absQueue' = absQueue
         /\ \A q : absQueue'[d] = q => absQueue' = [absQueue EXCEPT ![d] = q]
<1>1. \A c \in Conds \ {d} : /\ BeingEmptied(c)' <=> BeingEmptied(c)
                             /\ BeingPushed(c)' <=> BeingPushed(c)
  BY DEF OthersStay, BeingEmptied, BeingPushed
<1>2. \A c \in Conds \ {d} : absQueue'[c] = absQueue[c]
  BY <1>1 DEF absQueue
<1>3. /\ absQueue  = [c \in Conds |-> absQueue[c]]
      /\ absQueue' = [c \in Conds |-> absQueue'[c]]
  BY DEF absQueue
<1> QED
  BY <1>1, <1>2, <1>3

\* What the steps have in common.
LEMMA Setting ==
  ASSUME RefinedInv, RefinedInv', NEW t \in Threads, Call(t) \/ Unlock(t) \/ Kernel(t)
  PROVE  /\ TypeInv /\ TypeInv' /\ LockInv /\ QueuedOnlyWhileWaiting
         /\ CallsRight /\ CallsRight' /\ ViewRight /\ ViewRight'
         /\ SectionsRight /\ SectionsRight'
         /\ OthersStay(t) /\ \A u \in Threads \ {t} : ret'[u] = ret[u]
<1>1. CallsRight /\ CallsRight' /\ ViewRight /\ ViewRight'
  BY CallsAre, ViewIs, PTL
<1>2. SectionsRight /\ SectionsRight'
  <2>1. LockInv /\ LockInv'
    BY DEF RefinedInv, WaiterInv
  <2> QED
    BY <2>1, OneInQueue, PTL
<1> QED
  BY <1>1, <1>2, StepsAlone DEF RefinedInv, WaiterInv, WaiterParts, LockInv

LEMMA WaitPushMaps ==
  ASSUME RefinedInv, RefinedInv', NEW t \in Threads, WaitPush(t),
         NEW d \in Conds, cv[t] = d
  PROVE  Hidden
<1>0. /\ TypeInv /\ CallsRight /\ CallsRight' /\ SectionsRight /\ SectionsRight'
      /\ OthersStay(t) /\ \A u \in Threads \ {t} : ret'[u] = ret[u]
  BY Setting DEF Kernel, WaitStep
<1>1. /\ pc[t] = "wait_push" /\ pc'[t] = "wait_block" /\ UNCHANGED <<locals, ret, mp>>
      /\ d \in Conds /\ waiting[d] \in Seq(Threads)
      /\ waiting' = [waiting EXCEPT ![d] = <<t>> \o waiting[d]]
      /\ DOMAIN waiting = Conds
      /\ \A u \in Threads \ {t} : flags'[u] = flags[u]
  BY <1>0 DEF WaitPush, Goto, cond_q_push, TypeInv, TypeOK, LocalsSet, WaitLabels
<1>2. /\ cv'[t] = d /\ InQueue(t, d) /\ InQueue(t, d)'
  BY <1>1 DEF locals, InQueue
<1>3. ~BeingPushed(d) /\ ~BeingEmptied(d) /\ BeingPushed(d)' /\ ~BeingEmptied(d)'
  BY <1>0, <1>1, <1>2 DEF SectionsRight
<1>4. absQueue[d] = waiting[d] /\ absQueue'[d] = Tail(waiting'[d])
  BY <1>1, <1>3 DEF absQueue
<1>5. Tail(<<t>> \o waiting[d]) = waiting[d]
  BY <1>1
<1>6. absQueue' = absQueue
  BY <1>0, <1>1, <1>2, <1>4, <1>5, QueueView
<1>7. absState' = absState
  BY <1>0, <1>1, <1>6, SameInterrupted, StatesKept DEF OthersStay
<1>8. absCall'[t] = absCall[t] /\ absRet'[t] = absRet[t]
  BY <1>0, <1>1 DEF CallsRight, WaitLabels, locals
<1> QED
  BY <1>0, <1>1, <1>6, <1>7, <1>8, CallView, ResultView DEF Hidden

LEMMA WaitBlockMaps ==
  ASSUME RefinedInv, RefinedInv', NEW t \in Threads, WaitBlock(t),
         NEW d \in Conds, cv[t] = d
  PROVE  Abstract!Next
<1>0. /\ TypeInv /\ CallsRight /\ CallsRight' /\ SectionsRight /\ SectionsRight'
      /\ ViewRight
      /\ OthersStay(t) /\ \A u \in Threads \ {t} : ret'[u] = ret[u]
  BY Setting DEF Kernel, WaitStep
<1>1. /\ pc[t] = "wait_block" /\ pc'[t] = "sleep" /\ UNCHANGED <<locals, ret, waiting, flags>>
      /\ d \in Conds /\ waiting[d] \in Seq(Threads) /\ unint[t] \in BOOLEAN
      /\ mp' = [mp EXCEPT ![Guard[d]] = NULL]
  BY <1>0 DEF WaitBlock, Goto, mutex_unlock, nodes, TypeInv, TypeOK, LocalsSet, WaitLabels
<1>2. cv'[t] = d /\ InQueue(t, d)
  BY <1>1 DEF locals, InQueue
<1>3. /\ BeingPushed(d) /\ ~BeingEmptied(d)
      /\ ~BeingPushed(d)' /\ ~BeingEmptied(d)'
  <2>1. \A u \in Threads \ {t} : ~InQueue(u, d)
    BY <1>0, <1>1, <1>2 DEF SectionsRight
  <2>2. \A u \in Threads \ {t} : pc'[u] \in {"wait_block", "bcast_loop"} => cv'[u] # d
    BY <1>0, <2>1 DEF OthersStay, InQueue
  <2> QED
    BY <1>0, <1>1, <1>2, <2>2 DEF SectionsRight, BeingPushed, BeingEmptied
<1>4. absQueue[d] = Tail(waiting[d]) /\ absQueue'[d] = waiting[d]
  BY <1>1, <1>3 DEF absQueue
<1>5. /\ waiting[d] = <<t>> \o Tail(waiting[d])
      /\ Contains(waiting[d], t)
  <2>1. waiting[d] # <<>> /\ Head(waiting[d]) = t
    BY <1>1 DEF RefinedInv, PushedIsFirst
  <2> QED
    BY <1>1, <2>1, TailElements, HeadFirst DEF RefinedInv, WaiterInv, WaiterParts,
       QueuedOnlyWhileWaiting
<1>6. absQueue' = [absQueue EXCEPT ![d] = <<t>> \o absQueue[d]]
  BY <1>0, <1>1, <1>2, <1>4, <1>5, QueueView
<1>7. absState' = [absState EXCEPT ![t] = "waiting"]
  <2>1. StateOf(t)' = "waiting"
    BY <1>1, <1>2, <1>3, <1>5 DEF StateOf, InWait, Queued
  <2>2. ASSUME NEW u \in Threads \ {t}
        PROVE  StateOf(u)' = StateOf(u)
    <3>1. pc'[u] = pc[u] /\ cv'[u] = cv[u] /\ (pc[u] = "sleep" => cv[u] \in Conds)
      BY <1>0 DEF OthersStay, TypeInv, LocalsSet, WaitLabels
    <3>2. WasInterrupted(u)' <=> WasInterrupted(u)
      BY <1>0, <1>1, SameInterrupted
    <3>3. \A c \in Conds : BeingEmptied(c)' <=> BeingEmptied(c)
      BY <1>0, <1>1, <1>2, <1>3, QueueView
    <3> QED
      BY <1>1, <3>1, <3>2, <3>3 DEF StateOf, InWait, Queued
  <2> QED
    BY <2>1, <2>2, StateView
<1>8. absState[t] = "running"
  BY <1>0, <1>1 DEF ViewRight, StateOf
<1>9. /\ absCall[t] = <<"wait", d, unint[t]>> /\ absCall' = absCall /\ absRet' = absRet
  <2>1. absCall'[t] = absCall[t] /\ absRet'[t] = absRet[t]
        /\ absCall[t] = <<"wait", d, unint[t]>>
    BY <1>0, <1>1 DEF CallsRight, WaitLabels, locals
  <2> QED
    BY <1>0, <2>1, CallView, ResultView
<1>10. Abstract!Wait(t, d, unint[t])
  BY <1>1, <1>6, <1>7, <1>8, <1>9 DEF Abstract!Wait, Abstract!Waits
<1> QED
  BY <1>1, <1>10 DEF Abstract!Next

\* A step of t that touches no queue.
LEMMA QueuesKept ==
  ASSUME NEW t \in Threads, OthersStay(t), UNCHANGED waiting,
         pc[t] \notin {"wait_block", "bcast_loop"},
         pc'[t] \notin {"wait_block", "bcast_loop"}
  PROVE  absQueue' = absQueue
<1>1. \A c \in Conds : /\ BeingPushed(c)' <=> BeingPushed(c)
                       /\ BeingEmptied(c)' <=> BeingEmptied(c)
  BY DEF OthersStay, BeingPushed, BeingEmptied
<1> QED
  BY <1>1 DEF absQueue

\* A thread leaves the section of a queue's lock, and it was alone there.
LEMMA Leaving ==
  ASSUME SectionsRight, NEW t \in Threads, NEW d \in Conds, InQueue(t, d), OthersStay(t),
         pc'[t] \notin {"wait_block", "bcast_loop"}
  PROVE  ~BeingPushed(d)' /\ ~BeingEmptied(d)'
<1>1. \A u \in Threads \ {t} : ~InQueue(u, d)
  BY DEF SectionsRight
<1>2. \A u \in Threads : pc'[u] \in {"wait_block", "bcast_loop"} => cv'[u] # d
  BY <1>1 DEF OthersStay, InQueue
<1> QED
  BY <1>2 DEF BeingPushed, BeingEmptied

\* The threads of S leave the queue of d, which becomes q, for the reason why.
Leave(d, q, S, why) ==
  /\ absQueue' = [absQueue EXCEPT ![d] = q]
  /\ S \subseteq Threads
  /\ \A y \in S : Contains(absQueue[d], y)
  /\ \A y \in Threads : Contains(q, y) <=> Contains(absQueue[d], y) /\ y \notin S
  /\ \A u \in Threads : pc'[u] \in {"sleep", "wait_mp"} <=> pc[u] \in {"sleep", "wait_mp"}
  /\ \A u \in Threads \ S : WasInterrupted(u)' <=> WasInterrupted(u)
  /\ \A u \in S : why = IF WasInterrupted(u)' THEN "interrupted" ELSE "signaled"

\* They are then woken for that reason, and nobody else is.
LEMMA LeaveView ==
  ASSUME ViewRight, QueuedOnlyWhileWaiting, NEW d \in Conds, NEW q, NEW S, NEW why,
         Leave(d, q, S, why)
  PROVE  absState' = [u \in Threads |-> IF u \in S THEN why ELSE absState[u]]
<1> USE DEF Leave
<1>1. \A c \in Conds, u \in Threads : Contains(absQueue[c], u)
        => cv[u] = c /\ pc[u] = "sleep"
  BY DEF ViewRight, QueuedOnlyWhileWaiting
<1>2. absQueue'[d] = q /\ \A c \in Conds \ {d} : absQueue'[c] = absQueue[c]
  BY DEF absQueue
<1>3. \A u \in Threads : (\E c \in Conds : Contains(absQueue'[c], u))
                     <=> (\E c \in Conds : Contains(absQueue[c], u)) /\ u \notin S
  BY <1>1, <1>2
<1>4. \A u \in S : absState'[u] = why
  BY <1>1, <1>3 DEF absState
<1>5. \A u \in Threads \ S : absState'[u] = absState[u]
  BY <1>3 DEF absState
<1>6. absState' = [u \in Threads |-> absState'[u]]
  BY DEF absState
<1> HIDE DEF absState
<1> QED
  BY <1>4, <1>5, <1>6

\* Whoever is still in a queue was not interrupted.
LEMMA QueuedUndisturbed ==
  ASSUME RefinedInv, NEW c \in Conds, NEW u \in Threads, Queued(c, u)
  PROVE  ~WasInterrupted(u)
BY DEF RefinedInv, NodesMatchWaits, WaiterInv, WaiterParts, InterruptedIsOut, WasInterrupted

LEMMA LocksMap ==
  ASSUME RefinedInv, RefinedInv', NEW t \in Threads,
         \/ WaitLockNode(t) \/ WaitLockQ(t) \/ SignalLockQ(t) \/ InterruptLockNode(t)
         \/ InterruptAccept(t) \/ InterruptLockQ(t)
  PROVE  Hidden
<1>0. /\ TypeInv /\ CallsRight /\ CallsRight'
      /\ OthersStay(t) /\ \A u \in Threads \ {t} : ret'[u] = ret[u]
  BY Setting DEF Kernel, WaitStep, SignalStep, InterruptStep
<1>1. /\ UNCHANGED <<waiting, flags, mp, ret>>
      /\ \/ /\ pc[t] \in {"wait_node", "wait_q"} /\ pc'[t] \in {"wait_q", "wait_push"}
            /\ UNCHANGED <<cv, unint>>
         \/ pc[t] = "signal_q" /\ pc'[t] = "signal_pop" /\ UNCHANGED cv
         \/ /\ pc[t] \in {"intr_node", "intr_check", "intr_q"}
            /\ pc'[t] \in {"intr_check", "intr_q", "intr_remove"}
            /\ UNCHANGED target
  BY <1>0 DEF WaitLockNode, WaitLockQ, SignalLockQ, InterruptLockNode, InterruptAccept,
     InterruptLockQ, Goto, locals, nodes, TypeInv, TypeOK
<1>2. UNCHANGED <<absQueue, absState>>
  <2>1. pc[t] \in Unseen /\ pc'[t] \in Unseen
    BY <1>1 DEF Unseen, Labels, WaitLabels, SignalLabels, InterruptLabels
  <2> QED
    BY <1>0, <1>1, <2>1, QuietView
<1>3. absCall'[t] = absCall[t] /\ absRet'[t] = absRet[t]
  BY <1>0, <1>1 DEF CallsRight, WaitLabels, InterruptLabels
<1> QED
  BY <1>0, <1>1, <1>2, <1>3, CallView, ResultView DEF Hidden

LEMMA WaitWakeMaps ==
  ASSUME RefinedInv, RefinedInv', NEW t \in Threads, WaitWake(t)
  PROVE  Hidden
<1>0. /\ TypeInv /\ CallsRight /\ CallsRight'
      /\ OthersStay(t) /\ \A u \in Threads \ {t} : ret'[u] = ret[u]
  BY Setting DEF Kernel, WaitStep
<1>1. /\ pc[t] = "sleep" /\ pc'[t] = "wait_mp"
      /\ UNCHANGED <<cv, unint, ret, mp, waiting, flags>>
  BY <1>0 DEF WaitWake, Goto, locals, TypeInv, TypeOK
<1>2. absQueue' = absQueue
  BY <1>0, <1>1, QueuesKept
<1>3. absState' = absState
  <2>1. \A u \in Threads : WasInterrupted(u)' <=> WasInterrupted(u)
    BY <1>0, <1>1, SameInterrupted
  <2> QED
    BY <1>0, <1>1, <1>2, <2>1, StatesKept DEF OthersStay
<1>4. absCall'[t] = absCall[t] /\ absRet'[t] = absRet[t]
  BY <1>0, <1>1 DEF CallsRight, WaitLabels
<1> QED
  BY <1>0, <1>1, <1>2, <1>3, <1>4, CallView, ResultView DEF Hidden

LEMMA WaitReturnMaps ==
  ASSUME RefinedInv, RefinedInv', NEW t \in Threads, WaitReturn(t),
         NEW d \in Conds, cv[t] = d
  PROVE  Abstract!Next
<1>0. /\ TypeInv /\ CallsRight /\ CallsRight' /\ ViewRight /\ ViewRight'
      /\ OthersStay(t) /\ \A u \in Threads \ {t} : ret'[u] = ret[u]
  BY Setting DEF Kernel, WaitStep
<1>1. /\ pc[t] = "wait_mp" /\ pc'[t] = "idle" /\ UNCHANGED <<waiting, flags>>
      /\ mp[Guard[d]] = NULL /\ mp' = [mp EXCEPT ![Guard[d]] = t]
      /\ ret'[t] = IF INTERRUPTED \in flags[t] THEN "-EINTR" ELSE "0"
      /\ unint[t] \in BOOLEAN
  BY <1>0 DEF WaitReturn, Goto, Return, mutex_lock, nodes, TypeInv, TypeOK
<1>2. absQueue' = absQueue
  BY <1>0, <1>1, QueuesKept
<1>3. /\ absState[t] = IF INTERRUPTED \in flags[t] THEN "interrupted" ELSE "signaled"
      /\ absState' = [absState EXCEPT ![t] = "running"]
  <2>1. WasInterrupted(t) <=> INTERRUPTED \in flags[t]
    BY <1>1 DEF RefinedInv, WaiterInv, WaiterParts, InterruptHitsItsWait, WasInterrupted
  <2>2. \A u \in Threads : WasInterrupted(u)' <=> WasInterrupted(u)
    BY <1>0, <1>1, SameInterrupted
  <2>3. absState'[t] = "running"
    BY <1>1 DEF absState
  <2>4. \A u \in Threads \ {t} : absState'[u] = absState[u]
    BY <1>0, <1>2, <2>2 DEF absState, OthersStay
  <2>5. /\ absState  = [u \in Threads |-> absState[u]]
        /\ absState' = [u \in Threads |-> absState'[u]]
    BY DEF absState
  <2>6. absState' = [absState EXCEPT ![t] = "running"]
    <3> HIDE DEF absState
    <3> QED
      BY <2>3, <2>4, <2>5
  <2> QED
    BY <1>0, <1>1, <2>1, <2>6 DEF ViewRight, StateOf, InWait
<1>4. /\ absCall[t] = <<"wait", d, unint[t]>>
      /\ absCall' = [absCall EXCEPT ![t] = NULL]
      /\ absRet' = [absRet EXCEPT ![t] = ret'[t]]
  <2>1. /\ absCall[t] = <<"wait", d, unint[t]>>
        /\ absCall'[t] = NULL /\ absRet'[t] = ret'[t]
    BY <1>0, <1>1 DEF CallsRight, WaitLabels
  <2> QED
    BY <1>0, <2>1, CallView, ResultView
<1>5. Abstract!WaitReturns(t, d, unint[t])
  BY <1>1, <1>2, <1>3, <1>4 DEF Abstract!WaitReturns, Abstract!End
<1> QED
  BY <1>1, <1>5 DEF Abstract!Next

LEMMA WaitRollbackMaps ==
  ASSUME RollbackSafe, RefinedInv, RefinedInv', NEW t \in Threads, WaitRollback(t),
         NEW d \in Conds, cv[t] = d
  PROVE  Abstract!Next
<1>0. /\ TypeInv /\ CallsRight /\ CallsRight' /\ SectionsRight /\ ViewRight
      /\ OthersStay(t) /\ \A u \in Threads \ {t} : ret'[u] = ret[u]
  BY Setting DEF Kernel, WaitStep
<1>1. /\ pc[t] = "wait_block" /\ pc'[t] = "idle" /\ UNCHANGED <<flags, mp>>
      /\ t \in Killable /\ unint[t] = FALSE /\ ret'[t] = "-EINTR"
      /\ waiting[d] \in Seq(Threads) /\ DOMAIN waiting = Conds
  BY <1>0 DEF WaitRollback, Goto, Return, nodes, TypeInv, TypeOK
<1>2. Len(waiting[d]) = 1 /\ waiting' = [waiting EXCEPT ![d] = <<>>]
  BY RollbackPops DEF RefinedInv
<1>3. InQueue(t, d)
  BY <1>1 DEF InQueue
<1>4. BeingPushed(d) /\ ~BeingEmptied(d) /\ ~BeingPushed(d)' /\ ~BeingEmptied(d)'
  BY <1>0, <1>1, <1>3, Leaving DEF SectionsRight
<1>5. absQueue' = absQueue
  <2>1. absQueue[d] = Tail(waiting[d]) /\ absQueue'[d] = <<>>
    BY <1>1, <1>2, <1>4 DEF absQueue
  <2>2. Tail(waiting[d]) = <<>>
    BY <1>1, <1>2, TailOfOne
  <2> QED
    BY <1>0, <1>1, <1>2, <2>1, <2>2, QueueView
<1>6. absState' = absState /\ absState[t] = "running"
  <2>1. \A u \in Threads : WasInterrupted(u)' <=> WasInterrupted(u)
    BY <1>0, <1>1, SameInterrupted
  <2> QED
    BY <1>0, <1>1, <1>5, <2>1, StatesKept DEF OthersStay, ViewRight, StateOf
<1>7. /\ absCall[t] = <<"wait", d, FALSE>>
      /\ absCall' = [absCall EXCEPT ![t] = NULL]
      /\ absRet' = [absRet EXCEPT ![t] = "-EINTR"]
  <2>1. /\ absCall[t] = <<"wait", d, FALSE>>
        /\ absCall'[t] = NULL /\ absRet'[t] = "-EINTR"
    BY <1>0, <1>1 DEF CallsRight, WaitLabels
  <2> QED
    BY <1>0, <2>1, CallView, ResultView
<1>8. Abstract!WaitFails(t, d)
  BY <1>1, <1>5, <1>6, <1>7 DEF Abstract!WaitFails, Abstract!End
<1> QED
  BY <1>8 DEF Abstract!Next

LEMMA SignalPopMaps ==
  ASSUME RefinedInv, RefinedInv', NEW t \in Threads, SignalPop(t),
         NEW d \in Conds, cv[t] = d
  PROVE  Abstract!Next
<1>0. /\ TypeInv /\ CallsRight /\ CallsRight' /\ SectionsRight /\ ViewRight
      /\ QueuedOnlyWhileWaiting
      /\ OthersStay(t) /\ \A u \in Threads \ {t} : ret'[u] = ret[u]
  BY Setting DEF Kernel, SignalStep
<1>1. /\ pc[t] = "signal_pop" /\ pc'[t] = "idle" /\ UNCHANGED <<flags, mp, ret>>
      /\ waiting[d] \in Seq(Threads) /\ DOMAIN waiting = Conds
      /\ IF waiting[d] = <<>> THEN UNCHANGED waiting
         ELSE waiting' = [waiting EXCEPT ![d] = Front(waiting[d])]
  BY <1>0 DEF SignalPop, Goto, do_cond_signal_unsafe, cond_q_pop, nodes, TypeInv, TypeOK
<1>2. InQueue(t, d)
  BY <1>1 DEF InQueue
<1>3. ~BeingPushed(d) /\ ~BeingEmptied(d) /\ ~BeingPushed(d)' /\ ~BeingEmptied(d)'
  BY <1>0, <1>1, <1>2, Leaving DEF SectionsRight
<1>4. absQueue[d] = waiting[d] /\ absQueue'[d] = waiting'[d]
  BY <1>3 DEF absQueue
<1>5. absQueue' = [absQueue EXCEPT ![d] = waiting'[d]]
  BY <1>0, <1>1, <1>4, QueueView
<1>6. Abstract!End(t, <<"signal", d>>, NULL)
  <2>1. /\ absCall[t] = <<"signal", d>>
        /\ absCall'[t] = NULL /\ absRet'[t] = NULL
    BY <1>0, <1>1 DEF CallsRight, RefinedInv, NoResultYet
  <2> QED
    BY <1>0, <2>1, CallView, ResultView DEF Abstract!End
<1>7. \A u \in Threads : WasInterrupted(u)' <=> WasInterrupted(u)
  BY <1>0, <1>1, SameInterrupted
<1>8. \A u \in Threads : pc'[u] \in {"sleep", "wait_mp"} <=> pc[u] \in {"sleep", "wait_mp"}
  BY <1>0, <1>1 DEF OthersStay
<1>9. CASE waiting[d] = <<>>
  <2>1. absQueue' = absQueue
    BY <1>0, <1>1, <1>4, <1>9, QueueView
  <2>2. absState' = absState
    BY <1>7, <1>8, <2>1, StatesKept
  <2>3. Abstract!Signal(t, d)
    BY <1>1, <1>4, <1>6, <1>9, <2>1, <2>2 DEF Abstract!Signal
  <2> QED
    BY <2>3 DEF Abstract!Next
<1>10. CASE waiting[d] # <<>>
  <2>0. PICK x : x = Last(waiting[d])
    OBVIOUS
  <2>1. /\ x \in Threads /\ Contains(waiting[d], x)
        /\ \A y : Contains(Front(waiting[d]), y) <=> Contains(waiting[d], y) /\ y # x
    BY <1>0, <1>1, <1>10, <2>0, PopElements, LastContained DEF QueuedOnlyWhileWaiting
  <2>2. waiting'[d] = Front(waiting[d])
    BY <1>1, <1>10
  <2>3. ~WasInterrupted(x)'
    BY <1>7, <2>1, QueuedUndisturbed DEF Queued
  <2>4. absState' = [u \in Threads |-> IF u \in {x} THEN "signaled" ELSE absState[u]]
    <3> DEFINE q == Front(waiting[d])
               S == {x}
    <3>1. Leave(d, q, S, "signaled")
      BY <1>4, <1>5, <1>7, <1>8, <2>1, <2>2, <2>3 DEF Leave
    <3> HIDE DEF q, S
    <3>2. absState' = [u \in Threads |-> IF u \in S THEN "signaled" ELSE absState[u]]
      BY <1>0, <3>1, LeaveView
    <3> QED
      BY <3>2 DEF S
  <2>5. absQueue' = [absQueue EXCEPT ![d] = Front(absQueue[d])] /\ x = Last(absQueue[d])
    BY <1>4, <1>5, <2>0, <2>2
  <2>6. Abstract!Front(absQueue[d]) = Front(absQueue[d])
        /\ Abstract!Last(absQueue[d]) = Last(absQueue[d])
    BY DEF Abstract!Front, Front, Abstract!Last, Last
  <2>7. Abstract!Signal(t, d)
    BY <1>1, <1>4, <1>6, <1>10, <2>4, <2>5, <2>6 DEF Abstract!Signal, Abstract!Wakes
  <2> QED
    BY <2>7 DEF Abstract!Next
<1> QED
  BY <1>9, <1>10

LEMMA BroadcastLockQMaps ==
  ASSUME RefinedInv, RefinedInv', NEW t \in Threads, BroadcastLockQ(t),
         NEW d \in Conds, cv[t] = d
  PROVE  Abstract!Next
<1> DEFINE S == ToSet(waiting[d])
<1>0. /\ TypeInv /\ LockInv /\ CallsRight /\ CallsRight' /\ SectionsRight' /\ ViewRight
      /\ QueuedOnlyWhileWaiting
      /\ OthersStay(t) /\ \A u \in Threads \ {t} : ret'[u] = ret[u]
  BY Setting DEF Kernel, SignalStep
<1>1. /\ pc[t] = "bcast_q" /\ pc'[t] = "bcast_loop" /\ cv'[t] = d
      /\ UNCHANGED <<flags, mp, ret, waiting>>
      /\ waiting[d] \in Seq(Threads) /\ q_lock[d] = NULL
  BY <1>0 DEF BroadcastLockQ, Goto, mutex_lock, locals, nodes, TypeInv, TypeOK
<1>2. ~BeingPushed(d) /\ ~BeingEmptied(d)
  BY <1>0, <1>1, CondAssumption
     DEF LockInv, LocksMatchSections, InQueue, BeingPushed, BeingEmptied
<1>3. BeingEmptied(d)'
  BY <1>1 DEF BeingEmptied
<1>4. absQueue[d] = waiting[d] /\ absQueue'[d] = <<>>
  BY <1>2, <1>3 DEF absQueue
<1>5. absQueue' = [absQueue EXCEPT ![d] = <<>>]
  BY <1>0, <1>1, <1>4, QueueView
<1>6. Abstract!End(t, <<"broadcast", d>>, NULL)
  <2>1. /\ absCall[t] = <<"broadcast", d>>
        /\ absCall'[t] = NULL /\ absRet'[t] = NULL
    BY <1>0, <1>1 DEF CallsRight, RefinedInv, NoResultYet
  <2> QED
    BY <1>0, <2>1, CallView, ResultView DEF Abstract!End
<1>7. \A u \in Threads : WasInterrupted(u)' <=> WasInterrupted(u)
  BY <1>0, <1>1, SameInterrupted
<1>8. \A u \in Threads : pc'[u] \in {"sleep", "wait_mp"} <=> pc[u] \in {"sleep", "wait_mp"}
  BY <1>0, <1>1 DEF OthersStay
<1>9. S \in SUBSET Threads /\ \A y : y \in S <=> Contains(waiting[d], y)
  BY <1>1, SetOfContained
<1>10. absState' = [u \in Threads |-> IF u \in S THEN "signaled" ELSE absState[u]]
  <2>1. \A y \in S : Contains(absQueue[d], y)
    BY <1>4, <1>9
  <2>2. \A y \in Threads : Contains(<<>>, y) <=> Contains(absQueue[d], y) /\ y \notin S
    <3>1. \A y : ~Contains(<<>>, y)
      BY EmptySeq DEF Contains
    <3> QED
      BY <1>4, <1>9, <3>1
  <2>3. \A u \in S : ~WasInterrupted(u)'
    BY <1>7, <1>9, QueuedUndisturbed DEF Queued
  <2> HIDE DEF S
  <2>4. Leave(d, <<>>, S, "signaled")
    BY <1>5, <1>7, <1>8, <1>9, <2>1, <2>2, <2>3 DEF Leave
  <2> QED
    BY <1>0, <2>4, LeaveView
<1>11. Abstract!ToSet(absQueue[d]) = S
  BY <1>4 DEF Abstract!ToSet, ToSet
<1>12. Abstract!Broadcast(t, d)
  BY <1>1, <1>5, <1>6, <1>10, <1>11 DEF Abstract!Broadcast, Abstract!Wakes
<1> QED
  BY <1>12 DEF Abstract!Next

LEMMA BroadcastGoesOn ==
  ASSUME RefinedInv, RefinedInv', NEW t \in Threads, BroadcastPop(t) \/ BroadcastEnd(t),
         NEW d \in Conds, cv[t] = d
  PROVE  Hidden
<1>0. /\ TypeInv /\ CallsRight /\ CallsRight' /\ SectionsRight
      /\ OthersStay(t) /\ \A u \in Threads \ {t} : ret'[u] = ret[u]
  BY Setting DEF Kernel, SignalStep
<1>1. /\ pc[t] = "bcast_loop" /\ UNCHANGED <<flags, mp, ret>>
      /\ \/ pc'[t] = "bcast_loop" /\ cv'[t] = d
         \/ pc'[t] = "idle" /\ waiting'[d] = <<>>
      /\ \A c \in Conds \ {d} : waiting'[c] = waiting[c]
  BY <1>0 DEF BroadcastPop, BroadcastEnd, Goto, do_cond_signal_unsafe, cond_q_pop, locals,
     nodes, TypeInv, TypeOK
<1>2. InQueue(t, d)
  BY <1>1 DEF InQueue
<1>3. absQueue[d] = <<>> /\ absQueue'[d] = <<>>
  <2>1. BeingEmptied(d)
    BY <1>1 DEF BeingEmptied
  <2>2. CASE pc'[t] = "bcast_loop"
    <3>1. BeingEmptied(d)'
      BY <1>1, <2>2 DEF BeingEmptied
    <3> QED
      BY <2>1, <3>1 DEF absQueue
  <2>3. CASE pc'[t] = "idle"
    <3>1. ~BeingPushed(d)' /\ ~BeingEmptied(d)'
      BY <1>0, <1>2, <2>3, Leaving
    <3> QED
      BY <1>1, <2>1, <2>3, <3>1 DEF absQueue
  <2> QED
    BY <1>1, <2>2, <2>3
<1>4. absQueue' = absQueue
  BY <1>0, <1>1, <1>3, QueueView
<1>5. absState' = absState
  <2>1. \A u \in Threads : WasInterrupted(u)' <=> WasInterrupted(u)
    BY <1>0, <1>1, SameInterrupted
  <2> QED
    BY <1>0, <1>1, <1>4, <2>1, StatesKept DEF OthersStay
<1>6. absCall'[t] = absCall[t] /\ absRet'[t] = absRet[t]
  BY <1>0, <1>1 DEF CallsRight
<1> QED
  BY <1>0, <1>1, <1>4, <1>5, <1>6, CallView, ResultView DEF Hidden

LEMMA InterruptFailsMaps ==
  ASSUME RefinedInv, RefinedInv', NEW t \in Threads,
         InterruptRefuse(t) \/ InterruptTooLate(t),
         NEW x \in Threads, target[t] = x
  PROVE  Abstract!Next
<1>0. /\ TypeInv /\ CallsRight /\ CallsRight' /\ ViewRight
      /\ OthersStay(t) /\ \A u \in Threads \ {t} : ret'[u] = ret[u]
  BY Setting DEF Kernel, InterruptStep
<1>1. /\ pc[t] \in {"intr_check", "intr_remove"} /\ pc'[t] = "idle"
      /\ UNCHANGED <<flags, mp, waiting>> /\ ret'[t] = "-EINVAL"
      /\ \/ node_cv[x] = NULL \/ UNINTERRUPTABLE \in flags[x]
         \/ pc[t] = "intr_remove" /\ ~Queued(cv[t], x)
  BY <1>0 DEF InterruptRefuse, InterruptTooLate, Goto, Return, nodes, TypeInv, TypeOK
<1>2. absQueue' = absQueue
  BY <1>0, <1>1, QueuesKept
<1>3. absState' = absState
  <2>1. \A u \in Threads : WasInterrupted(u)' <=> WasInterrupted(u)
    BY <1>0, <1>1, SameInterrupted
  <2> QED
    BY <1>0, <1>1, <1>2, <2>1, StatesKept DEF OthersStay
<1>4. Abstract!End(t, <<"interrupt", x>>, "-EINVAL")
  <2>1. /\ absCall[t] = <<"interrupt", x>>
        /\ absCall'[t] = NULL /\ absRet'[t] = "-EINVAL"
    BY <1>0, <1>1 DEF CallsRight, InterruptLabels
  <2> QED
    BY <1>0, <2>1, CallView, ResultView DEF Abstract!End
<1>5. ASSUME absState[x] = "waiting", NEW c \in Conds, absCall[x] = <<"wait", c, FALSE>>
      PROVE  FALSE
  <2>1. pc[x] = "sleep" /\ Queued(cv[x], x)
    BY <1>0, <1>5 DEF ViewRight, StateOf, InWait
  <2>2. unint[x] = FALSE
    <3>1. absCall[x] = <<"wait", cv[x], unint[x]>>
      BY <1>0, <2>1 DEF CallsRight, WaitLabels
    <3>2. \A a, b, e, f : <<"wait", a, b>> = <<"wait", e, f>> => b = f
      OBVIOUS
    <3>3. <<"wait", cv[x], unint[x]>> = <<"wait", c, FALSE>>
      BY <1>5, <3>1
    <3> QED
      BY <3>2, <3>3, Zenon
  <2>3. node_cv[x] = cv[x] /\ cv[x] \in Conds /\ UNINTERRUPTABLE \notin flags[x]
    BY <1>0, <2>1, <2>2 DEF RefinedInv, NodesMatchWaits, TypeInv, LocalsSet, WaitLabels
  <2>4. pc[t] = "intr_remove" => cv[t] = node_cv[x]
    BY DEF RefinedInv, NodesMatchWaits
  <2> QED
    BY <1>1, <2>1, <2>3, <2>4, CondAssumption
<1>6. Abstract!InterruptFails(t, x)
  BY <1>1, <1>2, <1>3, <1>4, <1>5 DEF Abstract!InterruptFails, Abstract!Waits
<1> QED
  BY <1>6 DEF Abstract!Next

LEMMA InterruptRemoveMaps ==
  ASSUME RefinedInv, RefinedInv', NEW t \in Threads, InterruptRemove(t),
         NEW d \in Conds, cv[t] = d, NEW x \in Threads, target[t] = x
  PROVE  Abstract!Next
<1>0. /\ TypeInv /\ CallsRight /\ CallsRight' /\ SectionsRight /\ ViewRight
      /\ QueuedOnlyWhileWaiting
      /\ OthersStay(t) /\ \A u \in Threads \ {t} : ret'[u] = ret[u]
  BY Setting DEF Kernel, InterruptStep
<1>1. /\ pc[t] = "intr_remove" /\ pc'[t] = "intr_wake" /\ target'[t] = x
      /\ UNCHANGED <<flags, mp, ret>> /\ Queued(d, x)
      /\ waiting[d] \in Seq(Threads) /\ DOMAIN waiting = Conds
  BY <1>0 DEF InterruptRemove, Goto, locals, nodes, TypeInv, TypeOK
<1>2. PICK i \in 1..Len(waiting[d]) :
        waiting[d][i] = x /\ waiting' = [waiting EXCEPT ![d] = RemoveAt(waiting[d], i)]
  BY DEF InterruptRemove, cond_q_remove
<1>3. InQueue(t, d)
  BY <1>1 DEF InQueue
<1>4. ~BeingPushed(d) /\ ~BeingEmptied(d) /\ ~BeingPushed(d)' /\ ~BeingEmptied(d)'
  BY <1>0, <1>1, <1>3, Leaving DEF SectionsRight
<1> DEFINE q == RemoveAt(waiting[d], i)
<1>5. absQueue[d] = waiting[d] /\ absQueue'[d] = q
  BY <1>1, <1>2, <1>4 DEF absQueue
<1>6. absQueue' = [absQueue EXCEPT ![d] = q]
  BY <1>0, <1>1, <1>2, <1>5, QueueView
<1>7. Abstract!End(t, <<"interrupt", x>>, "0")
  <2>1. /\ absCall[t] = <<"interrupt", x>>
        /\ absCall'[t] = NULL /\ absRet'[t] = "0"
    BY <1>0, <1>1 DEF CallsRight, InterruptLabels
  <2> QED
    BY <1>0, <2>1, CallView, ResultView DEF Abstract!End
<1>8. pc[x] = "sleep" /\ cv[x] = d /\ absState[x] = "waiting"
  BY <1>0, <1>1, <1>4 DEF QueuedOnlyWhileWaiting, ViewRight, StateOf, InWait, BeingPushed
<1>9. absCall[x] = <<"wait", d, FALSE>>
  <2>1. unint[x] = FALSE
    BY <1>0, <1>1, <1>8
       DEF RefinedInv, WaiterInv, WaiterParts, FlagsMatch, TypeInv, TypeOK
  <2> QED
    BY <1>0, <1>8, <2>1 DEF CallsRight, WaitLabels
<1>10. absState' = [u \in Threads |-> IF u \in {x} THEN "interrupted" ELSE absState[u]]
  <2> DEFINE S == {x}
  <2>1. S \in SUBSET Threads /\ \A y \in S : Contains(absQueue[d], y)
    BY <1>1, <1>5 DEF Queued
  <2>2. \A y \in Threads : Contains(q, y) <=> Contains(absQueue[d], y) /\ y \notin S
    BY <1>0, <1>1, <1>2, <1>5, RemoveElements DEF QueuedOnlyWhileWaiting
  <2>3. \A u \in Threads : pc'[u] \in {"sleep", "wait_mp"} <=> pc[u] \in {"sleep", "wait_mp"}
    BY <1>0, <1>1 DEF OthersStay
  <2>4. WasInterrupted(x)'
    BY <1>1 DEF WasInterrupted
  <2>5. \A u \in Threads \ S : WasInterrupted(u)' <=> WasInterrupted(u)
    BY <1>0, <1>1 DEF OthersStay, WasInterrupted
  <2>6. Leave(d, q, S, "interrupted")
    BY <1>6, <2>1, <2>2, <2>3, <2>4, <2>5 DEF Leave
  <2> HIDE DEF q, S
  <2>7. absState' = [u \in Threads |-> IF u \in S THEN "interrupted" ELSE absState[u]]
    BY <1>0, <2>6, LeaveView
  <2> QED
    BY <2>7 DEF S
<1>11. q = Abstract!RemoveAt(absQueue[d], i)
  BY <1>5 DEF RemoveAt, Abstract!RemoveAt
<1>12. /\ i \in 1..Len(absQueue[d]) /\ absQueue[d][i] = x
       /\ absQueue' = [absQueue EXCEPT ![d] = Abstract!RemoveAt(absQueue[d], i)]
  BY <1>2, <1>5, <1>6, <1>11
<1> HIDE DEF q
<1>13. Abstract!Interrupt(t, x)
  BY <1>1, <1>7, <1>8, <1>9, <1>10, <1>12
     DEF Abstract!Interrupt, Abstract!Wakes, Abstract!Waits
<1> QED
  BY <1>13 DEF Abstract!Next

LEMMA InterruptWakeMaps ==
  ASSUME RefinedInv, RefinedInv', NEW t \in Threads, InterruptWake(t),
         NEW x \in Threads, target[t] = x
  PROVE  Hidden
<1>0. /\ TypeInv /\ CallsRight /\ CallsRight'
      /\ OthersStay(t) /\ \A u \in Threads \ {t} : ret'[u] = ret[u]
  BY Setting DEF Kernel, InterruptStep
<1>1. /\ pc[t] = "intr_wake" /\ pc'[t] = "idle" /\ UNCHANGED <<mp, waiting>>
      /\ flags' = [flags EXCEPT ![x] = @ \cup {INTERRUPTED}]
      /\ ret'[t] = "0" /\ DOMAIN flags = Threads
  BY <1>0 DEF InterruptWake, Goto, Return, TypeInv, TypeOK
<1>2. absQueue' = absQueue
  BY <1>0, <1>1, QueuesKept
<1>3. absState' = absState
  <2>1. \A u \in Threads : WasInterrupted(u)' <=> WasInterrupted(u)
    BY <1>0, <1>1 DEF OthersStay, WasInterrupted
  <2> QED
    BY <1>0, <1>1, <1>2, <2>1, StatesKept DEF OthersStay
<1>4. absCall'[t] = absCall[t] /\ absRet'[t] = absRet[t]
  BY <1>0, <1>1 DEF CallsRight
<1> QED
  BY <1>0, <1>1, <1>2, <1>3, <1>4, CallView, ResultView DEF Hidden

LEMMA StepMaps ==
  ASSUME RollbackSafe, RefinedInv, RefinedInv', [Next]_vars
  PROVE  [Abstract!Next]_(Abstract!vars)
<1>0. TypeInv
  BY DEF RefinedInv, WaiterInv, LockInv
<1>1. CASE UNCHANGED vars
  <2>1. UNCHANGED <<absQueue, absCall, absRet>>
    BY <1>1 DEF vars, absQueue, BeingEmptied, BeingPushed, absCall, absRet
  <2>2. UNCHANGED absState
    BY <1>1, <2>1 DEF vars, absState, WasInterrupted
  <2> QED
    BY <1>1, <2>1, <2>2, HiddenStutters DEF vars, Hidden
<1>2. ASSUME NEW t \in Threads, Call(t) \/ Unlock(t)
      PROVE  Abstract!Next
  BY <1>2, CallMaps
<1>3. ASSUME NEW t \in Threads, WaitStep(t)
      PROVE  Abstract!Next \/ Hidden
  <2>1. cv[t] \in Conds
    BY <1>0, <1>3
       DEF TypeInv, LocalsSet, WaitLabels, WaitStep, WaitLockNode, WaitLockQ, WaitPush,
           WaitBlock, WaitRollback, WaitWake, WaitReturn, Goto
  <2> QED
    BY <1>3, <2>1, LocksMap, WaitPushMaps, WaitBlockMaps, WaitRollbackMaps, WaitWakeMaps,
       WaitReturnMaps DEF WaitStep
<1>4. ASSUME NEW t \in Threads, SignalStep(t)
      PROVE  Abstract!Next \/ Hidden
  <2>1. cv[t] \in Conds
    BY <1>0, <1>4
       DEF TypeInv, LocalsSet, SignalLabels, SignalStep, SignalLockQ, SignalPop,
           BroadcastLockQ, BroadcastPop, BroadcastEnd, Goto
  <2> QED
    BY <1>4, <2>1, LocksMap, SignalPopMaps, BroadcastLockQMaps, BroadcastGoesOn
       DEF SignalStep
<1>5. ASSUME NEW t \in Threads, InterruptStep(t)
      PROVE  Abstract!Next \/ Hidden
  <2>1. target[t] \in Threads /\ (InterruptRemove(t) => cv[t] \in Conds)
    BY <1>0, <1>5
       DEF TypeInv, LocalsSet, InterruptLabels, InterruptStep, InterruptLockNode,
           InterruptRefuse, InterruptAccept, InterruptLockQ, InterruptRemove,
           InterruptTooLate, InterruptWake, Goto
  <2> QED
    BY <1>5, <2>1, LocksMap, InterruptFailsMaps, InterruptRemoveMaps, InterruptWakeMaps
       DEF InterruptStep
<1> QED
  BY <1>1, <1>2, <1>3, <1>4, <1>5, HiddenStutters DEF Next, Kernel

LEMMA InitMaps == Init => Abstract!Init
<1> SUFFICES ASSUME Init PROVE Abstract!Init
  OBVIOUS
<1>1. absQueue = [c \in Conds |-> <<>>]
  BY DEF Init, absQueue, BeingEmptied, BeingPushed
<1>2. absState = [t \in Threads |-> "running"]
  BY DEF Init, absState
<1>3. absCall = [t \in Threads |-> NULL]
  BY DEF Init, absCall, WaitLabels, InterruptLabels
<1>4. absRet = [t \in Threads |-> NULL]
  BY DEF Init, absRet
<1> QED
  BY <1>1, <1>2, <1>3, <1>4 DEF Init, Abstract!Init

\* Where rollback is safe, the locking of cond.c implements the atomic calls of
\* cond.h: no wakeup is lost, none is spurious, the oldest waiter is signaled
\* first, and each call returns what cond.h says (cond.c:26-203).
THEOREM RefinementCorrect ==
  ASSUME RollbackSafe
  PROVE  Spec => ImplementsCondSpec
<1>1. RefinedInv /\ [Next]_vars => RefinedInv'
  BY RefinedStep
<1>2. RefinedInv /\ RefinedInv' /\ [Next]_vars => [Abstract!Next]_(Abstract!vars)
  BY StepMaps
<1> QED
  BY <1>1, <1>2, RefinedInit, InitMaps, PTL DEF Spec, ImplementsCondSpec, Abstract!Spec

=============================================================================
