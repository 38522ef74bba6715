-------------------------------- MODULE Cond --------------------------------
(***************************************************************************)
(* Condition variables of kernel/cond.c, run by a set of threads.          *)
(*                                                                         *)
(* Every lock acquisition of the code is a step of its own, so that other  *)
(* threads run wherever the code can be preempted.  The part of            *)
(* do_cond_wait between sched_lock_scheduler and                           *)
(* sched_unlock_scheduler_and_yield is one step: the scheduler is locked,  *)
(* and no other thread runs.  The scheduler itself is not in the           *)
(* repository; what cond.c expects of it is marked external.               *)
(*                                                                         *)
(* A queue of threads is a sequence, front first.  Module VariableQueue    *)
(* shows that the list macros implement these sequences as long as an      *)
(* element is in no queue when it is inserted, as QueuedOnlyWhileWaiting   *)
(* has it.                                                                 *)
(***************************************************************************)
EXTENDS Integers, SequencesExt

CONSTANTS
  Threads,          \* the threads of the kernel
  Mutexes,          \* the mutexes that clients of cond.c wait with
  Conds,            \* the condition variables
  Guard,            \* the mutex each condition variable is used with
  Waiters,          \* the threads that wait on each condition variable
  Killable,         \* the threads whose sleep the scheduler may refuse
  InterruptHolding, \* whether cond_interrupt is called with a mutex held
  NULL

ASSUME CondAssumption ==
  /\ Guard \in [Conds -> Mutexes]
  /\ Waiters \in [Conds -> SUBSET Threads]
  /\ Killable \subseteq Threads
  /\ InterruptHolding \in BOOLEAN
  /\ NULL \notin Threads
  /\ NULL \notin Conds
  /\ NULL \notin {"0", "-EINTR", "-EINVAL"}

VARIABLES
  pc,       \* where each thread is
  cv,       \* the argument or local variable "cv" of each thread's call
  target,   \* the argument "thread" of cond_interrupt
  unint,    \* whether opts has COND_UNINTERRUPTABLE
  ret,      \* the result of each thread's last call, NULL if it has none
  mp,       \* owner of each client mutex, NULL if unlocked
  q_lock,   \* owner of each condition variable's q_lock
  waiting,  \* queue of each condition variable
  lock,     \* owner of each thread's cond_q_node.lock
  node_cv,  \* each thread's cond_q_node.cv
  flags,    \* each thread's cond_q_node.flags
  sched     \* what the scheduler knows of each thread

locals == <<cv, target, unint>>
nodes  == <<node_cv, flags>>
vars   == <<pc, cv, target, unint, ret, mp, q_lock, waiting, lock, node_cv,
            flags, sched>>

WaitLabels ==
  {"wait_node", "wait_q", "wait_push", "wait_block", "sleep", "wait_mp"}
SignalLabels == {"signal_q", "signal_pop", "bcast_q", "bcast_loop"}
InterruptLabels == {"intr_node", "intr_check", "intr_q", "intr_remove"}
Labels ==
  {"idle", "intr_wake"} \cup WaitLabels \cup SignalLabels \cup InterruptLabels

INTERRUPTED     == "COND_INTERRUPTED"
UNINTERRUPTABLE == "COND_UNINTERRUPTABLE"

OwnerOrNull == Threads \cup {NULL}

TypeOK ==
  /\ pc      \in [Threads -> Labels]
  /\ cv      \in [Threads -> Conds \cup {NULL}]
  /\ target  \in [Threads -> Threads \cup {NULL}]
  /\ unint   \in [Threads -> BOOLEAN]
  /\ ret     \in [Threads -> {"0", "-EINTR", "-EINVAL", NULL}]
  /\ mp      \in [Mutexes -> OwnerOrNull]
  /\ q_lock  \in [Conds -> OwnerOrNull]
  /\ waiting \in [Conds -> Seq(Threads)]
  /\ lock    \in [Threads -> OwnerOrNull]
  /\ node_cv \in [Threads -> Conds \cup {NULL}]
  /\ flags   \in [Threads -> SUBSET {INTERRUPTED, UNINTERRUPTABLE}]
  /\ sched   \in [Threads -> {"runnable", "blocked"}]

Init ==
  /\ pc      = [t \in Threads |-> "idle"]
  /\ cv      = [t \in Threads |-> NULL]
  /\ target  = [t \in Threads |-> NULL]
  /\ unint   = [t \in Threads |-> FALSE]
  /\ ret     = [t \in Threads |-> NULL]
  /\ mp      = [m \in Mutexes |-> NULL]
  /\ q_lock  = [c \in Conds |-> NULL]
  /\ waiting = [c \in Conds |-> <<>>]
  /\ lock    = [t \in Threads |-> NULL]
  /\ node_cv = [t \in Threads |-> NULL]
  /\ flags   = [t \in Threads |-> {}]
  /\ sched   = [t \in Threads |-> "runnable"]

-----------------------------------------------------------------------------
(* Helpers: mutexes, control, the scheduler and the wait queue.            *)

\* The step of mutex_lock in which its compare-and-swap succeeds.
mutex_lock(m, x, t) == m[x] = NULL /\ m' = [m EXCEPT ![x] = t]

\* Stores MUTEX_OWNER_UNLOCKED without looking at the owner.
mutex_unlock(m, x) == m' = [m EXCEPT ![x] = NULL]

Goto(t, from, to) == pc[t] = from /\ pc' = [pc EXCEPT ![t] = to]

\* A call begins, and ends: the local variables go, the result stays.
Begin(t, label) ==
  Goto(t, "idle", label) /\ ret' = [ret EXCEPT ![t] = NULL]
End(t) ==
  /\ cv' = [cv EXCEPT ![t] = NULL]
  /\ target' = [target EXCEPT ![t] = NULL]
  /\ unint' = [unint EXCEPT ![t] = FALSE]
Return(t, val) == End(t) /\ ret' = [ret EXCEPT ![t] = val]

\* External: the scheduler marks the thread blocked or runnable.
sched_set_blocked(t) == sched' = [sched EXCEPT ![t] = "blocked"]
sched_unblock_tcb(t) == sched' = [sched EXCEPT ![t] = "runnable"]

cond_q_push(c, t) == waiting' = [waiting EXCEPT ![c] = <<t>> \o @]

\* Takes the element at the tail, the oldest one.
cond_q_pop(c) == waiting' = [waiting EXCEPT ![c] = Front(@)]

Queued(c, t) == Contains(waiting[c], t)
cond_q_remove(c, t) ==
  \E i \in 1..Len(waiting[c]) :
    /\ waiting[c][i] = t
    /\ \A j \in 1..(i - 1) : waiting[c][j] # t
    /\ waiting' = [waiting EXCEPT ![c] = RemoveAt(@, i)]

HoldsMutex(t) == \E m \in Mutexes : mp[m] = t

-----------------------------------------------------------------------------
(* Clients: they take and release the mutexes around their own data, wait  *)
(* with the guard of the condition variable held, as cond.h asks, and      *)
(* signal with or without it.                                              *)

ClientLock(t, m) ==
  /\ pc[t] = "idle"
  /\ ~HoldsMutex(t)
  /\ mutex_lock(mp, m, t)
  /\ UNCHANGED <<pc, locals, ret, q_lock, waiting, lock, nodes, sched>>

ClientUnlock(t, m) ==
  /\ pc[t] = "idle"
  /\ mp[m] = t
  /\ mutex_unlock(mp, m)
  /\ UNCHANGED <<pc, locals, ret, q_lock, waiting, lock, nodes, sched>>

CallWait(t, c, u) ==
  /\ Begin(t, "wait_node")
  /\ t \in Waiters[c]
  /\ mp[Guard[c]] = t
  /\ cv' = [cv EXCEPT ![t] = c]
  /\ unint' = [unint EXCEPT ![t] = u]
  /\ UNCHANGED <<target, mp, q_lock, waiting, lock, nodes, sched>>

CallSignal(t, c) ==
  /\ Begin(t, "signal_q")
  /\ cv' = [cv EXCEPT ![t] = c]
  /\ UNCHANGED <<target, unint, mp, q_lock, waiting, lock, nodes, sched>>

CallBroadcast(t, c) ==
  /\ Begin(t, "bcast_q")
  /\ cv' = [cv EXCEPT ![t] = c]
  /\ UNCHANGED <<target, unint, mp, q_lock, waiting, lock, nodes, sched>>

CallInterrupt(t, u) ==
  /\ Begin(t, "intr_node")
  /\ HoldsMutex(t) => InterruptHolding
  /\ target' = [target EXCEPT ![t] = u]
  /\ UNCHANGED <<cv, unint, mp, q_lock, waiting, lock, nodes, sched>>

-----------------------------------------------------------------------------
(* Faulty variants of the operations below: each breaks a property.        *)

\* Signals the newest waiter.
SignalsNewest(c) ==
  IF waiting[c] = <<>>
  THEN UNCHANGED <<waiting, sched>>
  ELSE /\ waiting' = [waiting EXCEPT ![c] = Tail(@)]
       /\ sched_unblock_tcb(Head(waiting[c]))

\* Takes the oldest waiter out and wakes the newest.
PopsOneWakesAnother(c) ==
  IF waiting[c] = <<>>
  THEN UNCHANGED <<waiting, sched>>
  ELSE cond_q_pop(c) /\ sched_unblock_tcb(Head(waiting[c]))

\* Goes to sleep with its node locked.
PushKeepsNode(t) ==
  /\ Goto(t, "wait_push", "wait_block")
  /\ cond_q_push(cv[t], t)
  /\ flags' = [flags EXCEPT ![t] = IF unint[t] THEN {UNINTERRUPTABLE} ELSE {}]
  /\ node_cv' = [node_cv EXCEPT ![t] = cv[t]]
  /\ UNCHANGED <<locals, ret, mp, q_lock, lock, sched>>

\* Releases the client's mutex on the error path too.
RollbackUnlocks(t) ==
  /\ Goto(t, "wait_block", "idle")
  /\ t \in Killable
  /\ ~unint[t]
  /\ cond_q_pop(cv[t])
  /\ mutex_unlock(q_lock, cv[t])
  /\ mutex_unlock(mp, Guard[cv[t]])
  /\ Return(t, "-EINTR")
  /\ UNCHANGED <<lock, nodes, sched>>

\* Forgets to unlock the node when it returns -EINTR.
InterruptedKeepsNode(t) ==
  /\ Goto(t, "wait_mp", "idle")
  /\ mutex_lock(mp, Guard[cv[t]], t)
  /\ IF INTERRUPTED \in flags[t]
     THEN Return(t, "-EINTR") /\ UNCHANGED lock
     ELSE Return(t, "0") /\ mutex_unlock(lock, t)
  /\ UNCHANGED <<q_lock, waiting, nodes, sched>>

\* Leaves the queue locked.
BroadcastKeepsQ(t) ==
  /\ Goto(t, "bcast_loop", "idle")
  /\ waiting[cv[t]] = <<>>
  /\ End(t)
  /\ UNCHANGED <<ret, mp, q_lock, waiting, lock, nodes, sched>>

\* Interrupts uninterruptable waits too.
AcceptsAnyWait(t) ==
  /\ Goto(t, "intr_check", "intr_q")
  /\ node_cv[target[t]] # NULL
  /\ cv' = [cv EXCEPT ![t] = node_cv[target[t]]]
  /\ UNCHANGED <<target, unint, ret, mp, q_lock, waiting, lock, nodes, sched>>

\* Wakes the thread and leaves it in the queue.
InterruptLeavesQueued(t) ==
  /\ Goto(t, "intr_remove", "intr_wake")
  /\ Queued(cv[t], target[t])
  /\ mutex_unlock(q_lock, cv[t])
  /\ UNCHANGED <<locals, ret, mp, waiting, lock, nodes, sched>>

\* Returns the error of cond_q_remove.
TooLateReturnsESRCH(t) ==
  /\ Goto(t, "intr_remove", "idle")
  /\ ~Queued(cv[t], target[t])
  /\ mutex_unlock(q_lock, cv[t])
  /\ mutex_unlock(lock, target[t])
  /\ Return(t, "-ESRCH")
  /\ UNCHANGED <<mp, waiting, nodes, sched>>

\* Wakes the thread and leaves its node locked.
WakeKeepsNode(t) ==
  /\ Goto(t, "intr_wake", "idle")
  /\ flags' = [flags EXCEPT ![target[t]] = @ \cup {INTERRUPTED}]
  /\ sched_unblock_tcb(target[t])
  /\ Return(t, "0")
  /\ UNCHANGED <<mp, q_lock, waiting, lock, node_cv>>

-----------------------------------------------------------------------------
(* do_cond_wait                                                            *)

WaitLockNode(t) ==
  /\ Goto(t, "wait_node", "wait_q")
  /\ mutex_lock(lock, t, t)
  /\ UNCHANGED <<locals, ret, mp, q_lock, waiting, nodes, sched>>

WaitLockQ(t) ==
  /\ Goto(t, "wait_q", "wait_push")
  /\ mutex_lock(q_lock, cv[t], t)
  /\ UNCHANGED <<locals, ret, mp, waiting, lock, nodes, sched>>

WaitPush(t) ==
  /\ Goto(t, "wait_push", "wait_block")
  /\ cond_q_push(cv[t], t)
  /\ flags' = [flags EXCEPT ![t] = IF unint[t] THEN {UNINTERRUPTABLE} ELSE {}]
  /\ node_cv' = [node_cv EXCEPT ![t] = cv[t]]
  /\ mutex_unlock(lock, t)
  /\ UNCHANGED <<locals, ret, mp, q_lock, sched>>

\* The scheduler is locked: block, then release the mutex and the queue.
WaitBlock(t) ==
  /\ Goto(t, "wait_block", "sleep")
  /\ sched_set_blocked(t)
  /\ mutex_unlock(mp, Guard[cv[t]])
  /\ mutex_unlock(q_lock, cv[t])
  /\ UNCHANGED <<locals, ret, waiting, lock, nodes>>

\* The scheduler is locked: it refuses to block, and the push is rolled back.
WaitRollback(t) ==
  /\ Goto(t, "wait_block", "idle")
  /\ t \in Killable
  /\ ~unint[t]
  /\ cond_q_pop(cv[t])
  /\ mutex_unlock(q_lock, cv[t])
  /\ Return(t, "-EINTR")
  /\ UNCHANGED <<mp, lock, nodes, sched>>

\* The thread runs again.
WaitWake(t) ==
  /\ Goto(t, "sleep", "wait_mp")
  /\ sched[t] = "runnable"
  /\ mutex_lock(lock, t, t)
  /\ node_cv' = [node_cv EXCEPT ![t] = NULL]
  /\ UNCHANGED <<locals, ret, mp, q_lock, waiting, flags, sched>>

WaitReturn(t) ==
  /\ Goto(t, "wait_mp", "idle")
  /\ mutex_lock(mp, Guard[cv[t]], t)
  /\ Return(t, IF INTERRUPTED \in flags[t] THEN "-EINTR" ELSE "0")
  /\ mutex_unlock(lock, t)
  /\ UNCHANGED <<q_lock, waiting, nodes, sched>>

-----------------------------------------------------------------------------
(* cond_signal, cond_broadcast and their helper do_cond_signal_unsafe      *)

do_cond_signal_unsafe(c) ==
  IF waiting[c] = <<>>
  THEN UNCHANGED <<waiting, sched>>
  ELSE cond_q_pop(c) /\ sched_unblock_tcb(Last(waiting[c]))

SignalLockQ(t) ==
  /\ Goto(t, "signal_q", "signal_pop")
  /\ mutex_lock(q_lock, cv[t], t)
  /\ UNCHANGED <<locals, ret, mp, waiting, lock, nodes, sched>>

SignalPop(t) ==
  /\ Goto(t, "signal_pop", "idle")
  /\ do_cond_signal_unsafe(cv[t])
  /\ mutex_unlock(q_lock, cv[t])
  /\ End(t)
  /\ UNCHANGED <<ret, mp, lock, nodes>>

BroadcastLockQ(t) ==
  /\ Goto(t, "bcast_q", "bcast_loop")
  /\ mutex_lock(q_lock, cv[t], t)
  /\ UNCHANGED <<locals, ret, mp, waiting, lock, nodes, sched>>

BroadcastPop(t) ==
  /\ pc[t] = "bcast_loop"
  /\ waiting[cv[t]] # <<>>
  /\ do_cond_signal_unsafe(cv[t])
  /\ UNCHANGED <<pc, locals, ret, mp, q_lock, lock, nodes>>

BroadcastEnd(t) ==
  /\ Goto(t, "bcast_loop", "idle")
  /\ waiting[cv[t]] = <<>>
  /\ mutex_unlock(q_lock, cv[t])
  /\ End(t)
  /\ UNCHANGED <<ret, mp, waiting, lock, nodes, sched>>

-----------------------------------------------------------------------------
(* cond_interrupt                                                          *)

InterruptLockNode(t) ==
  /\ Goto(t, "intr_node", "intr_check")
  /\ mutex_lock(lock, target[t], t)
  /\ UNCHANGED <<locals, ret, mp, q_lock, waiting, nodes, sched>>

\* The thread waits on nothing, or must not be interrupted.
InterruptRefuse(t) ==
  /\ Goto(t, "intr_check", "idle")
  /\ node_cv[target[t]] = NULL \/ UNINTERRUPTABLE \in flags[target[t]]
  /\ mutex_unlock(lock, target[t])
  /\ Return(t, "-EINVAL")
  /\ UNCHANGED <<mp, q_lock, waiting, nodes, sched>>

InterruptAccept(t) ==
  /\ Goto(t, "intr_check", "intr_q")
  /\ node_cv[target[t]] # NULL
  /\ UNINTERRUPTABLE \notin flags[target[t]]
  /\ cv' = [cv EXCEPT ![t] = node_cv[target[t]]]
  /\ UNCHANGED <<target, unint, ret, mp, q_lock, waiting, lock, nodes, sched>>

InterruptLockQ(t) ==
  /\ Goto(t, "intr_q", "intr_remove")
  /\ mutex_lock(q_lock, cv[t], t)
  /\ UNCHANGED <<locals, ret, mp, waiting, lock, nodes, sched>>

InterruptRemove(t) ==
  /\ Goto(t, "intr_remove", "intr_wake")
  /\ Queued(cv[t], target[t])
  /\ cond_q_remove(cv[t], target[t])
  /\ mutex_unlock(q_lock, cv[t])
  /\ UNCHANGED <<locals, ret, mp, lock, nodes, sched>>

\* cond_q_remove answers -ESRCH: the thread was woken in the meantime.
InterruptTooLate(t) ==
  /\ Goto(t, "intr_remove", "idle")
  /\ ~Queued(cv[t], target[t])
  /\ mutex_unlock(q_lock, cv[t])
  /\ mutex_unlock(lock, target[t])
  /\ Return(t, "-EINVAL")
  /\ UNCHANGED <<mp, waiting, nodes, sched>>

InterruptWake(t) ==
  /\ Goto(t, "intr_wake", "idle")
  /\ flags' = [flags EXCEPT ![target[t]] = @ \cup {INTERRUPTED}]
  /\ sched_unblock_tcb(target[t])
  /\ mutex_unlock(lock, target[t])
  /\ Return(t, "0")
  /\ UNCHANGED <<mp, q_lock, waiting, node_cv>>

-----------------------------------------------------------------------------
Call(t) ==
  \/ \E m \in Mutexes : ClientLock(t, m)
  \/ \E c \in Conds :
       \/ \E u \in BOOLEAN : CallWait(t, c, u)
       \/ CallSignal(t, c)
       \/ CallBroadcast(t, c)
  \/ \E u \in Threads : CallInterrupt(t, u)

WaitStep(t) ==
  \/ WaitLockNode(t) \/ WaitLockQ(t) \/ WaitPush(t) \/ WaitBlock(t)
  \/ WaitRollback(t) \/ WaitWake(t) \/ WaitReturn(t)

SignalStep(t) ==
  \/ SignalLockQ(t) \/ SignalPop(t)
  \/ BroadcastLockQ(t) \/ BroadcastPop(t) \/ BroadcastEnd(t)

InterruptStep(t) ==
  \/ InterruptLockNode(t) \/ InterruptRefuse(t) \/ InterruptAccept(t)
  \/ InterruptLockQ(t) \/ InterruptRemove(t) \/ InterruptTooLate(t)
  \/ InterruptWake(t)

\* What a thread inside the kernel does next, once it is scheduled.
Kernel(t) == WaitStep(t) \/ SignalStep(t) \/ InterruptStep(t)

Unlock(t) == \E m \in Mutexes : ClientUnlock(t, m)

Next == \E t \in Threads : Call(t) \/ Unlock(t) \/ Kernel(t)

Spec == Init /\ [][Next]_vars

-----------------------------------------------------------------------------
(* Properties                                                              *)

\* The sections of the code in which t holds the lock of u's node, and the
\* lock of c's queue.
InNode(t, u) ==
  \/ t = u /\ pc[t] \in {"wait_q", "wait_push", "wait_mp"}
  \/ target[t] = u /\ pc[t] \in {"intr_check", "intr_q", "intr_remove",
                                  "intr_wake"}
InQueue(t, c) ==
  /\ cv[t] = c
  /\ pc[t] \in {"wait_push", "wait_block", "signal_pop", "bcast_loop",
                "intr_remove"}

\* mutex_unlock frees a lock whoever holds it.  Even so, at each step of
\* cond.c a lock is held by the one thread that is in the code it protects,
\* and do_cond_wait keeps the client's mutex until it gives it up itself.
LocksMatchSections ==
  /\ \A t, u \in Threads : lock[u] = t <=> InNode(t, u)
  /\ \A t \in Threads, c \in Conds : q_lock[c] = t <=> InQueue(t, c)
  /\ \A t \in Threads :
       pc[t] \in {"wait_node", "wait_q", "wait_push", "wait_block"}
         => mp[Guard[cv[t]]] = t

\* A node is in one queue, once, and only while its thread is in the part of
\* do_cond_wait that waits on that condition variable: no node is pushed
\* that is still linked, and no signal is spent on a thread that has left.
QueuedOnlyWhileWaiting ==
  \A c \in Conds :
    /\ IsInjective(waiting[c])
    /\ \A t \in Threads : Queued(c, t) =>
         /\ cv[t] = c
         /\ \/ pc[t] = "wait_block"
            \/ pc[t] = "sleep" /\ sched[t] = "blocked"

\* Whoever the scheduler does not run can still be woken: it is in the queue
\* of its condition variable, where a signal finds it, or a cond_interrupt
\* that took it out is about to wake it.
NoWaiterLost ==
  \A t \in Threads : sched[t] = "blocked" =>
    \/ Queued(cv[t], t)
    \/ \E u \in Threads : pc[u] = "intr_wake" /\ target[u] = t

\* cond_interrupt wakes the wait it decided to interrupt, not one the thread
\* began since, so the assertion of cond_wait_uninterruptable holds.
InterruptHitsItsWait ==
  \A t \in Threads :
    /\ pc[t] = "intr_wake" => /\ pc[target[t]] = "sleep"
                              /\ sched[target[t]] = "blocked"
                              /\ ~unint[target[t]]
    /\ pc[t] = "wait_mp" /\ unint[t] => INTERRUPTED \notin flags[t]

\* The thread t spins for, NULL if the lock is free or t does not spin.
SpinsOn(t) ==
  CASE pc[t] = "wait_node" -> lock[t]
    [] pc[t] = "sleep" /\ sched[t] = "runnable" -> lock[t]
    [] pc[t] = "intr_node" -> lock[target[t]]
    [] pc[t] \in {"wait_q", "signal_q", "bcast_q", "intr_q"} -> q_lock[cv[t]]
    [] pc[t] = "wait_mp" -> mp[Guard[cv[t]]]
    [] OTHER -> NULL

\* Spinning ends: no threads of cond.c spin for one another's locks in a
\* circle, and none spins for the lock of a thread that sleeps.
NoSpinDeadlock ==
  \A S \in SUBSET Threads :
    (\A t \in S : \E u \in Threads :
       SpinsOn(t) = u /\ (u \in S \/ sched[u] = "blocked")) => S = {}

\* cond.c:77, "Rollback changes and propagate error": a cond_wait that cannot
\* sleep takes back its own push, and nobody else's.  False where another thread
\* waits on the same condition variable.
RollbackUndoesPush ==
  [][\A t \in Threads : pc[t] = "wait_block" /\ pc'[t] = "idle"
       => waiting' = [waiting EXCEPT ![cv[t]] = Tail(@)]]_vars

=============================================================================
