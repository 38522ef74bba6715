------------------------------- MODULE RwLock -------------------------------
(***************************************************************************)
(* Read/write locks of kernel/rwlock.c, on top of a mutex and two          *)
(* condition variables.                                                    *)
(*                                                                         *)
(* The calls of cond.c are the steps of CondSpec, which Cond implements    *)
(* where the scheduler never refuses to block.  What a thread does with    *)
(* lock->lock held, between two calls of cond.c, is one step.              *)
(***************************************************************************)
EXTENDS Integers, FiniteSets, SequencesExt

CONSTANTS
  Threads,
  Types,       \* the modes clients ask for, among READ and WRITE
  NULL

READ     == 0
WRITE    == 1
UNLOCKED == -1

VARIABLES
  interrupts, \* whether threads call cond_interrupt at all; never changes
  pc,       \* where each thread is
  type,     \* the arguments "type" and "flags" of do_rwlock_lock
  steady,
  holds,    \* the mode each client has the lock in, or NULL
  count,
  mode,
  waiting,  \* queue of the waiting threads and their modes, front first
  mp, queue, state, call, ret  \* the state of CondSpec

lock    == "lock"
readers == "readers"
writers == "writers"

Cond == INSTANCE CondSpec
  WITH Mutexes <- {lock}, Conds <- {readers, writers},
       Guard <- [c \in {readers, writers} |-> lock], Killable <- {}

ASSUME RwLockAssumption ==
  /\ IsFiniteSet(Threads)
  /\ Types \subseteq {READ, WRITE}
  /\ NULL \notin Threads \cup {READ, WRITE}
  /\ NULL \notin Cond!Operations

cond == <<mp, queue, state, call, ret>>
args == <<type, steady>>
vars == <<interrupts, pc, args, holds, count, mode, waiting, cond>>

Labels == {"idle", "lock", "lock_wait", "lock_asleep", "lock_back",
           "unlock", "unlock_wake", "unlock_out", "downgrade", "downgrade_mode",
           "interrupt"}

TypeOK ==
  /\ interrupts \in BOOLEAN
  /\ pc \in [Threads -> Labels]
  /\ type \in [Threads -> {READ, WRITE, NULL}]
  /\ steady \in [Threads -> BOOLEAN]
  /\ holds \in [Threads -> {READ, WRITE, NULL}]
  /\ count \in 0..Cardinality(Threads)
  /\ mode \in {READ, WRITE, UNLOCKED}
  /\ waiting \in Seq([thread : Threads, mode : {READ, WRITE}])

Init ==
  /\ interrupts \in BOOLEAN
  /\ pc = [t \in Threads |-> "idle"]
  /\ type = [t \in Threads |-> NULL]
  /\ steady = [t \in Threads |-> FALSE]
  /\ holds = [t \in Threads |-> NULL]
  /\ count = 0
  /\ mode = UNLOCKED
  /\ waiting = <<>>
  /\ Cond!Init

Goto(t, from, to) == pc[t] = from /\ pc' = [pc EXCEPT ![t] = to]

\* do_rwlock_lock returns: its arguments go.
Leave(t, from, held) ==
  /\ Goto(t, from, "idle")
  /\ type' = [type EXCEPT ![t] = NULL]
  /\ steady' = [steady EXCEPT ![t] = FALSE]
  /\ holds' = [holds EXCEPT ![t] = held]
  /\ Cond!Unlock(t, lock)

rwlock_q_push(t) == waiting' = <<[thread |-> t, mode |-> type[t]]>> \o waiting

\* The callers assert that the node is in the queue.
rwlock_q_remove(t) == \E i \in DOMAIN waiting :
  waiting[i].thread = t /\ waiting' = RemoveAt(waiting, i)

QueueOf(t) == IF type[t] = READ THEN readers ELSE writers

-----------------------------------------------------------------------------
(* Faulty variants of the operations below: each breaks a property.        *)

\* A writer waits only for writers.
WaitsForWriters(t) ==
  mode = WRITE /\ (type[t] = WRITE => count # 0)

\* Leaves the node of an interrupted thread in the queue.
InterruptedKeepsNode(t) ==
  /\ ret[t] = "-EINTR"
  /\ Leave(t, "lock_back", NULL)
  /\ UNCHANGED <<count, mode, waiting>>

\* Counts an interrupted thread as if it had got the lock.
InterruptedCounts(t) ==
  /\ ret[t] = "-EINTR"
  /\ count' = count + 1
  /\ rwlock_q_remove(t)
  /\ Leave(t, "lock_back", NULL)
  /\ UNCHANGED mode

\* Takes the lock without counting itself.
TakesUncounted(t, from) ==
  /\ mode' = type[t]
  /\ Leave(t, from, type[t])
  /\ UNCHANGED count

\* Signals one reader where all should run.
HandsToOne(t, next_mode) ==
  /\ Goto(t, "unlock", "unlock_wake")
  /\ mode' = next_mode
  /\ Cond!Begin(t, <<"signal", IF next_mode = READ THEN readers ELSE writers>>)

\* Wakes a writer only if the lock was free already.
HandsToWriterTooLate(t, next_mode) ==
  /\ mode' = next_mode
  /\ \/ /\ next_mode = READ
        /\ Goto(t, "unlock", "unlock_wake")
        /\ Cond!Begin(t, <<"broadcast", readers>>)
     \/ next_mode = WRITE /\ Goto(t, "unlock", "unlock_out") /\ UNCHANGED cond

\* The conditions of the two wait loops.
MustWait(t) ==
  \/ type[t] = READ /\ mode = WRITE
  \/ type[t] = WRITE /\ count # 0

-----------------------------------------------------------------------------
(* do_rwlock_lock                                                          *)

LockEnter(t, ty, u) ==
  /\ Goto(t, "idle", "lock")
  /\ holds[t] = NULL
  /\ type' = [type EXCEPT ![t] = ty]
  /\ steady' = [steady EXCEPT ![t] = u]
  /\ Cond!Lock(t, lock)
  /\ UNCHANGED <<holds, count, mode, waiting>>

\* The thread gets the lock.
Take(t, from) ==
  /\ mode' = type[t]
  /\ count' = count + 1
  /\ Leave(t, from, type[t])

\* The lock is free, or a reader finds no one waiting.
LockAtOnce(t) ==
  /\ \/ count = 0 /\ mode = UNLOCKED
     \/ type[t] = READ /\ waiting = <<>>
  /\ Take(t, "lock")
  /\ UNCHANGED waiting

\* A thread that pushed itself and need not wait takes its node out again, from
\* where it put it.
LockNoWait(t) ==
  /\ ~(count = 0 /\ mode = UNLOCKED)
  /\ type[t] = WRITE \/ waiting # <<>>
  /\ ~MustWait(t)
  /\ Take(t, "lock")
  /\ UNCHANGED waiting

LockWait(t) ==
  /\ Goto(t, "lock", "lock_wait")
  /\ ~(count = 0 /\ mode = UNLOCKED)
  /\ type[t] = WRITE \/ waiting # <<>>
  /\ MustWait(t)
  /\ rwlock_q_push(t)
  /\ Cond!Begin(t, <<"wait", QueueOf(t), steady[t]>>)
  /\ UNCHANGED <<args, holds, count, mode>>

LockSleep(t) ==
  /\ Goto(t, "lock_wait", "lock_asleep")
  /\ Cond!Wait(t, QueueOf(t), steady[t])
  /\ UNCHANGED <<args, holds, count, mode, waiting>>

\* rwlock_wait returns, with lock->lock held.
LockWoken(t) ==
  /\ Goto(t, "lock_asleep", "lock_back")
  /\ Cond!WaitReturns(t, QueueOf(t), steady[t])
  /\ UNCHANGED <<args, holds, count, mode, waiting>>

LockInterrupted(t) ==
  /\ ret[t] = "-EINTR"
  /\ rwlock_q_remove(t)
  /\ Leave(t, "lock_back", NULL)
  /\ UNCHANGED <<count, mode>>

LockAgain(t) ==
  /\ Goto(t, "lock_back", "lock_wait")
  /\ ret[t] # "-EINTR"
  /\ MustWait(t)
  /\ Cond!Begin(t, <<"wait", QueueOf(t), steady[t]>>)
  /\ UNCHANGED <<args, holds, count, mode, waiting>>

LockAfterWait(t) ==
  /\ ret[t] # "-EINTR"
  /\ ~MustWait(t)
  /\ Take(t, "lock_back")
  /\ rwlock_q_remove(t)

-----------------------------------------------------------------------------
(* rwlock_unlock, by a client that has the lock                            *)

UnlockEnter(t) ==
  /\ Goto(t, "idle", "unlock")
  /\ holds[t] # NULL
  /\ Cond!Lock(t, lock)
  /\ holds' = [holds EXCEPT ![t] = NULL]
  /\ UNCHANGED <<args, count, mode, waiting>>

\* Others still have the lock, or nobody waits for it.
UnlockLast(t) ==
  /\ count' = count - 1
  /\ \/ count > 1 /\ UNCHANGED mode
     \/ count <= 1 /\ waiting = <<>> /\ mode' = UNLOCKED
  /\ Goto(t, "unlock", "idle")
  /\ Cond!Unlock(t, lock)
  /\ UNCHANGED <<args, holds, waiting>>

\* The mode of the queue's front decides who is woken.
HandTo(t, next_mode) ==
  /\ Goto(t, "unlock", "unlock_wake")
  /\ mode' = next_mode
  /\ Cond!Begin(t, IF next_mode = READ THEN <<"broadcast", readers>>
                                       ELSE <<"signal", writers>>)

UnlockHandOff(t) ==
  /\ count' = count - 1
  /\ count <= 1
  /\ waiting # <<>>
  /\ HandTo(t, Head(waiting).mode)
  /\ UNCHANGED <<args, holds, waiting>>

\* The call of cond_signal or cond_broadcast.
Wake(t) ==
  /\ Goto(t, "unlock_wake", "unlock_out")
  /\ \E c \in {readers, writers} : Cond!Broadcast(t, c) \/ Cond!Signal(t, c)
  /\ UNCHANGED <<args, holds, count, mode, waiting>>

UnlockOut(t) ==
  /\ Goto(t, "unlock_out", "idle")
  /\ Cond!Unlock(t, lock)
  /\ UNCHANGED <<args, holds, count, mode, waiting>>

-----------------------------------------------------------------------------
(* rwlock_downgrade, by a client that has the lock in write mode.  Where   *)
(* an assertion fails the kernel panics and does nothing any more.         *)

DowngradeAsserts == mode = WRITE /\ count = 1

DowngradeEnter(t) ==
  /\ Goto(t, "idle", "downgrade")
  /\ holds[t] = WRITE
  /\ DowngradeAsserts
  /\ UNCHANGED <<args, holds, count, mode, waiting, cond>>

DowngradeLock(t) ==
  /\ Goto(t, "downgrade", "downgrade_mode")
  /\ Cond!Lock(t, lock)
  /\ UNCHANGED <<args, holds, count, mode, waiting>>

DowngradeBroadcast(t) ==
  /\ Goto(t, "downgrade_mode", "unlock_wake")
  /\ mode' = READ
  /\ holds' = [holds EXCEPT ![t] = READ]
  /\ Cond!Begin(t, <<"broadcast", readers>>)
  /\ UNCHANGED <<args, count, waiting>>

-----------------------------------------------------------------------------
(* Threads that interrupt others, without lock->lock.                      *)

InterruptBegin(t, u) ==
  /\ interrupts
  /\ Goto(t, "idle", "interrupt")
  /\ Cond!Begin(t, <<"interrupt", u>>)
  /\ UNCHANGED <<args, holds, count, mode, waiting>>

InterruptEnd(t, u) ==
  /\ Goto(t, "interrupt", "idle")
  /\ Cond!Interrupt(t, u) \/ Cond!InterruptFails(t, u)
  /\ UNCHANGED <<args, holds, count, mode, waiting>>

-----------------------------------------------------------------------------
Lock(t) ==
  \/ \E ty \in Types, u \in BOOLEAN : LockEnter(t, ty, u)
  \/ LockAtOnce(t) \/ LockNoWait(t) \/ LockWait(t) \/ LockSleep(t)
  \/ LockWoken(t) \/ LockInterrupted(t) \/ LockAgain(t) \/ LockAfterWait(t)

Unlock(t) ==
  UnlockEnter(t) \/ UnlockLast(t) \/ UnlockHandOff(t) \/ Wake(t) \/ UnlockOut(t)

Downgrade(t) == DowngradeEnter(t) \/ DowngradeLock(t) \/ DowngradeBroadcast(t)

Interrupt(t) == \E u \in Threads : InterruptBegin(t, u) \/ InterruptEnd(t, u)

Next ==
  /\ \E t \in Threads : Lock(t) \/ Unlock(t) \/ Downgrade(t) \/ Interrupt(t)
  /\ UNCHANGED interrupts

Spec == Init /\ [][Next]_vars

-----------------------------------------------------------------------------
(* Properties                                                              *)

\* Those who have the lock; a client gives it up when rwlock_unlock counts.
Owners == {t \in Threads : holds[t] # NULL \/ pc[t] = "unlock"}

\* lock->count is what every decision of the lock rests on: it counts those
\* who have the lock, whether they got it at once, after waiting, or after a
\* downgrade, and neither those who are still woken nor the interrupted.
CountMatchesOwners == count = Cardinality(Owners)

\* rwlock_q_node belongs to the thread: it is in the queue, once and with the
\* mode of this call, exactly while the thread is in a wait loop.  So the
\* assertions on rwlock_q_remove hold, and nobody is handed the lock who left.
QueueMatchesWaiters ==
  /\ \A i, j \in DOMAIN waiting :
       waiting[i].thread = waiting[j].thread => i = j
  /\ \A t \in Threads :
       (pc[t] \in {"lock_wait", "lock_asleep", "lock_back"}) <=>
         [thread |-> t, mode |-> type[t]] \in ToSet(waiting)

\* A thread gets the lock in write mode only when nobody has it, even where a
\* newcomer overtakes the waiter the lock was handed to.
WriterEntersAlone ==
  [][\A t \in Threads :
       holds'[t] = WRITE /\ holds[t] # WRITE => Owners = {}]_vars

\* rwlock.h:125, "to allow other threads that are waiting to read into the
\* critical section": once the lock is in read mode and the call that put it
\* there is over, no reader sleeps.
NoReaderSleepsWhileReading ==
  mode = READ /\ mp[lock] = NULL => queue[readers] = <<>>

\* rwlock.h:90, "This function will block until it has acquired the lock": a
\* lock that nobody has, in no call that would go on by itself, keeps nobody
\* waiting.
NobodyStuck ==
  (\A t \in Threads : \/ pc[t] = "idle" /\ holds[t] = NULL
                      \/ pc[t] = "lock_asleep" /\ state[t] = "waiting")
    => waiting = <<>>

\* The same where nobody is interrupted: a hand-off always reaches a thread
\* that takes the lock or finds it taken.
HandOffReachesSomeone == ~interrupts => NobodyStuck

\* rwlock.c:94, "If someones waiting, or the lock is in "write" mode, enqueue":
\* nobody else has a lock that a thread has in write mode.
WritersExcludeOthers ==
  \A t \in Threads : holds[t] = WRITE => Owners = {t}

=============================================================================
