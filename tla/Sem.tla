-------------------------------- MODULE Sem ---------------------------------
(***************************************************************************)
(* Semaphores of kernel/sem.c, on top of a mutex and a condition variable. *)
(*                                                                         *)
(* The calls of cond.c are the steps of CondSpec, which Cond implements    *)
(* where the scheduler never refuses to block; sem_lock and sem_signal are *)
(* its only mutex and condition variable.  The counter is read and written *)
(* under sem_lock only.                                                    *)
(***************************************************************************)
EXTENDS Integers, FiniteSets, SequencesExt

CONSTANTS
  Threads,
  InitialCount,  \* the argument of sem_init
  MaxCount,      \* bound: clients signal only while the counter is below it
  NULL

VARIABLES
  interrupts, \* whether threads call cond_interrupt at all; never changes
  pc,         \* where each thread is
  sem_count,
  result,     \* what each thread's last sem_wait returned, or NULL
  mp, queue, state, call, ret  \* the state of CondSpec

sem_lock   == "sem_lock"
sem_signal == "sem_signal"

Cond == INSTANCE CondSpec
  WITH Mutexes <- {sem_lock}, Conds <- {sem_signal},
       Guard <- [c \in {sem_signal} |-> sem_lock], Killable <- {}

ASSUME SemAssumption ==
  /\ IsFiniteSet(Threads)
  /\ MaxCount \in Nat /\ InitialCount \in 0..MaxCount
  /\ NULL \notin Threads \cup Cond!Operations

cond == <<mp, queue, state, call, ret>>
vars == <<interrupts, pc, sem_count, result, cond>>

Labels == {"idle", "wait_dec", "wait_cond", "wait_asleep", "wait_back",
           "wait_out", "signal_inc", "signal_cond", "signal_out", "interrupt"}

TypeOK ==
  /\ interrupts \in BOOLEAN
  /\ pc \in [Threads -> Labels]
  /\ sem_count \in (-Cardinality(Threads))..(MaxCount + Cardinality(Threads))
  /\ result \in [Threads -> {"0", "-EINTR", NULL}]

Init ==
  /\ interrupts \in BOOLEAN
  /\ pc = [t \in Threads |-> "idle"]
  /\ sem_count = InitialCount
  /\ result = [t \in Threads |-> NULL]
  /\ Cond!Init

Goto(t, from, to) == pc[t] = from /\ pc' = [pc EXCEPT ![t] = to]
Return(t, val) == result' = [result EXCEPT ![t] = val]

-----------------------------------------------------------------------------
(* Faulty variants of the operations below: each breaks a property.        *)

\* Lets a thread pass that found the counter at zero.
DecrementsBelowZero(t) ==
  /\ sem_count' = sem_count - 1
  /\ \/ sem_count >= 0 /\ Goto(t, "wait_dec", "wait_out") /\ UNCHANGED cond
     \/ /\ sem_count < 0
        /\ Goto(t, "wait_dec", "wait_cond")
        /\ Cond!Begin(t, <<"wait", sem_signal, FALSE>>)
  /\ UNCHANGED result

\* Leaves the counter as it was when the wait was interrupted.
InterruptedKeepsCount(t) ==
  /\ Goto(t, "wait_back", "idle")
  /\ ret[t] = "-EINTR"
  /\ Cond!Unlock(t, sem_lock)
  /\ Return(t, "-EINTR")
  /\ UNCHANGED sem_count

\* Signals only when the counter is positive again.
SignalsTooLate(t) ==
  /\ sem_count' = sem_count + 1
  /\ \/ sem_count < 0 /\ Goto(t, "signal_inc", "signal_out") /\ UNCHANGED cond
     \/ /\ sem_count >= 0
        /\ Goto(t, "signal_inc", "signal_cond")
        /\ Cond!Begin(t, <<"signal", sem_signal>>)
  /\ UNCHANGED result

-----------------------------------------------------------------------------
(* sem_wait                                                                *)

WaitLock(t) ==
  /\ Goto(t, "idle", "wait_dec")
  /\ Cond!Lock(t, sem_lock)
  /\ Return(t, NULL)
  /\ UNCHANGED sem_count

WaitDecrement(t) ==
  /\ sem_count' = sem_count - 1
  /\ \/ sem_count > 0 /\ Goto(t, "wait_dec", "wait_out") /\ UNCHANGED cond
     \/ /\ sem_count <= 0
        /\ Goto(t, "wait_dec", "wait_cond")
        /\ Cond!Begin(t, <<"wait", sem_signal, FALSE>>)
  /\ UNCHANGED result

WaitSleep(t) ==
  /\ Goto(t, "wait_cond", "wait_asleep")
  /\ Cond!Wait(t, sem_signal, FALSE)
  /\ UNCHANGED <<sem_count, result>>

\* cond_wait returns, with sem_lock held.
WaitWoken(t) ==
  /\ Goto(t, "wait_asleep", "wait_back")
  /\ Cond!WaitReturns(t, sem_signal, FALSE)
  /\ UNCHANGED <<sem_count, result>>

WaitInterrupted(t) ==
  /\ Goto(t, "wait_back", "idle")
  /\ ret[t] = "-EINTR"
  /\ sem_count' = sem_count + 1
  /\ Cond!Unlock(t, sem_lock)
  /\ Return(t, "-EINTR")

WaitDone(t) ==
  /\ \/ Goto(t, "wait_out", "idle")
     \/ Goto(t, "wait_back", "idle") /\ ret[t] # "-EINTR"
  /\ Cond!Unlock(t, sem_lock)
  /\ Return(t, "0")
  /\ UNCHANGED sem_count

-----------------------------------------------------------------------------
(* sem_signal                                                              *)

SignalLock(t) ==
  /\ Goto(t, "idle", "signal_inc")
  /\ sem_count < MaxCount
  /\ Cond!Lock(t, sem_lock)
  /\ UNCHANGED <<sem_count, result>>

SignalIncrement(t) ==
  /\ Goto(t, "signal_inc", "signal_cond")
  /\ sem_count' = sem_count + 1
  /\ Cond!Begin(t, <<"signal", sem_signal>>)
  /\ UNCHANGED result

SignalCond(t) ==
  /\ Goto(t, "signal_cond", "signal_out")
  /\ Cond!Signal(t, sem_signal)
  /\ UNCHANGED <<sem_count, result>>

SignalUnlock(t) ==
  /\ Goto(t, "signal_out", "idle")
  /\ Cond!Unlock(t, sem_lock)
  /\ UNCHANGED <<sem_count, result>>

-----------------------------------------------------------------------------
(* Threads that interrupt others, without sem_lock.                        *)

InterruptBegin(t, u) ==
  /\ interrupts
  /\ Goto(t, "idle", "interrupt")
  /\ Cond!Begin(t, <<"interrupt", u>>)
  /\ UNCHANGED <<sem_count, result>>

InterruptEnd(t, u) ==
  /\ Goto(t, "interrupt", "idle")
  /\ Cond!Interrupt(t, u) \/ Cond!InterruptFails(t, u)
  /\ UNCHANGED <<sem_count, result>>

-----------------------------------------------------------------------------
Step(t) ==
  \/ WaitLock(t) \/ WaitDecrement(t) \/ WaitSleep(t) \/ WaitWoken(t)
  \/ WaitInterrupted(t) \/ WaitDone(t)
  \/ SignalLock(t) \/ SignalIncrement(t) \/ SignalCond(t) \/ SignalUnlock(t)
  \/ \E u \in Threads : InterruptBegin(t, u) \/ InterruptEnd(t, u)

Next == (\E t \in Threads : Step(t)) /\ UNCHANGED interrupts

Spec == Init /\ [][Next]_vars

-----------------------------------------------------------------------------
(* Properties                                                              *)

\* In sem_wait, the thread has a permit once it was signaled, or found the
\* counter positive.
status == [t \in Threads |->
  CASE pc[t] \in {"wait_dec", "wait_cond"}              -> "waiting"
    [] pc[t] = "wait_asleep" /\ state[t] = "signaled"   -> "granted"
    [] pc[t] = "wait_asleep" /\ state[t] # "signaled"   -> "waiting"
    [] pc[t] = "wait_back" /\ ret[t] = "-EINTR"         -> "waiting"
    [] pc[t] = "wait_back" /\ ret[t] # "-EINTR"         -> "granted"
    [] pc[t] = "wait_out"                               -> "granted"
    [] OTHER                                            -> "out"]

\* The threads that have decremented the counter and have no permit.
Owed == {t \in Threads : status[t] = "waiting" /\ pc[t] # "wait_dec"}

\* The permits nobody has.
value == sem_count + Cardinality(Owed)

Abstract == INSTANCE SemSpec

\* sem.h:57: a thread passes sem_wait only by taking a permit that sem_init or
\* a sem_signal made, each permit lets one thread pass, and an interrupted
\* thread takes none.  (A cond_signal wakes a waiter of sem_wait, which does
\* not look at the counter again.)
ImplementsSemSpec == Abstract!Spec

\* sem.h:57, "Blocks until it is legal for the thread to decrement": when no
\* sem_signal is under way, no thread sleeps while there is a permit for it.
\* An interrupt can break this: the waiter it hits leaves the queue first and
\* corrects sem_count later.
NoneSleepsOnPermit ==
  ~interrupts /\ mp[sem_lock] = NULL /\ queue[sem_signal] # <<>> => value = 0

\* sem.h:57, in the long run and with interrupts: when every thread is out of
\* the semaphore or asleep in it, those asleep have no permit to take.
NobodyStuck ==
  (\A t \in Threads : pc[t] = "idle" \/ Contains(queue[sem_signal], t))
    => queue[sem_signal] = <<>> \/ value = 0

=============================================================================
