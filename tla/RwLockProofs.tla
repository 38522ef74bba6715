---------------------------- MODULE RwLockProofs ----------------------------
(***************************************************************************)
(* Theorems about RwLock, for any number of threads.                       *)
(***************************************************************************)
EXTENDS RwLock, QueueLemmas, FiniteSetTheorems

CondLemmas == INSTANCE QueueProofs
  WITH Mutexes <- {lock}, Conds <- {readers, writers},
       Guard <- [c \in {readers, writers} |-> lock], Killable <- {},
       Queues <- {}, Elements <- {}, AfterLastOnly <- TRUE,
       head <- <<>>, tail <- <<>>, next <- <<>>, prev <- <<>>

-----------------------------------------------------------------------------
(* Control: who is where, who has lock->lock, who sleeps.                  *)

\* The places with lock->lock held.
Inside == {"lock", "lock_wait", "lock_back", "unlock", "unlock_wake",
           "unlock_out", "downgrade_mode"}

\* The places of the two wait loops.
InLoop == {"lock_wait", "lock_asleep", "lock_back"}

Nodes == [thread : Threads, mode : {READ, WRITE}]

Typed ==
  /\ interrupts \in BOOLEAN
  /\ pc \in [Threads -> Labels]
  /\ type \in [Threads -> {READ, WRITE, NULL}]
  /\ steady \in [Threads -> BOOLEAN]
  /\ holds \in [Threads -> {READ, WRITE, NULL}]
  /\ mode \in {READ, WRITE, UNLOCKED}
  /\ waiting \in Seq(Nodes)

\* A call has its arguments, and a client what it needs to call.
ArgsSet ==
  \A t \in Threads :
    /\ pc[t] \in InLoop \cup {"lock"} => type[t] \in {READ, WRITE} /\ holds[t] = NULL
    /\ pc[t] = "unlock" => holds[t] = NULL
    /\ pc[t] \in {"downgrade", "downgrade_mode"} => holds[t] = WRITE

\* lock->lock and the calls of cond.c under way.
CallsMatch ==
  \A t \in Threads :
    /\ mp[lock] = t <=> pc[t] \in Inside
    /\ state[t] # "running" <=> pc[t] = "lock_asleep"
    /\ pc[t] \in {"lock_wait", "lock_asleep"} =>
         call[t] = <<"wait", QueueOf(t), steady[t]>>

Control == Typed /\ ArgsSet /\ CondLemmas!Agree /\ CallsMatch

\* The assumptions about the clients of CondSpec hold here.
LEMMA CondAssumptions == CondLemmas!Constants
BY RwLockAssumption DEF CondLemmas!Constants, CondLemmas!Calls!Operations, Cond!Operations

\* Without linked queues, those about the macros hold too.
LEMMA NoQueues == CondLemmas!VariableQueueAssumption
BY FS_EmptySet, RwLockAssumption
   DEF CondLemmas!VariableQueueAssumption, CondLemmas!IsFiniteSet, IsFiniteSet

\* Steps of CondSpec keep what is known about CondSpec.
LEMMA CondStep ==
  ASSUME CondLemmas!Agree, [Cond!Next]_cond
  PROVE  CondLemmas!Agree'
<1>1. [CondLemmas!Calls!Next]_(CondLemmas!Calls!vars)
  <2>1. \A t, op, val : Cond!End(t, op, val) <=> CondLemmas!Calls!End(t, op, val)
    BY DEF Cond!End, CondLemmas!Calls!End
  <2>2. \A S, why : Cond!Wakes(S, why) <=> CondLemmas!Calls!Wakes(S, why)
    BY DEF Cond!Wakes, CondLemmas!Calls!Wakes
  <2>3. \A t, c, u : Cond!Waits(t, c, u) <=> CondLemmas!Calls!Waits(t, c, u)
    BY DEF Cond!Waits, CondLemmas!Calls!Waits
  <2>4. \A t, m : Cond!Lock(t, m) <=> CondLemmas!Calls!Lock(t, m)
    BY DEF Cond!Lock, CondLemmas!Calls!Lock
  <2>5. \A t, m : Cond!Unlock(t, m) <=> CondLemmas!Calls!Unlock(t, m)
    BY DEF Cond!Unlock, CondLemmas!Calls!Unlock
  <2>6. \A t, m : Cond!Begin(t, m) <=> CondLemmas!Calls!Begin(t, m)
    BY DEF Cond!Begin, CondLemmas!Calls!Begin
  <2>7. \A t, c, u : Cond!Wait(t, c, u) <=> CondLemmas!Calls!Wait(t, c, u)
    BY <2>3 DEF Cond!Wait, CondLemmas!Calls!Wait
  <2>8. \A t, c, u : Cond!WaitReturns(t, c, u) <=> CondLemmas!Calls!WaitReturns(t, c, u)
    BY <2>1 DEF Cond!WaitReturns, CondLemmas!Calls!WaitReturns
  <2>9. \A t, c : Cond!WaitFails(t, c) <=> CondLemmas!Calls!WaitFails(t, c)
    BY <2>1 DEF Cond!WaitFails, CondLemmas!Calls!WaitFails
  <2>10. \A t, c : Cond!Signal(t, c) <=> CondLemmas!Calls!Signal(t, c)
    BY <2>1, <2>2 DEF Cond!Signal, CondLemmas!Calls!Signal, Cond!Front, CondLemmas!Calls!Front,
       Cond!Last, CondLemmas!Calls!Last
  <2>11. \A t, c : Cond!Broadcast(t, c) <=> CondLemmas!Calls!Broadcast(t, c)
    BY <2>1, <2>2 DEF Cond!Broadcast, CondLemmas!Calls!Broadcast, Cond!ToSet, CondLemmas!Calls!ToSet
  <2>12. \A t, c : Cond!Interrupt(t, c) <=> CondLemmas!Calls!Interrupt(t, c)
    BY <2>1, <2>2, <2>3 DEF Cond!Interrupt, CondLemmas!Calls!Interrupt, Cond!RemoveAt,
       CondLemmas!Calls!RemoveAt
  <2>13. \A t, c : Cond!InterruptFails(t, c) <=> CondLemmas!Calls!InterruptFails(t, c)
    BY <2>1, <2>3 DEF Cond!InterruptFails, CondLemmas!Calls!InterruptFails
  <2> QED
    BY <2>4, <2>5, <2>6, <2>7, <2>8, <2>9, <2>10, <2>11, <2>12, <2>13
       DEF cond, Cond!Next, Cond!Operations, CondLemmas!Calls!vars, CondLemmas!Calls!Next,
           CondLemmas!Calls!Operations
<1> QED
  BY <1>1, CondAssumptions, NoQueues, CondLemmas!AgreeStep

\* At first everybody is out.
LEMMA ControlInit == Init => Control
<1> SUFFICES ASSUME Init PROVE Control
  OBVIOUS
<1>1. CondLemmas!Agree
  BY CondAssumptions, NoQueues, CondLemmas!AgreeInit DEF Init, Cond!Init, CondLemmas!Calls!Init
<1> QED
  BY <1>1, EmptySeq, RwLockAssumption DEF Init, Cond!Init, Control, Typed, ArgsSet, CallsMatch,
     Labels, Inside, InLoop

Step(t) == Lock(t) \/ Unlock(t) \/ Downgrade(t) \/ Interrupt(t)

\* The calls that a thread makes are calls of cond.h.
LEMMA CallsAreOperations ==
  /\ \A t, u : u \in BOOLEAN => <<"wait", QueueOf(t), u>> \in Cond!Operations
  /\ <<"broadcast", readers>> \in Cond!Operations
  /\ <<"signal", writers>> \in Cond!Operations
  /\ \A u \in Threads : <<"interrupt", u>> \in Cond!Operations
BY DEF Cond!Operations, QueueOf

\* Every step of a read/write lock is a step of CondSpec.
LEMMA StepIsCondStep ==
  ASSUME Control, NEW t \in Threads, Step(t)
  PROVE  [Cond!Next]_cond
<1> USE DEF Cond!Next, cond
<1>1. ASSUME Cond!Lock(t, lock) \/ Cond!Unlock(t, lock)
      PROVE  [Cond!Next]_cond
  BY <1>1
<1>2. ASSUME NEW op \in Cond!Operations, Cond!Begin(t, op)
      PROVE  [Cond!Next]_cond
  BY <1>2
<1>3. steady[t] \in BOOLEAN /\ QueueOf(t) \in {readers, writers}
  BY DEF Control, Typed, QueueOf
<1>4. CASE Lock(t)
  <2>1. ASSUME NEW ty \in Types, NEW u \in BOOLEAN, LockEnter(t, ty, u)
        PROVE  [Cond!Next]_cond
    BY <1>1, <2>1 DEF LockEnter
  <2>2. CASE LockAtOnce(t) \/ LockNoWait(t) \/ LockInterrupted(t) \/ LockAfterWait(t)
    BY <1>1, <2>2 DEF LockAtOnce, LockNoWait, LockInterrupted, LockAfterWait, Take, Leave
  <2>3. CASE LockWait(t) \/ LockAgain(t)
    <3>1. Cond!Begin(t, <<"wait", QueueOf(t), steady[t]>>)
      BY <2>3 DEF LockWait, LockAgain
    <3> QED
      BY <1>2, <1>3, <3>1, CallsAreOperations
  <2>4. CASE LockSleep(t) \/ LockWoken(t)
    BY <1>3, <2>4 DEF LockSleep, LockWoken
  <2> QED
    BY <1>4, <2>1, <2>2, <2>3, <2>4 DEF Lock
<1>5. CASE Unlock(t)
  <2>1. CASE UnlockEnter(t) \/ UnlockLast(t) \/ UnlockOut(t)
    BY <1>1, <2>1 DEF UnlockEnter, UnlockLast, UnlockOut
  <2>2. CASE UnlockHandOff(t)
    <3>1. \/ Cond!Begin(t, <<"broadcast", readers>>)
          \/ Cond!Begin(t, <<"signal", writers>>)
      BY <2>2 DEF UnlockHandOff, HandTo
    <3> QED
      BY <1>2, <3>1, CallsAreOperations
  <2>3. CASE Wake(t)
    BY <2>3 DEF Wake
  <2> QED
    BY <1>5, <2>1, <2>2, <2>3 DEF Unlock
<1>6. CASE Downgrade(t)
  <2>1. CASE DowngradeEnter(t)
    BY <2>1 DEF DowngradeEnter
  <2>2. CASE DowngradeLock(t)
    BY <1>1, <2>2 DEF DowngradeLock
  <2>3. CASE DowngradeBroadcast(t)
    BY <1>2, <2>3, CallsAreOperations DEF DowngradeBroadcast
  <2> QED
    BY <1>6, <2>1, <2>2, <2>3 DEF Downgrade
<1>7. ASSUME NEW u \in Threads, InterruptBegin(t, u) \/ InterruptEnd(t, u)
      PROVE  [Cond!Next]_cond
  <2>1. CASE InterruptBegin(t, u)
    BY <1>2, <2>1, CallsAreOperations DEF InterruptBegin
  <2>2. CASE InterruptEnd(t, u)
    BY <2>2 DEF InterruptEnd
  <2> QED
    BY <1>7, <2>1, <2>2
<1> QED
  BY <1>4, <1>5, <1>6, <1>7 DEF Step, Interrupt

\* What a call that wakes others does to a thread's state and to the lock.
LEMMA WokenByCond ==
  ASSUME Control, NEW t \in Threads, NEW u \in Threads, NEW c \in {readers, writers},
         \/ Cond!Signal(t, c) \/ Cond!Broadcast(t, c)
         \/ Cond!Interrupt(t, u) \/ Cond!InterruptFails(t, u)
  PROVE  /\ UNCHANGED mp /\ call' = [call EXCEPT ![t] = NULL]
         /\ DOMAIN state' = Threads
         /\ \A y \in Threads : state[y] # "running" <=> state'[y] # "running"
<1> USE DEF Control, CondLemmas!Agree, CondLemmas!TypesAgree, Cond!End
<1>0. queue[c] \in Seq(Threads)
      /\ \A y \in Threads : Contains(queue[c], y) => state[y] = "waiting"
  BY DEF CondLemmas!QueuesAgree, CondLemmas!Contains, Contains
<1>1. CASE Cond!Signal(t, c)
  <2>1. CASE queue[c] = <<>>
    BY <1>1, <2>1 DEF Cond!Signal
  <2>2. CASE queue[c] # <<>>
    <3>0. PICK y \in Threads : y = Last(queue[c]) /\ state[y] = "waiting"
      <4>1. Contains(queue[c], Last(queue[c])) /\ Last(queue[c]) \in Threads
        BY <1>0, <2>2, LastContained, LenProperties, EmptySeq DEF Last
      <4> QED
        BY <1>0, <4>1
    <3>1. UNCHANGED mp /\ Cond!Wakes({y}, "signaled")
      BY <1>1, <2>2, <3>0 DEF Cond!Signal, Cond!Last, Last
    <3> QED
      BY <1>1, <3>0, <3>1 DEF Cond!Wakes, Cond!Signal
  <2> QED
    BY <2>1, <2>2
<1>2. CASE Cond!Broadcast(t, c)
  <2>1. \A y \in Threads : y \in ToSet(queue[c]) => state[y] = "waiting"
    BY <1>0, SetOfContained
  <2>2. Cond!Wakes(ToSet(queue[c]), "signaled") /\ UNCHANGED mp
    BY <1>2 DEF Cond!Broadcast, Cond!ToSet, ToSet
  <2> QED
    BY <1>2, <2>1, <2>2 DEF Cond!Wakes, Cond!Broadcast
<1>3. CASE Cond!Interrupt(t, u)
  BY <1>3 DEF Cond!Interrupt, Cond!Wakes
<1>4. CASE Cond!InterruptFails(t, u)
  BY <1>4 DEF Cond!InterruptFails
<1> QED
  BY <1>1, <1>2, <1>3, <1>4

\* The queue after a push and a removal.
LEMMA QueueTypes ==
  ASSUME Control, NEW t \in Threads
  PROVE  /\ rwlock_q_push(t) /\ type[t] \in {READ, WRITE} => waiting' \in Seq(Nodes)
         /\ rwlock_q_remove(t) => waiting' \in Seq(Nodes)
         /\ waiting # <<>> => Head(waiting) \in Nodes
<1>1. waiting \in Seq(Nodes) /\ DOMAIN waiting = 1..Len(waiting)
  BY LenProperties DEF Control, Typed
<1>2. ASSUME rwlock_q_push(t), type[t] \in {READ, WRITE}
      PROVE  waiting' \in Seq(Nodes)
  <2> DEFINE e == [thread |-> t, mode |-> type[t]]
  <2>1. e \in Nodes
    BY <1>2 DEF Nodes
  <2>2. waiting' = <<e>> \o waiting
    BY <1>2 DEF rwlock_q_push
  <2> HIDE DEF e
  <2>3. <<e>> \in Seq(Nodes)
    BY <2>1
  <2> QED
    BY <1>1, <2>2, <2>3, ConcatProperties
<1>3. ASSUME rwlock_q_remove(t)
      PROVE  waiting' \in Seq(Nodes)
  BY <1>1, <1>3, RemoveAtElements DEF rwlock_q_remove
<1>4. waiting # <<>> => Head(waiting) \in Nodes
  BY <1>1, EmptySeq
<1> QED
  BY <1>2, <1>3, <1>4

\* Every step keeps the control.
LEMMA ControlStep == Control /\ [Next]_vars => Control'
<1> SUFFICES ASSUME Control, [Next]_vars PROVE Control'
  OBVIOUS
<1>1. CASE UNCHANGED vars
  <2>1. CondLemmas!Agree'
    BY <1>1, CondStep DEF vars, Control
  <2> QED
    BY <1>1, <2>1 DEF vars, args, cond, Control, Typed, ArgsSet, CallsMatch, QueueOf
<1>2. ASSUME NEW t \in Threads, Step(t), UNCHANGED interrupts
      PROVE  Control'
  <2>0. /\ CondLemmas!Agree'
        /\ mp \in [{lock} -> Threads \cup {NULL}] /\ NULL \notin Threads
        /\ NULL \notin {READ, WRITE} /\ Types \subseteq {READ, WRITE}
        /\ DOMAIN state = Threads /\ DOMAIN call = Threads
    BY <1>2, StepIsCondStep, CondStep, RwLockAssumption
       DEF Control, CondLemmas!Agree, CondLemmas!TypesAgree
  <2> USE <1>2, <2>0 DEF Control, Typed, ArgsSet, CallsMatch, QueueOf, Goto, Leave,
          Labels, Inside, InLoop, args
  <2>1. ASSUME NEW ty \in Types, NEW u \in BOOLEAN, LockEnter(t, ty, u)
        PROVE  Control'
    BY <2>1 DEF LockEnter, Cond!Lock
  <2>2. CASE LockAtOnce(t) \/ LockNoWait(t)
    <3>1. Take(t, "lock")
      BY <2>2 DEF LockAtOnce, LockNoWait
    <3>2. UNCHANGED waiting
      BY <2>2 DEF LockAtOnce, LockNoWait
    <3> QED
      BY <3>1, <3>2 DEF Take, Cond!Unlock
  <2>3. CASE LockAfterWait(t)
    <3>1. Take(t, "lock_back")
      BY <2>3 DEF LockAfterWait
    <3>2. waiting' \in Seq(Nodes)
      BY <2>3, QueueTypes DEF LockAfterWait
    <3> QED
      BY <3>1, <3>2 DEF Take, Cond!Unlock
  <2>4. CASE LockWait(t)
    <3>1. waiting' \in Seq(Nodes)
      BY <2>4, QueueTypes DEF LockWait
    <3> QED
      BY <2>4, <3>1 DEF LockWait, Cond!Begin
  <2>5. CASE LockAgain(t)
    BY <2>5 DEF LockAgain, Cond!Begin
  <2>6. CASE LockSleep(t)
    BY <2>6 DEF LockSleep, Cond!Wait
  <2>7. CASE LockWoken(t)
    BY <2>7 DEF LockWoken, Cond!WaitReturns, Cond!End
  <2>8. CASE LockInterrupted(t)
    <3>1. waiting' \in Seq(Nodes)
      BY <2>8, QueueTypes DEF LockInterrupted
    <3> QED
      BY <2>8, <3>1 DEF LockInterrupted, Cond!Unlock
  <2>9. CASE UnlockEnter(t)
    BY <2>9 DEF UnlockEnter, Cond!Lock
  <2>10. CASE UnlockLast(t)
    BY <2>10 DEF UnlockLast, Cond!Unlock
  <2>11. CASE UnlockHandOff(t)
    <3>1. Head(waiting).mode \in {READ, WRITE}
      BY <2>11, QueueTypes DEF UnlockHandOff, Nodes
    <3> QED
      BY <2>11, <3>1 DEF UnlockHandOff, HandTo, Cond!Begin
  <2>12. CASE UnlockOut(t)
    BY <2>12 DEF UnlockOut, Cond!Unlock
  <2>13. CASE Wake(t)
    <3>1. PICK c \in {readers, writers} : Cond!Broadcast(t, c) \/ Cond!Signal(t, c)
      BY <2>13 DEF Wake
    <3>2. /\ UNCHANGED mp /\ call' = [call EXCEPT ![t] = NULL]
          /\ DOMAIN state' = Threads
          /\ \A y \in Threads : state[y] # "running" <=> state'[y] # "running"
      BY <3>1, WokenByCond
    <3> QED
      BY <2>13, <3>2 DEF Wake
  <2>14. CASE DowngradeEnter(t)
    BY <2>14 DEF DowngradeEnter, cond
  <2>15. CASE DowngradeLock(t)
    BY <2>15 DEF DowngradeLock, Cond!Lock
  <2>16. CASE DowngradeBroadcast(t)
    BY <2>16 DEF DowngradeBroadcast, Cond!Begin
  <2>17. ASSUME NEW u \in Threads, InterruptBegin(t, u)
         PROVE  Control'
    BY <2>17 DEF InterruptBegin, Cond!Begin
  <2>18. ASSUME NEW u \in Threads, InterruptEnd(t, u)
         PROVE  Control'
    <3>1. /\ UNCHANGED mp /\ call' = [call EXCEPT ![t] = NULL]
          /\ DOMAIN state' = Threads
          /\ \A y \in Threads : state[y] # "running" <=> state'[y] # "running"
      BY <2>18, WokenByCond DEF InterruptEnd
    <3> QED
      BY <2>18, <3>1 DEF InterruptEnd
  <2> HIDE DEF Control, Typed, ArgsSet, CallsMatch, QueueOf, Goto, Leave, Labels,
          Inside, InLoop, args
  <2> QED
    BY <2>1, <2>2, <2>3, <2>4, <2>5, <2>6, <2>7, <2>8, <2>9, <2>10, <2>11, <2>12, <2>13,
       <2>14, <2>15, <2>16, <2>17, <2>18 DEF Step, Lock, Unlock, Downgrade, Interrupt
<1> QED
  BY <1>1, <1>2 DEF Next, Step

-----------------------------------------------------------------------------
(* lock->count counts those who have the lock.                             *)

Owns(t) == holds[t] # NULL \/ pc[t] = "unlock"

Counted == Control /\ CountMatchesOwners

\* There are finitely many owners.
LEMMA OwnersFinite ==
  /\ Owners = {t \in Threads : Owns(t)} /\ IsFiniteSet(Owners)
  /\ Cardinality(Owners) \in Nat /\ Cardinality(Threads) \in Nat
  /\ Cardinality(Owners) <= Cardinality(Threads)
BY RwLockAssumption, FS_Subset, FS_CardinalityType DEF Owners, Owns

\* A step in which one thread at most gets or gives up the lock.
LEMMA OwnersChange ==
  ASSUME NEW t \in Threads, \A y \in Threads \ {t} : Owns(y)' <=> Owns(y)
  PROVE  /\ Owns(t)' /\ ~Owns(t) => Cardinality(Owners)' = Cardinality(Owners) + 1
         /\ ~Owns(t)' /\ Owns(t) => Cardinality(Owners)' = Cardinality(Owners) - 1
         /\ (Owns(t)' <=> Owns(t)) => UNCHANGED Owners
<1>1. /\ Owners = {y \in Threads : Owns(y)}
      /\ Owners' = {y \in Threads : Owns(y)'}
  BY DEF Owners, Owns
<1>2. ASSUME Owns(t)', ~Owns(t)
      PROVE  Cardinality(Owners)' = Cardinality(Owners) + 1
  <2>1. Owners' = Owners \cup {t} /\ t \notin Owners
    BY <1>1, <1>2
  <2> QED
    BY <2>1, OwnersFinite, FS_AddElement
<1>3. ASSUME ~Owns(t)', Owns(t)
      PROVE  Cardinality(Owners)' = Cardinality(Owners) - 1
  <2>1. Owners' = Owners \ {t} /\ t \in Owners
    BY <1>1, <1>3
  <2> QED
    BY <2>1, OwnersFinite, FS_RemoveElement
<1>4. (Owns(t)' <=> Owns(t)) => UNCHANGED Owners
  BY <1>1
<1> QED
  BY <1>2, <1>3, <1>4

\* How each step changes the count and the owners.
LEMMA CountEffect ==
  ASSUME Control, NEW t \in Threads, Step(t)
  PROVE  /\ \A y \in Threads \ {t} : /\ Owns(y)' <=> Owns(y)
                                     /\ holds'[y] = holds[y] /\ pc'[y] = pc[y]
                                     /\ type'[y] = type[y]
         /\ \/ /\ LockAtOnce(t) \/ LockNoWait(t) \/ LockAfterWait(t)
               /\ count' = count + 1 /\ ~Owns(t) /\ Owns(t)' /\ holds'[t] = type[t]
            \/ /\ UnlockLast(t) \/ UnlockHandOff(t)
               /\ count' = count - 1 /\ Owns(t) /\ ~Owns(t)' /\ holds'[t] = NULL
            \/ /\ UNCHANGED count /\ (Owns(t)' <=> Owns(t))
               /\ holds'[t] = holds[t] \/ holds'[t] \in {READ, NULL}
<1> USE RwLockAssumption DEF Control, Typed, ArgsSet, Owns, Goto, Leave, InLoop, args,
        READ, WRITE
<1>1. CASE Lock(t)
  <2>1. ASSUME NEW ty \in Types, NEW u \in BOOLEAN, LockEnter(t, ty, u)
        PROVE  UNCHANGED <<holds, count>> /\ pc[t] = "idle" /\ pc' = [pc EXCEPT ![t] = "lock"]
               /\ type' = [type EXCEPT ![t] = ty]
    BY <2>1 DEF LockEnter
  <2>2. CASE LockAtOnce(t) \/ LockNoWait(t) \/ LockAfterWait(t)
    <3>1. \E from \in {"lock", "lock_back"} : Take(t, from)
      BY <2>2 DEF LockAtOnce, LockNoWait, LockAfterWait
    <3> QED
      BY <2>2, <3>1 DEF Take
  <2>3. CASE LockWait(t) \/ LockSleep(t) \/ LockWoken(t) \/ LockAgain(t)
    BY <2>3 DEF LockWait, LockSleep, LockWoken, LockAgain
  <2>4. CASE LockInterrupted(t)
    BY <2>4 DEF LockInterrupted
  <2> QED
    BY <1>1, <2>1, <2>2, <2>3, <2>4 DEF Lock
<1>2. CASE Unlock(t)
  <2>1. CASE UnlockEnter(t)
    BY <2>1 DEF UnlockEnter
  <2>2. CASE UnlockLast(t) \/ UnlockHandOff(t)
    BY <2>2 DEF UnlockLast, UnlockHandOff, HandTo
  <2>3. CASE Wake(t) \/ UnlockOut(t)
    BY <2>3 DEF Wake, UnlockOut
  <2> QED
    BY <1>2, <2>1, <2>2, <2>3 DEF Unlock
<1>3. CASE Downgrade(t)
  BY <1>3 DEF Downgrade, DowngradeEnter, DowngradeLock, DowngradeBroadcast
<1>4. CASE Interrupt(t)
  BY <1>4 DEF Interrupt, InterruptBegin, InterruptEnd
<1> QED
  BY <1>1, <1>2, <1>3, <1>4 DEF Step

\* Every step keeps the count.
LEMMA CountedStep == Counted /\ [Next]_vars => Counted'
<1> SUFFICES ASSUME Counted, [Next]_vars PROVE Counted'
  OBVIOUS
<1>0. Control /\ Control' /\ count = Cardinality(Owners)
  BY ControlStep DEF Counted, CountMatchesOwners
<1>1. CASE UNCHANGED vars
  BY <1>0, <1>1 DEF vars, Counted, CountMatchesOwners, Owners
<1>2. ASSUME NEW t \in Threads, Step(t)
      PROVE  count' = Cardinality(Owners)'
  <2>1. \A y \in Threads \ {t} : Owns(y)' <=> Owns(y)
    BY <1>0, <1>2, CountEffect
  <2>2. \/ count' = count + 1 /\ ~Owns(t) /\ Owns(t)'
        \/ count' = count - 1 /\ Owns(t) /\ ~Owns(t)'
        \/ count' = count /\ (Owns(t)' <=> Owns(t))
    BY <1>0, <1>2, CountEffect
  <2> QED
    BY <1>0, <2>1, <2>2, OwnersChange
<1> QED
  BY <1>0, <1>1, <1>2 DEF Next, Step, Counted, CountMatchesOwners

\* At first nobody has the lock.
LEMMA CountedInit == Init => Counted
<1> SUFFICES ASSUME Init PROVE Counted
  OBVIOUS
<1>1. Control
  BY ControlInit
<1>2. Owners = {}
  BY DEF Init, Owners
<1> QED
  BY <1>1, <1>2, FS_EmptySet DEF Init, Counted, CountMatchesOwners

\* A read/write lock's variables keep their types, and its counter its bounds,
\* for any number of threads.
THEOREM TypeCorrect == Spec => []TypeOK
<1>1. Counted => TypeOK
  BY OwnersFinite DEF Counted, CountMatchesOwners, Control, Typed, Nodes, TypeOK
<1> QED
  BY <1>1, CountedInit, CountedStep, PTL DEF Spec

\* lock->count, on which every decision of rwlock.c rests, counts those who
\* have the lock, for any number of threads.
THEOREM CountCorrect == Spec => []CountMatchesOwners
<1>1. Counted => CountMatchesOwners
  BY DEF Counted
<1> QED
  BY <1>1, CountedInit, CountedStep, PTL DEF Spec

\* A thread gets the lock in write mode only when nobody has it.
THEOREM WritersEnterAlone == Spec => WriterEntersAlone
<1>1. Counted /\ [Next]_vars =>
        [\A t \in Threads : holds'[t] = WRITE /\ holds[t] # WRITE => Owners = {}]_vars
  <2> SUFFICES ASSUME Counted, Next, NEW y \in Threads, holds'[y] = WRITE, holds[y] # WRITE
               PROVE  Owners = {}
    OBVIOUS
  <2>1. PICK t \in Threads : Step(t)
    BY DEF Next, Step
  <2>2. y = t
    BY <2>1, CountEffect DEF Counted
  <2>3. /\ LockAtOnce(t) \/ LockNoWait(t) \/ LockAfterWait(t)
        /\ type[t] = WRITE
    BY <2>1, <2>2, CountEffect, RwLockAssumption DEF Counted, READ, WRITE
  <2>4. count = 0 \/ type[t] = READ
    BY <2>3 DEF LockAtOnce, LockNoWait, LockAfterWait, MustWait
  <2> QED
    BY <2>3, <2>4, OwnersFinite, FS_EmptySet DEF Counted, CountMatchesOwners, READ, WRITE
<1> QED
  BY <1>1, CountedInit, CountedStep, PTL DEF Spec, WriterEntersAlone

-----------------------------------------------------------------------------
(* The queue holds the threads of the wait loops.                          *)

NodesMatch ==
  /\ \A i, j \in DOMAIN waiting : waiting[i].thread = waiting[j].thread => i = j
  /\ \A i \in DOMAIN waiting : /\ pc[waiting[i].thread] \in InLoop
                               /\ waiting[i].mode = type[waiting[i].thread]
  /\ \A t \in Threads : pc[t] \in InLoop => \E i \in DOMAIN waiting : waiting[i].thread = t

Linked == Counted /\ NodesMatch

\* An element of the queue names a thread.
LEMMA NodeOfThread ==
  ASSUME Control
  PROVE  /\ Len(waiting) \in Nat /\ DOMAIN waiting = 1..Len(waiting)
         /\ \A i \in DOMAIN waiting : /\ waiting[i] \in Nodes
                                      /\ waiting[i].thread \in Threads
                                      /\ waiting[i].mode \in {READ, WRITE}
<1>1. waiting \in Seq(Nodes)
  BY DEF Control, Typed
<1>2. Len(waiting) \in Nat /\ DOMAIN waiting = 1..Len(waiting)
  BY <1>1, LenProperties
<1>3. \A i \in 1..Len(waiting) : waiting[i] \in Nodes
  BY <1>1, ElementOfSeq
<1>4. \A e \in Nodes : e.thread \in Threads /\ e.mode \in {READ, WRITE}
  BY DEF Nodes
<1> QED
  BY <1>2, <1>3, <1>4

\* A thread that pushes its node and enters the loop.
LEMMA PushLinks ==
  ASSUME Control, NodesMatch, NEW t \in Threads, rwlock_q_push(t),
         pc[t] \notin InLoop, pc'[t] \in InLoop, type' = type,
         \A y \in Threads \ {t} : pc'[y] = pc[y]
  PROVE  NodesMatch'
<1> DEFINE e == [thread |-> t, mode |-> type[t]]
           n == Len(waiting)
<1>1. n \in Nat /\ DOMAIN waiting = 1..n /\ waiting \in Seq(Nodes)
  BY NodeOfThread DEF Control, Typed
<1>2. e.thread = t /\ e.mode = type[t]
  OBVIOUS
<1>3. waiting' = <<e>> \o waiting
  BY DEF rwlock_q_push
<1> HIDE DEF e, n
<1>4. /\ DOMAIN waiting' = 1..(n + 1)
      /\ waiting'[1] = e
      /\ \A i \in 1..n : waiting'[i + 1] = waiting[i]
      /\ \A i \in 2..(n + 1) : waiting'[i] = waiting[i - 1] /\ i - 1 \in 1..n
  BY <1>1, <1>3 DEF n
<1>5. \A i \in 1..n : waiting[i].thread \in Threads \ {t}
  BY <1>1, NodeOfThread DEF NodesMatch
<1>6. ASSUME NEW i \in DOMAIN waiting', NEW j \in DOMAIN waiting',
             waiting'[i].thread = waiting'[j].thread
      PROVE  i = j
  <2>1. CASE i = 1 \/ j = 1
    BY <1>1, <1>2, <1>4, <1>5, <1>6, <2>1
  <2>2. CASE i # 1 /\ j # 1
    <3>1. waiting[i - 1].thread = waiting[j - 1].thread /\ i - 1 \in 1..n /\ j - 1 \in 1..n
      BY <1>1, <1>4, <1>6, <2>2
    <3>2. i - 1 = j - 1
      BY <1>1, <3>1 DEF NodesMatch
    <3> QED
      BY <1>1, <1>4, <3>2
  <2> QED
    BY <2>1, <2>2
<1>7. ASSUME NEW i \in DOMAIN waiting'
      PROVE  /\ pc'[waiting'[i].thread] \in InLoop
             /\ waiting'[i].mode = type'[waiting'[i].thread]
  <2>1. CASE i = 1
    BY <1>2, <1>4, <2>1
  <2>2. CASE i # 1
    <3>1. waiting'[i] = waiting[i - 1] /\ i - 1 \in 1..n
      BY <1>1, <1>4, <2>2
    <3>2. /\ waiting[i - 1].thread \in Threads \ {t}
          /\ pc[waiting[i - 1].thread] \in InLoop
          /\ waiting[i - 1].mode = type[waiting[i - 1].thread]
      BY <1>1, <1>5, <3>1 DEF NodesMatch
    <3> QED
      BY <3>1, <3>2
  <2> QED
    BY <2>1, <2>2
<1>8. ASSUME NEW y \in Threads, pc'[y] \in InLoop
      PROVE  \E i \in DOMAIN waiting' : waiting'[i].thread = y
  <2>1. CASE y = t
    <3>1. 1 \in DOMAIN waiting' /\ waiting'[1].thread = t
      BY <1>1, <1>2, <1>4
    <3> QED
      BY <2>1, <3>1
  <2>2. CASE y # t
    <3>1. PICK i \in 1..n : waiting[i].thread = y
      BY <1>1, <1>8, <2>2 DEF NodesMatch
    <3>2. i + 1 \in 1..(n + 1) /\ waiting'[i + 1] = waiting[i]
      BY <1>1, <1>4
    <3> QED
      BY <1>4, <3>1, <3>2
  <2> QED
    BY <2>1, <2>2
<1> QED
  BY <1>6, <1>7, <1>8 DEF NodesMatch

\* A thread that takes its node out and leaves the loop.
LEMMA RemoveLinks ==
  ASSUME Control, NodesMatch, NEW t \in Threads, rwlock_q_remove(t),
         pc'[t] \notin InLoop,
         \A y \in Threads \ {t} : pc'[y] = pc[y] /\ type'[y] = type[y]
  PROVE  NodesMatch'
<1> DEFINE n == Len(waiting)
<1>1. n \in Nat /\ DOMAIN waiting = 1..n /\ waiting \in Seq(Nodes)
  BY NodeOfThread DEF Control, Typed
<1>2. PICK k \in 1..n : waiting[k].thread = t /\ waiting' = RemoveAt(waiting, k)
  BY <1>1 DEF rwlock_q_remove
<1>3. /\ waiting' \in Seq(Nodes) /\ Len(waiting') = n - 1
      /\ \A j \in 1..(n - 1) : waiting'[j] = IF j < k THEN waiting[j] ELSE waiting[j + 1]
  BY <1>1, <1>2, RemoveAtElements
<1>4. DOMAIN waiting' = 1..(n - 1)
  BY <1>1, <1>3, LenProperties
<1> HIDE DEF n
<1>5. \A j \in 1..(n - 1) : \E i \in 1..n : /\ i = IF j < k THEN j ELSE j + 1
                                            /\ i # k /\ waiting'[j] = waiting[i]
  BY <1>1, <1>2, <1>3
<1>6. \A i \in 1..n : i # k => waiting[i].thread \in Threads \ {t}
  BY <1>1, <1>2, NodeOfThread DEF NodesMatch
<1>7. ASSUME NEW a \in DOMAIN waiting', NEW b \in DOMAIN waiting',
             waiting'[a].thread = waiting'[b].thread
      PROVE  a = b
  <2>1. PICK i \in 1..n : i = (IF a < k THEN a ELSE a + 1) /\ waiting'[a] = waiting[i]
    BY <1>4, <1>5
  <2>2. PICK j \in 1..n : j = (IF b < k THEN b ELSE b + 1) /\ waiting'[b] = waiting[j]
    BY <1>4, <1>5
  <2>3. i = j
    BY <1>1, <1>7, <2>1, <2>2 DEF NodesMatch
  <2> QED
    BY <1>1, <1>2, <1>4, <2>1, <2>2, <2>3
<1>8. ASSUME NEW a \in DOMAIN waiting'
      PROVE  /\ pc'[waiting'[a].thread] \in InLoop
             /\ waiting'[a].mode = type'[waiting'[a].thread]
  <2>1. PICK i \in 1..n : i # k /\ waiting'[a] = waiting[i]
    BY <1>4, <1>5
  <2>2. /\ waiting[i].thread \in Threads \ {t} /\ pc[waiting[i].thread] \in InLoop
        /\ waiting[i].mode = type[waiting[i].thread]
    BY <1>1, <1>6, <2>1 DEF NodesMatch
  <2> QED
    BY <2>1, <2>2
<1>9. ASSUME NEW y \in Threads, pc'[y] \in InLoop
      PROVE  \E a \in DOMAIN waiting' : waiting'[a].thread = y
  <2>1. y # t /\ pc[y] \in InLoop
    BY <1>9
  <2>2. PICK i \in 1..n : waiting[i].thread = y
    BY <1>1, <2>1 DEF NodesMatch
  <2>3. i # k
    BY <1>2, <2>1, <2>2
  <2>4. CASE i < k
    <3>1. i \in 1..(n - 1) /\ waiting'[i] = waiting[i]
      BY <1>1, <1>2, <1>3, <2>4
    <3> QED
      BY <1>4, <2>2, <3>1
  <2>5. CASE i > k
    <3>1. i - 1 \in 1..(n - 1) /\ waiting'[i - 1] = waiting[i]
      BY <1>1, <1>2, <1>3, <2>5
    <3> QED
      BY <1>4, <2>2, <3>1
  <2> QED
    BY <1>1, <1>2, <2>3, <2>4, <2>5
<1> QED
  BY <1>7, <1>8, <1>9 DEF NodesMatch

\* A step of a thread that does not move its node.
LEMMA SameLinks ==
  ASSUME Control, NodesMatch, NEW t \in Threads, UNCHANGED waiting,
         \A y \in Threads \ {t} : pc'[y] = pc[y] /\ type'[y] = type[y],
         \/ pc[t] \notin InLoop /\ pc'[t] \notin InLoop
         \/ pc[t] \in InLoop /\ pc'[t] \in InLoop /\ type'[t] = type[t]
  PROVE  NodesMatch'
<1>1. \A i \in DOMAIN waiting : waiting[i].thread \in Threads
  BY NodeOfThread
<1> QED
  BY <1>1 DEF NodesMatch

\* Every step keeps the links.
LEMMA LinkedStep == Linked /\ [Next]_vars => Linked'
<1> SUFFICES ASSUME Linked, [Next]_vars PROVE Linked'
  OBVIOUS
<1>0. Control /\ Counted /\ Counted' /\ NodesMatch
  BY CountedStep DEF Linked, Counted
<1>1. CASE UNCHANGED vars
  BY <1>0, <1>1 DEF vars, args, Linked, NodesMatch
<1>2. ASSUME NEW t \in Threads, Step(t)
      PROVE  NodesMatch'
  <2>0. \A y \in Threads \ {t} : pc'[y] = pc[y] /\ type'[y] = type[y]
    BY <1>0, <1>2, CountEffect
  <2> USE <1>0, <2>0 DEF Control, Typed, Goto, Leave, InLoop, args
  <2>1. CASE LockWait(t)
    <3>1. rwlock_q_push(t) /\ pc[t] = "lock" /\ pc'[t] = "lock_wait" /\ type' = type
      BY <2>1 DEF LockWait
    <3> QED
      BY <3>1, PushLinks
  <2>2. CASE LockInterrupted(t) \/ LockAfterWait(t)
    <3>1. rwlock_q_remove(t) /\ pc'[t] = "idle"
      BY <2>2 DEF LockInterrupted, LockAfterWait, Take
    <3> QED
      BY <3>1, RemoveLinks
  <2>3. CASE LockSleep(t) \/ LockWoken(t) \/ LockAgain(t)
    <3>1. /\ UNCHANGED waiting /\ type'[t] = type[t]
          /\ pc[t] \in InLoop /\ pc'[t] \in InLoop
      BY <2>3 DEF LockSleep, LockWoken, LockAgain
    <3> QED
      BY <3>1, SameLinks
  <2>4. CASE \/ \E ty \in Types, u \in BOOLEAN : LockEnter(t, ty, u)
             \/ LockAtOnce(t) \/ LockNoWait(t)
    <3>1. UNCHANGED waiting /\ pc[t] \notin InLoop /\ pc'[t] \notin InLoop
      BY <2>4 DEF LockEnter, LockAtOnce, LockNoWait, Take
    <3> QED
      BY <3>1, SameLinks
  <2>5. CASE Unlock(t)
    <3>1. UNCHANGED waiting /\ pc[t] \notin InLoop /\ pc'[t] \notin InLoop
      BY <2>5 DEF Unlock, UnlockEnter, UnlockLast, UnlockHandOff, HandTo, Wake, UnlockOut
    <3> QED
      BY <3>1, SameLinks
  <2>6. CASE Downgrade(t) \/ Interrupt(t)
    <3>1. UNCHANGED waiting /\ pc[t] \notin InLoop /\ pc'[t] \notin InLoop
      BY <2>6 DEF Downgrade, DowngradeEnter, DowngradeLock, DowngradeBroadcast,
         Interrupt, InterruptBegin, InterruptEnd
    <3> QED
      BY <3>1, SameLinks
  <2> QED
    BY <1>2, <2>1, <2>2, <2>3, <2>4, <2>5, <2>6 DEF Step, Lock
<1> QED
  BY <1>0, <1>1, <1>2 DEF Next, Step, Linked

\* At first the queue is empty.
LEMMA LinkedInit == Init => Linked
<1> SUFFICES ASSUME Init PROVE Linked
  OBVIOUS
<1>1. DOMAIN waiting = {} /\ \A t \in Threads : pc[t] = "idle"
  BY EmptySeq DEF Init
<1> QED
  BY <1>1, CountedInit DEF Linked, NodesMatch, InLoop

\* rwlock.c's assertions on its queue hold: it has one node of each thread of
\* a wait loop, with the mode the thread waits for, and no other.
THEOREM QueueCorrect == Spec => []QueueMatchesWaiters
<1>1. Linked => QueueMatchesWaiters
  <2> SUFFICES ASSUME Linked PROVE QueueMatchesWaiters
    OBVIOUS
  <2>0. Control /\ NodesMatch
    BY DEF Linked, Counted
  <2>1. ASSUME NEW t \in Threads, pc[t] \in InLoop
        PROVE  [thread |-> t, mode |-> type[t]] \in ToSet(waiting)
    <3>1. PICK i \in DOMAIN waiting : waiting[i].thread = t
      BY <2>0, <2>1 DEF NodesMatch
    <3>2. waiting[i].mode = type[t] /\ waiting[i] \in Nodes
      BY <2>0, <3>1, NodeOfThread DEF NodesMatch
    <3>3. waiting[i] = [thread |-> t, mode |-> type[t]]
      BY <3>1, <3>2 DEF Nodes
    <3> QED
      BY <3>3 DEF ToSet
  <2>2. ASSUME NEW t \in Threads, [thread |-> t, mode |-> type[t]] \in ToSet(waiting)
        PROVE  pc[t] \in InLoop
    <3>1. PICK i \in DOMAIN waiting : waiting[i] = [thread |-> t, mode |-> type[t]]
      BY <2>2 DEF ToSet
    <3>2. waiting[i].thread = t
      BY <3>1
    <3> QED
      BY <2>0, <3>2 DEF NodesMatch
  <2> QED
    BY <2>0, <2>1, <2>2 DEF NodesMatch, QueueMatchesWaiters, InLoop
<1> QED
  BY <1>1, LinkedInit, LinkedStep, PTL DEF Spec

-----------------------------------------------------------------------------
(* The mode, and those who sleep until it changes.                         *)

\* The call of cond.c that wakes those who wait for mode m.
WakeCall(m) == IF m = READ THEN <<"broadcast", readers>> ELSE <<"signal", writers>>

Waking == \E t \in Threads : pc[t] = "unlock_wake"

\* Whoever wakes others wakes those that the mode lets in; whoever goes to sleep
\* has reason to; and readers sleep in read mode only while they are being woken.
ModeFits ==
  /\ \A t \in Threads : pc[t] = "unlock_wake" => mode # UNLOCKED /\ call[t] = WakeCall(mode)
  /\ \A t \in Threads : pc[t] = "lock_wait" => MustWait(t)
  /\ mode = UNLOCKED => count = 0 /\ waiting = <<>>
  /\ mode = READ /\ queue[readers] # <<>> => Waking

Fitting == Linked /\ ModeFits

\* One thread at a time is where lock->lock is held.
LEMMA Alone ==
  ASSUME Control, NEW t \in Threads, NEW y \in Threads \ {t}, pc[t] \in Inside
  PROVE  pc[y] \notin Inside
BY DEF Control, CallsMatch

\* Who is in the queue of a condition variable sleeps, for the mode it is for.
LEMMA SleepersWait ==
  ASSUME Control, NEW c \in {readers, writers}, NEW y \in Threads, Contains(queue[c], y)
  PROVE  state[y] = "waiting" /\ pc[y] = "lock_asleep" /\ QueueOf(y) = c
<1>1. /\ state[y] = "waiting"
      /\ \E u \in BOOLEAN : call[y] = <<"wait", c, u>>
  BY DEF Control, CondLemmas!Agree, CondLemmas!QueuesAgree, CondLemmas!Contains, Contains,
     CondLemmas!Calls!Waits
<1>2. pc[y] = "lock_asleep"
  BY <1>1 DEF Control, CallsMatch
<1>3. call[y] = <<"wait", QueueOf(y), steady[y]>>
  BY <1>2 DEF Control, CallsMatch
<1> QED
  BY <1>1, <1>2, <1>3

\* Nobody sleeps behind an empty queue.
LEMMA NobodySleeps ==
  ASSUME Linked, waiting = <<>>, NEW c \in {readers, writers}
  PROVE  queue[c] = <<>>
<1> SUFFICES ASSUME queue[c] # <<>> PROVE FALSE
  OBVIOUS
<1>1. queue[c] \in Seq(Threads) /\ Control
  BY DEF Linked, Counted, Control, CondLemmas!Agree, CondLemmas!TypesAgree
<1>2. PICK y \in Threads : Contains(queue[c], y)
  <2>1. Contains(queue[c], Last(queue[c])) /\ Last(queue[c]) \in Threads
    BY <1>1, LastContained, LenProperties, EmptySeq DEF Last
  <2> QED
    BY <2>1
<1>3. \E i \in DOMAIN waiting : waiting[i].thread = y
  BY <1>1, <1>2, SleepersWait DEF Linked, NodesMatch, InLoop
<1> QED
  BY <1>3, EmptySeq

\* A step of a thread without lock->lock.
LEMMA OutsideFits ==
  ASSUME ModeFits, NEW t \in Threads, UNCHANGED <<mode, count, waiting>>,
         pc[t] # "unlock_wake", pc'[t] \notin {"unlock_wake", "lock_wait"},
         \A y \in Threads \ {t} : pc'[y] = pc[y] /\ type'[y] = type[y] /\ call'[y] = call[y],
         queue[readers] = <<>> => queue'[readers] = <<>>
  PROVE  ModeFits'
BY DEF ModeFits, Waking, MustWait, WakeCall

\* A step of the thread with lock->lock.
LEMMA InsideFits ==
  ASSUME Control, NEW t \in Threads, pc[t] \in Inside,
         \A y \in Threads \ {t} : pc'[y] = pc[y],
         pc'[t] = "unlock_wake" => mode' # UNLOCKED /\ call'[t] = WakeCall(mode'),
         pc'[t] = "lock_wait" => MustWait(t)',
         mode' = UNLOCKED => count' = 0 /\ waiting' = <<>>,
         mode' = READ /\ queue'[readers] # <<>> => pc'[t] = "unlock_wake"
  PROVE  ModeFits'
<1>1. \A y \in Threads \ {t} : pc'[y] \notin {"unlock_wake", "lock_wait"}
  BY Alone DEF Inside
<1> QED
  BY <1>1 DEF ModeFits, Waking

\* The steps that take the lock.
LEMMA TakeFits ==
  ASSUME Fitting, NEW t \in Threads, Step(t),
         LockAtOnce(t) \/ LockNoWait(t) \/ LockAfterWait(t)
  PROVE  ModeFits'
<1>0. Control
  BY DEF Fitting, Linked, Counted
<1>1. \E from \in {"lock", "lock_back"} : Take(t, from)
  BY DEF LockAtOnce, LockNoWait, LockAfterWait
<1>2. /\ mode' = type[t] /\ UNCHANGED queue
      /\ pc[t] \in {"lock", "lock_back"} /\ pc'[t] = "idle"
  BY <1>0, <1>1 DEF Take, Leave, Goto, Cond!Unlock, Control, Typed
<1>3. type[t] \in {READ, WRITE}
  BY <1>0, <1>2 DEF Control, ArgsSet, InLoop
<1>4. ~Waking
  BY <1>0, <1>2, Alone DEF Waking, Inside
<1>5. type[t] = READ => queue[readers] = <<>>
  <2>1. CASE waiting = <<>>
    BY <2>1, NobodySleeps DEF Fitting
  <2>2. CASE mode = READ
    BY <1>4, <2>2 DEF Fitting, ModeFits
  <2>3. CASE mode = UNLOCKED
    BY <2>1, <2>3 DEF Fitting, ModeFits
  <2>4. type[t] = READ => waiting = <<>> \/ mode # WRITE
    BY DEF LockAtOnce, LockNoWait, LockAfterWait, MustWait, UNLOCKED, WRITE
  <2> QED
    BY <1>0, <2>1, <2>2, <2>3, <2>4 DEF Control, Typed
<1> QED
  BY <1>0, <1>2, <1>3, <1>5, InsideFits, CountEffect DEF Inside, READ, WRITE, UNLOCKED

\* The other steps of do_rwlock_lock.
LEMMA LockFits ==
  ASSUME Fitting, Control', NEW t \in Threads, Step(t), Lock(t)
  PROVE  ModeFits'
<1>0. /\ Control
      /\ \A y \in Threads \ {t} : pc'[y] = pc[y] /\ type'[y] = type[y]
  BY CountEffect DEF Fitting, Linked, Counted
<1>t. /\ DOMAIN pc = Threads /\ DOMAIN call = Threads /\ DOMAIN queue = {readers, writers}
      /\ DOMAIN type = Threads
  BY <1>0 DEF Control, Typed, CondLemmas!Agree, CondLemmas!TypesAgree
<1> USE DEF Goto, Inside, args
<1>1. ASSUME NEW ty \in Types, NEW u \in BOOLEAN, LockEnter(t, ty, u)
      PROVE  ModeFits'
  <2>1. /\ UNCHANGED <<mode, count, waiting, queue, call>>
        /\ pc[t] = "idle" /\ pc'[t] = "lock"
    BY <1>t, <1>1 DEF LockEnter, Cond!Lock
  <2> QED
    BY <1>0, <2>1, OutsideFits DEF Fitting
<1>2. CASE LockAtOnce(t) \/ LockNoWait(t) \/ LockAfterWait(t)
  BY <1>2, TakeFits
<1>3. CASE LockWait(t)
  <2>1. /\ UNCHANGED <<mode, count, type, queue>> /\ MustWait(t)
        /\ pc[t] = "lock" /\ pc'[t] = "lock_wait" /\ ~(count = 0 /\ mode = UNLOCKED)
    BY <1>t, <1>3 DEF LockWait, Cond!Begin
  <2>2. mode # UNLOCKED
    BY <2>1 DEF Fitting, ModeFits
  <2>3. ~Waking
    BY <1>0, <2>1, Alone DEF Waking
  <2>4. mode = READ => queue[readers] = <<>>
    BY <2>3 DEF Fitting, ModeFits
  <2>5. MustWait(t)'
    BY <2>1 DEF MustWait
  <2> QED
    BY <1>0, <2>1, <2>2, <2>4, <2>5, InsideFits
<1>4. CASE LockSleep(t)
  <2>1. /\ UNCHANGED <<mode, count, waiting>>
        /\ pc[t] = "lock_wait" /\ pc'[t] = "lock_asleep"
        /\ queue' = [queue EXCEPT ![QueueOf(t)] = <<t>> \o @]
    BY <1>t, <1>4 DEF LockSleep, Cond!Wait
  <2>2. MustWait(t) /\ type[t] \in {READ, WRITE} /\ (mode = UNLOCKED => count = 0 /\ waiting = <<>>)
    BY <1>0, <2>1 DEF Fitting, ModeFits, Control, ArgsSet, InLoop
  <2>3. ~Waking
    BY <1>0, <2>1, Alone DEF Waking
  <2>4. mode = READ => queue'[readers] = <<>>
    <3>1. mode = READ => queue[readers] = <<>>
      BY <2>3 DEF Fitting, ModeFits
    <3>2. mode = READ => QueueOf(t) = writers
      BY <2>2 DEF MustWait, QueueOf, READ, WRITE
    <3> QED
      BY <1>t, <2>1, <3>1, <3>2 DEF readers, writers
  <2> QED
    BY <1>0, <2>1, <2>2, <2>4, InsideFits
<1>5. CASE LockWoken(t)
  <2>1. /\ UNCHANGED <<mode, count, waiting, queue>>
        /\ pc[t] = "lock_asleep" /\ pc'[t] = "lock_back"
        /\ \A y \in Threads \ {t} : call'[y] = call[y]
    BY <1>t, <1>5 DEF LockWoken, Cond!WaitReturns, Cond!End
  <2> QED
    BY <1>0, <2>1, OutsideFits DEF Fitting
<1>6. CASE LockInterrupted(t)
  <2>1. /\ UNCHANGED <<mode, count, queue>> /\ rwlock_q_remove(t)
        /\ pc[t] = "lock_back" /\ pc'[t] = "idle"
    BY <1>t, <1>6 DEF LockInterrupted, Leave, Cond!Unlock
  <2>2. waiting # <<>>
    BY <2>1, EmptySeq DEF rwlock_q_remove
  <2>3. mode # UNLOCKED
    BY <2>2 DEF Fitting, ModeFits
  <2>4. ~Waking
    BY <1>0, <2>1, Alone DEF Waking
  <2>5. mode = READ => queue[readers] = <<>>
    BY <2>4 DEF Fitting, ModeFits
  <2> QED
    BY <1>0, <2>1, <2>3, <2>5, InsideFits
<1>7. CASE LockAgain(t)
  <2>1. /\ UNCHANGED <<mode, count, waiting, type, queue>> /\ MustWait(t)
        /\ pc[t] = "lock_back" /\ pc'[t] = "lock_wait"
    BY <1>t, <1>7 DEF LockAgain, Cond!Begin
  <2>2. ~Waking /\ MustWait(t)'
    BY <1>0, <2>1, Alone DEF Waking, MustWait
  <2>3. /\ mode = READ => queue[readers] = <<>>
        /\ mode = UNLOCKED => count = 0 /\ waiting = <<>>
    BY <2>2 DEF Fitting, ModeFits
  <2> QED
    BY <1>0, <2>1, <2>2, <2>3, InsideFits
<1> QED
  BY <1>1, <1>2, <1>3, <1>4, <1>5, <1>6, <1>7 DEF Lock

\* The steps of rwlock_unlock, rwlock_downgrade and of those who interrupt.
LEMMA UnlockFits ==
  ASSUME Fitting, Control', NEW t \in Threads, Step(t),
         Unlock(t) \/ Downgrade(t) \/ Interrupt(t)
  PROVE  ModeFits'
<1>0. /\ Control
      /\ \A y \in Threads \ {t} : pc'[y] = pc[y] /\ type'[y] = type[y]
      /\ mode = UNLOCKED => count = 0 /\ waiting = <<>>
  BY CountEffect DEF Fitting, Linked, Counted, ModeFits
<1>t. /\ DOMAIN pc = Threads /\ DOMAIN call = Threads /\ DOMAIN queue = {readers, writers}
      /\ queue[readers] \in Seq(Threads)
  BY <1>0 DEF Control, Typed, CondLemmas!Agree, CondLemmas!TypesAgree
<1> USE DEF Goto, Inside, args
<1>1. CASE UnlockEnter(t) \/ DowngradeEnter(t) \/ DowngradeLock(t)
  <2>1. /\ UNCHANGED <<mode, count, waiting, queue, call>>
        /\ pc[t] \in {"idle", "downgrade"}
        /\ pc'[t] \in {"unlock", "downgrade", "downgrade_mode"}
    BY <1>t, <1>1 DEF UnlockEnter, DowngradeEnter, DowngradeLock, Cond!Lock, cond
  <2> QED
    BY <1>0, <2>1, OutsideFits DEF Fitting
<1>2. CASE UnlockLast(t)
  <2>1. /\ UNCHANGED <<waiting, queue>> /\ count' = count - 1
        /\ pc[t] = "unlock" /\ pc'[t] = "idle"
        /\ \/ count > 1 /\ UNCHANGED mode
           \/ count <= 1 /\ waiting = <<>> /\ mode' = UNLOCKED
    BY <1>t, <1>2 DEF UnlockLast, Cond!Unlock
  <2>2. count \in Nat /\ count # 0
    <3>1. t \in Owners
      BY <2>1 DEF Owners
    <3> QED
      BY <3>1, OwnersFinite, FS_EmptySet DEF Fitting, Linked, Counted, CountMatchesOwners
  <2>3. mode = READ => queue[readers] = <<>>
    <3>1. ~Waking
      BY <1>0, <2>1, Alone DEF Waking
    <3> QED
      BY <3>1 DEF Fitting, ModeFits
  <2>4. mode' = UNLOCKED => count' = 0 /\ waiting' = <<>>
    BY <1>0, <2>1, <2>2
  <2>5. mode' = READ => mode = READ
    BY <2>1 DEF READ, UNLOCKED
  <2> QED
    BY <1>0, <2>1, <2>3, <2>4, <2>5, InsideFits
<1>3. CASE UnlockHandOff(t)
  <2>1. Head(waiting) \in Nodes
    BY <1>0, <1>3, QueueTypes DEF UnlockHandOff
  <2>2. PICK m \in {READ, WRITE} : HandTo(t, m)
    BY <1>3, <2>1 DEF UnlockHandOff, Nodes
  <2>3. /\ mode' = m /\ UNCHANGED queue /\ call'[t] = WakeCall(m)
        /\ pc[t] = "unlock" /\ pc'[t] = "unlock_wake"
    BY <1>t, <2>2 DEF HandTo, Cond!Begin, WakeCall
  <2> QED
    BY <1>0, <2>3, InsideFits DEF READ, WRITE, UNLOCKED
<1>4. CASE Wake(t)
  <2>1. /\ UNCHANGED <<mode, count, waiting>>
        /\ pc[t] = "unlock_wake" /\ pc'[t] = "unlock_out"
    BY <1>t, <1>4 DEF Wake
  <2>2. mode # UNLOCKED /\ call[t] = WakeCall(mode)
    BY <2>1 DEF Fitting, ModeFits
  <2>3. mode = READ => queue'[readers] = <<>>
    <3>1. ASSUME mode = READ PROVE Cond!Broadcast(t, readers)
      <4>1. call[t] = <<"broadcast", readers>>
        BY <2>2, <3>1 DEF WakeCall
      <4>2. PICK c \in {readers, writers} : Cond!Broadcast(t, c) \/ Cond!Signal(t, c)
        BY <1>4 DEF Wake
      <4>3. c = readers /\ ~Cond!Signal(t, c)
        BY <4>1, <4>2 DEF Cond!Broadcast, Cond!Signal, Cond!End
      <4> QED
        BY <4>2, <4>3
    <3> QED
      BY <1>t, <3>1 DEF Cond!Broadcast
  <2> QED
    BY <1>0, <2>1, <2>2, <2>3, InsideFits
<1>5. CASE UnlockOut(t)
  <2>1. /\ UNCHANGED <<mode, count, waiting, queue>>
        /\ pc[t] = "unlock_out" /\ pc'[t] = "idle"
    BY <1>t, <1>5 DEF UnlockOut, Cond!Unlock
  <2>2. mode = READ => queue[readers] = <<>>
    <3>1. ~Waking
      BY <1>0, <2>1, Alone DEF Waking
    <3> QED
      BY <3>1 DEF Fitting, ModeFits
  <2> QED
    BY <1>0, <2>1, <2>2, InsideFits
<1>6. CASE DowngradeBroadcast(t)
  <2>1. /\ mode' = READ /\ UNCHANGED queue /\ call'[t] = WakeCall(READ)
        /\ pc[t] = "downgrade_mode" /\ pc'[t] = "unlock_wake"
    BY <1>t, <1>6 DEF DowngradeBroadcast, Cond!Begin, WakeCall
  <2> QED
    BY <1>0, <2>1, InsideFits DEF READ, UNLOCKED
<1>7. ASSUME NEW u \in Threads, InterruptBegin(t, u)
      PROVE  ModeFits'
  <2>1. /\ UNCHANGED <<mode, count, waiting, queue>>
        /\ pc[t] = "idle" /\ pc'[t] = "interrupt"
        /\ \A y \in Threads \ {t} : call'[y] = call[y]
    BY <1>t, <1>7 DEF InterruptBegin, Cond!Begin
  <2> QED
    BY <1>0, <2>1, OutsideFits DEF Fitting
<1>8. ASSUME NEW u \in Threads, InterruptEnd(t, u)
      PROVE  ModeFits'
  <2>1. /\ UNCHANGED <<mode, count, waiting>>
        /\ pc[t] = "interrupt" /\ pc'[t] = "idle"
    BY <1>t, <1>8 DEF InterruptEnd
  <2>2. \A y \in Threads \ {t} : call'[y] = call[y]
    BY <1>t, <1>8 DEF InterruptEnd, Cond!Interrupt, Cond!InterruptFails, Cond!End
  <2>3. queue[readers] = <<>> => queue'[readers] = <<>>
    <3>1. CASE Cond!InterruptFails(t, u)
      BY <3>1 DEF Cond!InterruptFails
    <3>2. CASE Cond!Interrupt(t, u)
      <4>1. PICK c \in {readers, writers} : \E i \in 1..Len(queue[c]) :
              queue' = [queue EXCEPT ![c] = Cond!RemoveAt(@, i)]
        BY <3>2 DEF Cond!Interrupt
      <4>2. queue[readers] = <<>> => c # readers
        BY <4>1, EmptySeq
      <4> QED
        BY <1>t, <4>1, <4>2
    <3> QED
      BY <1>8, <3>1, <3>2 DEF InterruptEnd
  <2> QED
    BY <1>0, <2>1, <2>2, <2>3, OutsideFits DEF Fitting
<1> QED
  BY <1>1, <1>2, <1>3, <1>4, <1>5, <1>6, <1>7, <1>8 DEF Unlock, Downgrade, Interrupt

\* Every step keeps mode and queues fitting.
LEMMA FittingStep == Fitting /\ [Next]_vars => Fitting'
<1> SUFFICES ASSUME Fitting, [Next]_vars PROVE Fitting'
  OBVIOUS
<1>0. Linked' /\ Control'
  BY LinkedStep DEF Fitting, Linked, Counted
<1>1. CASE UNCHANGED vars
  BY <1>0, <1>1 DEF vars, args, cond, Fitting, ModeFits, Waking, MustWait
<1>2. ASSUME NEW t \in Threads, Step(t)
      PROVE  ModeFits'
  BY <1>0, <1>2, LockFits, UnlockFits DEF Step
<1> QED
  BY <1>0, <1>1, <1>2 DEF Next, Step, Fitting

\* At first the lock is free and nobody sleeps.
LEMMA FittingInit == Init => Fitting
BY LinkedInit DEF Init, Cond!Init, Fitting, ModeFits, UNLOCKED, READ

\* rwlock.h:125: once the lock is in read mode and the call that put it there is
\* over, no reader sleeps, for any number of threads.
THEOREM ReadersCorrect == Spec => []NoReaderSleepsWhileReading
<1>1. Fitting => NoReaderSleepsWhileReading
  BY RwLockAssumption DEF Fitting, Linked, Counted, Control, CallsMatch, Inside, ModeFits,
     Waking, NoReaderSleepsWhileReading
<1> QED
  BY <1>1, FittingInit, FittingStep, PTL DEF Spec

-----------------------------------------------------------------------------
(* Without cond_interrupt, a lock that is handed on reaches someone.       *)

Uninterrupted(t) ==
  /\ state[t] # "interrupted" /\ pc[t] # "interrupt"
  /\ pc[t] = "lock_back" => ret[t] # "-EINTR"

\* t waits for the lock in the mode that it is in, and is awake or is woken.
Awaited(t) ==
  pc[t] \in InLoop /\ type[t] = mode /\ (state[t] # "waiting" \/ Waking)

\* A lock that nobody has but that is not free is on its way to a waiter.
Handed ==
  /\ \A t \in Threads : Uninterrupted(t)
  /\ count = 0 /\ mode # UNLOCKED => \E t \in Threads : Awaited(t)

HandsOn == Fitting /\ (~interrupts => Handed)

\* A step that lets alone whom the lock is on its way to.
LEMMA HandedSame ==
  ASSUME Handed, NEW t \in Threads, UNCHANGED <<mode, count>>,
         \A y \in Threads \ {t} : /\ pc'[y] = pc[y] /\ type'[y] = type[y]
                                  /\ state'[y] = state[y] /\ ret'[y] = ret[y],
         Uninterrupted(t)', pc[t] # "unlock_wake",
         pc[t] \in InLoop /\ type[t] = mode /\ (mode = WRITE => count = 0) =>
           pc'[t] \in InLoop /\ type'[t] = type[t] /\ state'[t] # "waiting"
  PROVE  Handed'
<1>1. \A y \in Threads : Uninterrupted(y)'
  BY DEF Handed, Uninterrupted
<1>2. ASSUME count = 0, NEW y \in Threads, Awaited(y)
      PROVE  Awaited(y)'
  <2>1. Waking => Waking'
    BY DEF Waking
  <2> QED
    BY <1>2, <2>1 DEF Awaited
<1> QED
  BY <1>1, <1>2 DEF Handed

\* A step after which somebody has the lock, or it is free.
LEMMA HandedBusy ==
  ASSUME Handed, NEW t \in Threads, count' # 0 \/ mode' = UNLOCKED,
         \A y \in Threads \ {t} : /\ pc'[y] = pc[y]
                                  /\ state'[y] = state[y] /\ ret'[y] = ret[y],
         Uninterrupted(t)'
  PROVE  Handed'
BY DEF Handed, Uninterrupted

\* The steps of do_rwlock_lock.
LEMMA LockHands ==
  ASSUME Fitting, Handed, Fitting', ~interrupts, NEW t \in Threads, Step(t), Lock(t)
  PROVE  Handed'
<1>0. /\ Control
      /\ \A y \in Threads \ {t} : pc'[y] = pc[y] /\ type'[y] = type[y]
      /\ Uninterrupted(t)
  BY CountEffect DEF Fitting, Linked, Counted, Handed
<1>t. /\ DOMAIN pc = Threads /\ DOMAIN state = Threads /\ DOMAIN ret = Threads
      /\ DOMAIN type = Threads
  BY <1>0 DEF Control, Typed, CondLemmas!Agree, CondLemmas!TypesAgree
<1> USE DEF Goto, InLoop, args, Uninterrupted
<1>1. ASSUME NEW ty \in Types, NEW u \in BOOLEAN, LockEnter(t, ty, u)
      PROVE  Handed'
  <2>1. /\ UNCHANGED <<mode, count, state, ret>>
        /\ pc[t] = "idle" /\ pc'[t] = "lock"
    BY <1>t, <1>1 DEF LockEnter, Cond!Lock
  <2> QED
    BY <1>0, <2>1, HandedSame
<1>2. CASE LockAtOnce(t) \/ LockNoWait(t) \/ LockAfterWait(t)
  <2>1. \E from \in {"lock", "lock_back"} : Take(t, from)
    BY <1>2 DEF LockAtOnce, LockNoWait, LockAfterWait
  <2>2. /\ count' = count + 1 /\ UNCHANGED <<state, ret>> /\ pc'[t] = "idle"
    BY <1>t, <2>1 DEF Take, Leave, Cond!Unlock
  <2>3. count' # 0
    BY <2>2, OwnersFinite DEF Fitting, Linked, Counted, CountMatchesOwners
  <2> QED
    BY <1>0, <2>2, <2>3, HandedBusy
<1>3. CASE LockWait(t) \/ LockAgain(t)
  <2>1. /\ UNCHANGED <<mode, count, state, type>> /\ MustWait(t)
        /\ pc[t] \in {"lock", "lock_back"} /\ pc'[t] = "lock_wait"
        /\ \A y \in Threads \ {t} : ret'[y] = ret[y]
    BY <1>t, <1>3 DEF LockWait, LockAgain, Cond!Begin
  <2>2. ~(type[t] = mode /\ (mode = WRITE => count = 0))
    BY <2>1 DEF MustWait, READ, WRITE
  <2> QED
    BY <1>0, <2>1, <2>2, HandedSame
<1>4. CASE LockSleep(t)
  <2>1. /\ UNCHANGED <<mode, count, ret, type>>
        /\ pc[t] = "lock_wait" /\ pc'[t] = "lock_asleep"
        /\ state' = [state EXCEPT ![t] = "waiting"]
    BY <1>t, <1>4 DEF LockSleep, Cond!Wait
  <2>2. ~(type[t] = mode /\ (mode = WRITE => count = 0))
    BY <2>1 DEF Fitting, ModeFits, MustWait, READ, WRITE
  <2> QED
    BY <1>0, <1>t, <2>1, <2>2, HandedSame
<1>5. CASE LockWoken(t)
  <2>1. /\ UNCHANGED <<mode, count, type>>
        /\ pc[t] = "lock_asleep" /\ pc'[t] = "lock_back"
        /\ state' = [state EXCEPT ![t] = "running"]
        /\ ret' = [ret EXCEPT ![t] = "0"]
    BY <1>0, <1>t, <1>5 DEF LockWoken, Cond!WaitReturns, Cond!End
  <2> QED
    BY <1>0, <1>t, <2>1, HandedSame
<1>6. CASE LockInterrupted(t)
  BY <1>0, <1>6 DEF LockInterrupted, Leave
<1> QED
  BY <1>1, <1>2, <1>3, <1>4, <1>5, <1>6 DEF Lock

\* The call that wakes those the lock is handed to reaches one of them.
LEMMA WakeHands ==
  ASSUME Fitting, Handed, NEW t \in Threads, Step(t), Wake(t)
  PROVE  Handed'
<1>0. /\ Control
      /\ \A y \in Threads \ {t} : pc'[y] = pc[y] /\ type'[y] = type[y]
      /\ Uninterrupted(t)
  BY CountEffect DEF Fitting, Linked, Counted, Handed
<1>t. /\ DOMAIN pc = Threads /\ DOMAIN ret = Threads
      /\ \A c \in {readers, writers} : queue[c] \in Seq(Threads)
  BY <1>0 DEF Control, Typed, CondLemmas!Agree, CondLemmas!TypesAgree
<1>1. /\ UNCHANGED <<mode, count, args>>
      /\ pc[t] = "unlock_wake" /\ pc'[t] = "unlock_out"
  BY <1>t DEF Wake, Goto
<1>2. mode # UNLOCKED /\ call[t] = WakeCall(mode)
  BY <1>1 DEF Fitting, ModeFits
<1>3. /\ ret' = [ret EXCEPT ![t] = NULL]
      /\ \/ mode = READ /\ Cond!Wakes(ToSet(queue[readers]), "signaled")
         \/ mode = WRITE /\ queue[writers] = <<>> /\ UNCHANGED state
         \/ /\ mode = WRITE /\ queue[writers] # <<>>
            /\ Cond!Wakes({Last(queue[writers])}, "signaled")
  <2>1. PICK c \in {readers, writers} : Cond!Broadcast(t, c) \/ Cond!Signal(t, c)
    BY DEF Wake
  <2>2. CASE mode = READ
    <3>1. call[t] = <<"broadcast", readers>>
      BY <1>2, <2>2 DEF WakeCall
    <3>2. Cond!Broadcast(t, readers)
      BY <2>1, <3>1 DEF Cond!Broadcast, Cond!Signal, Cond!End
    <3> QED
      BY <2>2, <3>2 DEF Cond!Broadcast, Cond!End, Cond!ToSet, ToSet
  <2>3. CASE mode = WRITE
    <3>1. call[t] = <<"signal", writers>>
      BY <1>2, <2>3 DEF WakeCall, READ, WRITE
    <3>2. Cond!Signal(t, writers)
      BY <2>1, <3>1 DEF Cond!Broadcast, Cond!Signal, Cond!End
    <3> QED
      BY <2>3, <3>2 DEF Cond!Signal, Cond!End, Cond!Last, Last
  <2> QED
    BY <1>0, <1>2, <2>2, <2>3 DEF Control, Typed
<1>4. \A y \in Threads : state'[y] \in {state[y], "signaled"}
  BY <1>3 DEF Cond!Wakes
<1>5. \A y \in Threads : Uninterrupted(y)'
  BY <1>0, <1>1, <1>3, <1>4, <1>t DEF Handed, Uninterrupted
<1>6. ASSUME count = 0
      PROVE  \E y \in Threads : pc[y] \in InLoop /\ type[y] = mode /\ state'[y] # "waiting"
  <2>1. PICK w \in Threads : pc[w] \in InLoop /\ type[w] = mode
    BY <1>2, <1>6 DEF Handed, Awaited
  <2>2. CASE state[w] # "waiting"
    BY <1>4, <2>1, <2>2
  <2>3. CASE state[w] = "waiting"
    <3>1. PICK c \in {readers, writers} : Contains(queue[c], w)
      BY <1>0, <2>3 DEF Control, CondLemmas!Agree, CondLemmas!QueuesAgree,
         CondLemmas!Contains, Contains
    <3>2. QueueOf(w) = c
      BY <1>0, <3>1, SleepersWait
    <3>3. CASE mode = READ
      <4>1. w \in ToSet(queue[readers])
        BY <1>t, <2>1, <3>1, <3>2, <3>3, SetOfContained DEF QueueOf
      <4>2. Cond!Wakes(ToSet(queue[readers]), "signaled")
        BY <1>3, <3>3 DEF READ, WRITE
      <4> QED
        BY <2>1, <4>1, <4>2 DEF Cond!Wakes
    <3>4. CASE mode = WRITE
      <4>1. queue[writers] # <<>>
        BY <2>1, <3>1, <3>2, <3>4, EmptySeq DEF QueueOf, READ, WRITE, Contains
      <4>2. PICK y \in Threads : y = Last(queue[writers]) /\ Contains(queue[writers], y)
        <5>1. Contains(queue[writers], Last(queue[writers]))
              /\ Last(queue[writers]) \in Threads
          BY <1>t, <4>1, LastContained, LenProperties, EmptySeq DEF Last
        <5> QED
          BY <5>1
      <4>3. pc[y] = "lock_asleep" /\ QueueOf(y) = writers
        BY <1>0, <4>2, SleepersWait
      <4>4. type[y] = WRITE
        BY <1>0, <4>3 DEF Control, ArgsSet, InLoop, QueueOf, READ, WRITE, readers, writers
      <4>5. state'[y] = "signaled"
        BY <1>3, <3>4, <4>1, <4>2 DEF Cond!Wakes, READ, WRITE
      <4> QED
        BY <3>4, <4>3, <4>4, <4>5 DEF InLoop
    <3> QED
      BY <1>0, <1>2, <3>3, <3>4 DEF Control, Typed
  <2> QED
    BY <2>2, <2>3
<1>7. ASSUME count = 0
      PROVE  \E y \in Threads : Awaited(y)'
  <2>1. PICK y \in Threads : pc[y] \in InLoop /\ type[y] = mode /\ state'[y] # "waiting"
    BY <1>6, <1>7
  <2>2. y # t
    BY <1>1, <2>1 DEF InLoop
  <2> QED
    BY <1>0, <1>1, <2>1, <2>2 DEF Awaited
<1> QED
  BY <1>1, <1>5, <1>7 DEF Handed

\* The other steps of rwlock_unlock and rwlock_downgrade.
LEMMA UnlockHands ==
  ASSUME Fitting, Handed, Fitting', NEW t \in Threads, Step(t),
         Unlock(t) \/ Downgrade(t)
  PROVE  Handed'
<1>0. /\ Control /\ Counted /\ NodesMatch
      /\ \A y \in Threads \ {t} : pc'[y] = pc[y] /\ type'[y] = type[y]
      /\ Uninterrupted(t)
  BY CountEffect DEF Fitting, Linked, Counted, Handed
<1>t. /\ DOMAIN pc = Threads /\ DOMAIN state = Threads /\ DOMAIN ret = Threads
      /\ DOMAIN type = Threads
  BY <1>0 DEF Control, Typed, CondLemmas!Agree, CondLemmas!TypesAgree
<1>c. count \in Nat /\ (t \in Owners => count # 0)
  BY <1>0, OwnersFinite, FS_EmptySet DEF Counted, CountMatchesOwners
<1> USE DEF Goto, InLoop, args, Uninterrupted
<1>1. CASE UnlockEnter(t) \/ DowngradeEnter(t) \/ DowngradeLock(t) \/ UnlockOut(t)
  <2>1. /\ UNCHANGED <<mode, count, state, ret>>
        /\ pc[t] \in {"idle", "downgrade", "unlock_out"}
        /\ pc'[t] \in {"unlock", "downgrade", "downgrade_mode", "idle"}
    BY <1>t, <1>1 DEF UnlockEnter, DowngradeEnter, DowngradeLock, UnlockOut, Cond!Lock,
       Cond!Unlock, cond
  <2> QED
    BY <1>0, <2>1, HandedSame
<1>2. CASE UnlockLast(t)
  <2>1. /\ UNCHANGED <<state, ret>> /\ count' = count - 1 /\ pc'[t] = "idle"
        /\ count > 1 \/ mode' = UNLOCKED
    BY <1>t, <1>2 DEF UnlockLast, Cond!Unlock
  <2>2. count' # 0 \/ mode' = UNLOCKED
    BY <1>c, <2>1
  <2> QED
    BY <1>0, <2>1, <2>2, HandedBusy
<1>3. CASE UnlockHandOff(t)
  <2>1. /\ UNCHANGED <<state, type, waiting>> /\ mode' = Head(waiting).mode
        /\ pc[t] = "unlock" /\ pc'[t] = "unlock_wake" /\ waiting # <<>>
        /\ ret' = [ret EXCEPT ![t] = NULL]
    BY <1>t, <1>3 DEF UnlockHandOff, HandTo, Cond!Begin
  <2>2. 1 \in DOMAIN waiting /\ Head(waiting) = waiting[1]
    <3>1. waiting \in Seq(Nodes)
      BY <1>0 DEF Control, Typed
    <3> QED
      BY <2>1, <3>1, EmptySeq, LenProperties
  <2>3. PICK w \in Threads : w = waiting[1].thread
    BY <1>0, <2>2, NodeOfThread
  <2>4. pc[w] \in InLoop /\ type[w] = waiting[1].mode
    BY <1>0, <2>2, <2>3 DEF NodesMatch
  <2>5. Waking'
    BY <2>1 DEF Waking
  <2>6. Awaited(w)'
    BY <1>0, <2>1, <2>2, <2>4, <2>5 DEF Awaited
  <2>7. \A y \in Threads : Uninterrupted(y)'
    BY <1>0, <1>t, <2>1 DEF Handed
  <2> QED
    BY <2>6, <2>7 DEF Handed
<1>4. CASE Wake(t)
  BY <1>4, WakeHands
<1>5. CASE DowngradeBroadcast(t)
  <2>1. /\ UNCHANGED <<count, state>> /\ pc[t] = "downgrade_mode" /\ pc'[t] = "unlock_wake"
        /\ ret' = [ret EXCEPT ![t] = NULL]
    BY <1>t, <1>5 DEF DowngradeBroadcast, Cond!Begin
  <2>2. t \in Owners
    BY <1>0, <2>1, RwLockAssumption DEF Control, ArgsSet, Owners
  <2> QED
    BY <1>0, <1>c, <1>t, <2>1, <2>2, HandedBusy
<1> QED
  BY <1>1, <1>2, <1>3, <1>4, <1>5 DEF Unlock, Downgrade

\* Every step hands the lock on.
LEMMA HandsOnStep == HandsOn /\ [Next]_vars => HandsOn'
<1> SUFFICES ASSUME HandsOn, [Next]_vars PROVE HandsOn'
  OBVIOUS
<1>0. Fitting /\ Fitting'
  BY FittingStep DEF HandsOn
<1>1. CASE UNCHANGED vars
  BY <1>0, <1>1 DEF vars, args, cond, HandsOn, Handed, Awaited, Waking, Uninterrupted
<1>2. ASSUME ~interrupts, Handed, NEW t \in Threads, Step(t)
      PROVE  Handed'
  <2>1. ~Interrupt(t)
    BY <1>2 DEF Handed, Uninterrupted, Interrupt, InterruptBegin, InterruptEnd, Goto
  <2> QED
    BY <1>0, <1>2, <2>1, LockHands, UnlockHands DEF Step
<1> QED
  BY <1>0, <1>1, <1>2 DEF Next, Step, HandsOn

\* At first the lock is free.
LEMMA HandsOnInit == Init => HandsOn
BY FittingInit DEF Init, Cond!Init, HandsOn, Handed, Uninterrupted

\* rwlock.h:90: where nobody calls cond_interrupt, a hand-off always reaches a
\* thread that takes the lock or finds it taken, for any number of threads.
THEOREM HandOffCorrect == Spec => []HandOffReachesSomeone
<1>1. HandsOn => HandOffReachesSomeone
  <2> SUFFICES ASSUME HandsOn, ~interrupts, waiting # <<>>,
                      \A t \in Threads : \/ pc[t] = "idle" /\ holds[t] = NULL
                                         \/ pc[t] = "lock_asleep" /\ state[t] = "waiting"
               PROVE  FALSE
    BY DEF HandOffReachesSomeone, NobodyStuck
  <2>1. Fitting /\ Handed /\ Control /\ CountMatchesOwners
    BY DEF HandsOn, Fitting, Linked, Counted
  <2>2. Owners = {}
    BY <2>1 DEF Owners, Control, ArgsSet, InLoop
  <2>3. count = 0
    BY <2>1, <2>2, FS_EmptySet DEF CountMatchesOwners
  <2>4. mode # UNLOCKED
    BY <2>1 DEF Fitting, ModeFits
  <2>5. PICK w \in Threads : Awaited(w)
    BY <2>1, <2>3, <2>4 DEF Handed
  <2> QED
    BY <2>5 DEF Awaited, InLoop, Waking
<1> QED
  BY <1>1, HandsOnInit, HandsOnStep, PTL DEF Spec

=============================================================================
