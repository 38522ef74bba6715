------------------------------ MODULE SemProofs -----------------------------
(***************************************************************************)
(* Theorems about Sem, for any number of threads and permits.              *)
(***************************************************************************)
EXTENDS Sem, QueueLemmas, FiniteSetTheorems

CondLemmas == INSTANCE QueueProofs
  WITH Mutexes <- {sem_lock}, Conds <- {sem_signal},
       Guard <- [c \in {sem_signal} |-> sem_lock], Killable <- {},
       Queues <- {}, Elements <- {}, AfterLastOnly <- TRUE,
       head <- <<>>, tail <- <<>>, next <- <<>>, prev <- <<>>

-----------------------------------------------------------------------------
(* Control: who is where, who has sem_lock, who sleeps.                    *)

\* The places with sem_lock held.
Inside == {"wait_dec", "wait_cond", "wait_back", "wait_out",
           "signal_inc", "signal_cond", "signal_out"}

Control ==
  /\ interrupts \in BOOLEAN
  /\ pc \in [Threads -> Labels]
  /\ sem_count \in Int
  /\ result \in [Threads -> {"0", "-EINTR", NULL}]
  /\ CondLemmas!Agree
  /\ \A t \in Threads : mp[sem_lock] = t <=> pc[t] \in Inside
  /\ \A t \in Threads : state[t] # "running" <=> pc[t] = "wait_asleep"

\* The assumptions about the clients of CondSpec hold here.
LEMMA CondAssumptions == CondLemmas!Constants
BY SemAssumption DEF CondLemmas!Constants, CondLemmas!Calls!Operations, Cond!Operations

\* Without linked queues, those about the macros hold too.
LEMMA NoQueues == CondLemmas!VariableQueueAssumption
BY FS_EmptySet, SemAssumption
   DEF CondLemmas!VariableQueueAssumption, CondLemmas!IsFiniteSet, IsFiniteSet

\* The thread that a signal wakes is one that waits.
LEMMA QueueEnd ==
  ASSUME CondLemmas!Agree, queue[sem_signal] # <<>>
  PROVE  /\ Last(queue[sem_signal]) \in Threads
         /\ Contains(queue[sem_signal], Last(queue[sem_signal]))
         /\ state[Last(queue[sem_signal])] = "waiting"
<1>1. queue[sem_signal] \in Seq(Threads) /\ IsInjective(queue[sem_signal])
  BY DEF CondLemmas!Agree, CondLemmas!TypesAgree, CondLemmas!QueuesAgree,
     CondLemmas!IsInjective, IsInjective
<1>2. /\ Last(queue[sem_signal]) \in Threads
      /\ Contains(queue[sem_signal], Last(queue[sem_signal]))
  BY <1>1, PopElements, LastContained
<1> QED
  BY <1>2 DEF CondLemmas!Agree, CondLemmas!QueuesAgree, CondLemmas!Contains, Contains

\* Steps of CondSpec keep what is known about CondSpec.
LEMMA CondStep ==
  ASSUME CondLemmas!Agree, [Cond!Next]_cond
  PROVE  CondLemmas!Agree'
<1>1. [CondLemmas!Calls!Next]_(CondLemmas!Calls!vars)
  <2>1. \A t, op, val : Cond!End(t, op, val) <=> CondLemmas!Calls!End(t, op, val)
    BY DEF Cond!End, CondLemmas!Calls!End
  <2>2. \A S, why : Cond!Wakes(S, why) <=> CondLemmas!Calls!Wakes(S, why)
    BY DEF Cond!Wakes, CondLemmas!Calls!Wakes
  <2>3. \A t, c, u : Cond!Waits(t, c, u) <=> CondLemmas!Calls!Waits(t, c, u)
    BY DEF Cond!Waits, CondLemmas!Calls!Waits
  <2>4. \A t, m : Cond!Lock(t, m) <=> CondLemmas!Calls!Lock(t, m)
    BY DEF Cond!Lock, CondLemmas!Calls!Lock
  <2>5. \A t, m : Cond!Unlock(t, m) <=> CondLemmas!Calls!Unlock(t, m)
    BY DEF Cond!Unlock, CondLemmas!Calls!Unlock
  <2>6. \A t, m : Cond!Begin(t, m) <=> CondLemmas!Calls!Begin(t, m)
    BY DEF Cond!Begin, CondLemmas!Calls!Begin
  <2>7. \A t, c, u : Cond!Wait(t, c, u) <=> CondLemmas!Calls!Wait(t, c, u)
    BY <2>3 DEF Cond!Wait, CondLemmas!Calls!Wait
  <2>8. \A t, c, u : Cond!WaitReturns(t, c, u) <=> CondLemmas!Calls!WaitReturns(t, c, u)
    BY <2>1 DEF Cond!WaitReturns, CondLemmas!Calls!WaitReturns
  <2>9. \A t, c : Cond!WaitFails(t, c) <=> CondLemmas!Calls!WaitFails(t, c)
    BY <2>1 DEF Cond!WaitFails, CondLemmas!Calls!WaitFails
  <2>10. \A t, c : Cond!Signal(t, c) <=> CondLemmas!Calls!Signal(t, c)
    BY <2>1, <2>2 DEF Cond!Signal, CondLemmas!Calls!Signal, Cond!Front, CondLemmas!Calls!Front,
       Cond!Last, CondLemmas!Calls!Last
  <2>11. \A t, c : Cond!Broadcast(t, c) <=> CondLemmas!Calls!Broadcast(t, c)
    BY <2>1, <2>2 DEF Cond!Broadcast, CondLemmas!Calls!Broadcast, Cond!ToSet, CondLemmas!Calls!ToSet
  <2>12. \A t, c : Cond!Interrupt(t, c) <=> CondLemmas!Calls!Interrupt(t, c)
    BY <2>1, <2>2, <2>3 DEF Cond!Interrupt, CondLemmas!Calls!Interrupt, Cond!RemoveAt,
       CondLemmas!Calls!RemoveAt
  <2>13. \A t, c : Cond!InterruptFails(t, c) <=> CondLemmas!Calls!InterruptFails(t, c)
    BY <2>1, <2>3 DEF Cond!InterruptFails, CondLemmas!Calls!InterruptFails
  <2> QED
    BY <2>4, <2>5, <2>6, <2>7, <2>8, <2>9, <2>10, <2>11, <2>12, <2>13
       DEF cond, Cond!Next, Cond!Operations, CondLemmas!Calls!vars, CondLemmas!Calls!Next,
           CondLemmas!Calls!Operations
<1> QED
  BY <1>1, CondAssumptions, NoQueues, CondLemmas!AgreeStep

\* At first everybody is out.
LEMMA ControlInit == Init => Control
<1> SUFFICES ASSUME Init PROVE Control
  OBVIOUS
<1>1. CondLemmas!Agree
  BY CondAssumptions, NoQueues, CondLemmas!AgreeInit DEF Init, Cond!Init, CondLemmas!Calls!Init
<1> QED
  BY <1>1, SemAssumption DEF Init, Cond!Init, Control, Labels, Inside

\* Every step of a semaphore is a step of CondSpec.
LEMMA StepIsCondStep ==
  ASSUME NEW t \in Threads, Step(t)
  PROVE  [Cond!Next]_cond
<1> USE DEF Cond!Next, cond
<1>1. CASE WaitLock(t) \/ SignalLock(t)
  BY <1>1 DEF WaitLock, SignalLock
<1>2. CASE WaitInterrupted(t) \/ WaitDone(t) \/ SignalUnlock(t)
  <2>1. Cond!Unlock(t, sem_lock)
    BY <1>2 DEF WaitInterrupted, WaitDone, SignalUnlock
  <2> QED
    BY <2>1
<1>3. CASE WaitDecrement(t)
  <2>1. UNCHANGED cond \/ Cond!Begin(t, <<"wait", sem_signal, FALSE>>)
    BY <1>3 DEF WaitDecrement
  <2>2. <<"wait", sem_signal, FALSE>> \in Cond!Operations
    <3>1. \A u \in BOOLEAN : <<"wait", sem_signal, u>> \in Cond!Operations
      BY DEF Cond!Operations
    <3> QED
      BY <3>1
  <2> QED
    BY <2>1, <2>2
<1>4. CASE WaitSleep(t) \/ WaitWoken(t) \/ SignalCond(t)
  BY <1>4 DEF WaitSleep, WaitWoken, SignalCond
<1>5. CASE SignalIncrement(t)
  BY <1>5 DEF SignalIncrement, Cond!Operations
<1>6. ASSUME NEW u \in Threads, InterruptBegin(t, u) \/ InterruptEnd(t, u)
      PROVE  [Cond!Next]_cond
  BY <1>6 DEF InterruptBegin, InterruptEnd, Cond!Operations
<1> QED
  BY <1>1, <1>2, <1>3, <1>4, <1>5, <1>6 DEF Step

\* What CondSpec does to a thread's state and to the lock, step by step.
LEMMA WokenByCond ==
  ASSUME Control, NEW t \in Threads, NEW u \in Threads,
         Cond!Signal(t, sem_signal) \/ Cond!Interrupt(t, u) \/ Cond!InterruptFails(t, u)
  PROVE  /\ UNCHANGED mp
         /\ DOMAIN state' = Threads
         /\ \A y \in Threads : state[y] # "running" <=> state'[y] # "running"
<1> USE DEF Control, CondLemmas!Agree, CondLemmas!TypesAgree
<1>1. CASE Cond!Signal(t, sem_signal)
  <2>1. CASE queue[sem_signal] = <<>>
    BY <1>1, <2>1 DEF Cond!Signal
  <2>2. CASE queue[sem_signal] # <<>>
    <3> DEFINE y == Last(queue[sem_signal])
    <3>1. UNCHANGED mp /\ Cond!Wakes({y}, "signaled")
      BY <1>1, <2>2 DEF Cond!Signal, Cond!Last, Last
    <3>2. y \in Threads /\ state[y] = "waiting"
      BY <2>2, QueueEnd
    <3> HIDE DEF y
    <3> QED
      BY <3>1, <3>2 DEF Cond!Wakes
  <2> QED
    BY <2>1, <2>2
<1>2. CASE Cond!Interrupt(t, u)
  BY <1>2 DEF Cond!Interrupt, Cond!Wakes
<1>3. CASE Cond!InterruptFails(t, u)
  BY <1>3 DEF Cond!InterruptFails
<1> QED
  BY <1>1, <1>2, <1>3

\* Every step keeps the control.
LEMMA ControlStep == Control /\ [Next]_vars => Control'
<1> SUFFICES ASSUME Control, [Next]_vars PROVE Control'
  OBVIOUS
<1>1. CASE UNCHANGED vars
  <2>1. CondLemmas!Agree'
    BY <1>1, CondStep DEF vars, Control
  <2> QED
    BY <1>1, <2>1 DEF vars, cond, Control
<1>2. ASSUME NEW t \in Threads, Step(t), UNCHANGED interrupts
      PROVE  Control'
  <2>1. CondLemmas!Agree'
    BY <1>2, StepIsCondStep, CondStep DEF Control
  <2>t. mp \in [{sem_lock} -> Threads \cup {NULL}] /\ NULL \notin Threads
        /\ DOMAIN state = Threads
    BY SemAssumption DEF Control, CondLemmas!Agree, CondLemmas!TypesAgree
  <2> USE <1>2, <2>1, <2>t DEF Control, Goto, Return, Labels, Inside
  <2>2. CASE WaitLock(t)
    BY <2>2 DEF WaitLock, Cond!Lock
  <2>3. CASE WaitDecrement(t)
    <3>1. UNCHANGED <<mp, state, result>> /\ sem_count' = sem_count - 1
      BY <2>3 DEF WaitDecrement, Cond!Begin, cond
    <3>2. PICK to \in {"wait_out", "wait_cond"} : Goto(t, "wait_dec", to)
      BY <2>3 DEF WaitDecrement
    <3> QED
      BY <3>1, <3>2
  <2>4. CASE WaitSleep(t)
    BY <2>4 DEF WaitSleep, Cond!Wait
  <2>5. CASE WaitWoken(t)
    BY <2>5 DEF WaitWoken, Cond!WaitReturns
  <2>6. CASE WaitInterrupted(t)
    BY <2>6 DEF WaitInterrupted, Cond!Unlock
  <2>7. CASE WaitDone(t)
    BY <2>7 DEF WaitDone, Cond!Unlock
  <2>8. CASE SignalLock(t)
    BY <2>8 DEF SignalLock, Cond!Lock
  <2>9. CASE SignalIncrement(t)
    BY <2>9 DEF SignalIncrement, Cond!Begin
  <2>10. CASE SignalCond(t)
    BY <2>10, WokenByCond DEF SignalCond
  <2>11. CASE SignalUnlock(t)
    BY <2>11 DEF SignalUnlock, Cond!Unlock
  <2>12. ASSUME NEW u \in Threads, InterruptBegin(t, u)
         PROVE  Control'
    BY <2>12 DEF InterruptBegin, Cond!Begin
  <2>13. ASSUME NEW u \in Threads, InterruptEnd(t, u)
         PROVE  Control'
    BY <2>13, WokenByCond DEF InterruptEnd
  <2> QED
    BY <2>2, <2>3, <2>4, <2>5, <2>6, <2>7, <2>8, <2>9, <2>10, <2>11, <2>12, <2>13 DEF Step
<1> QED
  BY <1>1, <1>2 DEF Next

-----------------------------------------------------------------------------
(* Permits: who owes one, who has one.                                     *)

InDebt(t) ==
  \/ pc[t] = "wait_cond"
  \/ pc[t] = "wait_asleep" /\ state[t] # "signaled"
  \/ pc[t] = "wait_back" /\ ret[t] = "-EINTR"

HasPermit(t) ==
  \/ pc[t] = "wait_out"
  \/ pc[t] = "wait_asleep" /\ state[t] = "signaled"
  \/ pc[t] = "wait_back" /\ ret[t] # "-EINTR"

\* The refinement mapping in these terms.
LEMMA StatusIs ==
  Control => status = [t \in Threads |->
               IF pc[t] = "wait_dec" \/ InDebt(t) THEN "waiting"
               ELSE IF HasPermit(t) THEN "granted" ELSE "out"]
BY DEF Control, Labels, status, InDebt, HasPermit

\* The threads that have decremented the counter and have no permit.
LEMMA OwedIs == Control => Owed = {t \in Threads : InDebt(t)}
<1> SUFFICES ASSUME Control, NEW t \in Threads PROVE t \in Owed <=> InDebt(t)
  BY DEF Owed
<1> QED
  BY StatusIs DEF Owed, InDebt, HasPermit

\* The same after a step.
LEMMA OwedAfter == ASSUME Control' PROVE Owed' = {t \in Threads : InDebt(t)'}
<1>1. (Control => Owed = {t \in Threads : InDebt(t)})'
  BY OwedIs, PTL
<1> QED
  BY <1>1

\* There are finitely many debts.
LEMMA DebtsCounted ==
  /\ IsFiniteSet(Owed)
  /\ Cardinality(Owed) \in Nat /\ Cardinality(Threads) \in Nat
  /\ Cardinality(Owed) <= Cardinality(Threads)
BY SemAssumption, FS_Subset, FS_CardinalityType DEF Owed

\* A step that changes one thread's debt changes their number by one.
LEMMA DebtChange ==
  ASSUME Control, Control', NEW t \in Threads,
         \A y \in Threads \ {t} : InDebt(y)' <=> InDebt(y)
  PROVE  Cardinality(Owed)' = Cardinality(Owed) + (IF InDebt(t)' THEN 1 ELSE 0)
                                                - (IF InDebt(t) THEN 1 ELSE 0)
<1>1. /\ Owed = {y \in Threads : InDebt(y)}
      /\ Owed' = {y \in Threads : InDebt(y)'}
  BY OwedIs, OwedAfter
<1>2. CASE InDebt(t)' <=> InDebt(t)
  BY <1>1, <1>2, DebtsCounted
<1>3. CASE InDebt(t)' /\ ~InDebt(t)
  <2>1. Owed' = Owed \cup {t} /\ t \notin Owed
    BY <1>1, <1>3
  <2> QED
    BY <1>3, <2>1, DebtsCounted, FS_AddElement
<1>4. CASE ~InDebt(t)' /\ InDebt(t)
  <2>1. Owed' = Owed \ {t} /\ t \in Owed
    BY <1>1, <1>4
  <2> QED
    BY <1>4, <2>1, DebtsCounted, FS_RemoveElement
<1> QED
  BY <1>2, <1>3, <1>4

\* The refinement mapping after a step.
LEMMA StatusAfter ==
  ASSUME Control'
  PROVE  status' = [t \in Threads |->
           IF pc'[t] = "wait_dec" \/ InDebt(t)' THEN "waiting"
           ELSE IF HasPermit(t)' THEN "granted" ELSE "out"]
<1>1. (Control => status = [t \in Threads |->
         IF pc[t] = "wait_dec" \/ InDebt(t) THEN "waiting"
         ELSE IF HasPermit(t) THEN "granted" ELSE "out"])'
  BY StatusIs, PTL
<1> QED
  BY <1>1

\* In a step that touches one thread only the status of that thread changes.
LEMMA OneMoves ==
  ASSUME Control, Control', NEW t \in Threads,
         \A y \in Threads \ {t} : pc'[y] = pc[y] /\ state'[y] = state[y] /\ ret'[y] = ret[y]
  PROVE  /\ status' = [status EXCEPT ![t] =
                IF pc'[t] = "wait_dec" \/ InDebt(t)' THEN "waiting"
                ELSE IF HasPermit(t)' THEN "granted" ELSE "out"]
         /\ value' = sem_count' + Cardinality(Owed)
                       + (IF InDebt(t)' THEN 1 ELSE 0) - (IF InDebt(t) THEN 1 ELSE 0)
         /\ value \in Int /\ value >= sem_count /\ Cardinality(Owed) \in Nat
<1>1. \A y \in Threads \ {t} : InDebt(y)' <=> InDebt(y)
  BY DEF InDebt
<1>2. Cardinality(Owed)' = Cardinality(Owed) + (IF InDebt(t)' THEN 1 ELSE 0)
                                              - (IF InDebt(t) THEN 1 ELSE 0)
  BY <1>1, DebtChange, Zenon
<1>3. value' = sem_count' + Cardinality(Owed)
                + (IF InDebt(t)' THEN 1 ELSE 0) - (IF InDebt(t) THEN 1 ELSE 0)
  BY <1>2, DebtsCounted DEF value, Control
<1>4. status' = [status EXCEPT ![t] =
                IF pc'[t] = "wait_dec" \/ InDebt(t)' THEN "waiting"
                ELSE IF HasPermit(t)' THEN "granted" ELSE "out"]
  <2>1. \A y \in Threads \ {t} : HasPermit(y)' <=> HasPermit(y)
    BY DEF HasPermit
  <2>2. \A y \in Threads \ {t} : pc'[y] = pc[y]
    OBVIOUS
  <2> HIDE DEF InDebt, HasPermit
  <2> QED
    BY <1>1, <2>1, <2>2, StatusIs, StatusAfter
<1> QED
  BY <1>3, <1>4, DebtsCounted DEF value, Control

\* Who becomes what in the steps of sem_wait.
LEMMA WaitEffect ==
  ASSUME Control, Control', NEW t \in Threads
  PROVE  /\ WaitLock(t) => Abstract!Moves(t, "out", "waiting") /\ value' = value
         /\ WaitDecrement(t) =>
              \/ /\ Abstract!Moves(t, "waiting", "granted")
                 /\ value > 0 /\ value' = value - 1
              \/ sem_count <= 0 /\ UNCHANGED <<status, value>>
         /\ WaitSleep(t) \/ WaitWoken(t) => UNCHANGED <<status, value>>
         /\ WaitInterrupted(t) => Abstract!Moves(t, "waiting", "out") /\ value' = value
         /\ WaitDone(t) => Abstract!Moves(t, "granted", "out") /\ value' = value
<1> USE DEF Control, CondLemmas!Agree, CondLemmas!TypesAgree, InDebt, HasPermit, Goto
<1>0. /\ status[t] = IF pc[t] = "wait_dec" \/ InDebt(t) THEN "waiting"
                    ELSE IF HasPermit(t) THEN "granted" ELSE "out"
      /\ status = [status EXCEPT ![t] = status[t]]
  BY StatusIs
<1>1. ASSUME WaitLock(t)
      PROVE  Abstract!Moves(t, "out", "waiting") /\ value' = value
  <2>1. /\ pc[t] = "idle" /\ pc' = [pc EXCEPT ![t] = "wait_dec"]
        /\ UNCHANGED <<state, ret, sem_count>>
    BY <1>1 DEF WaitLock, Cond!Lock
  <2>2. /\ ~InDebt(t)' /\ ~InDebt(t) /\ pc'[t] = "wait_dec"
        /\ status[t] = "out"
    BY <1>0, <2>1
  <2>3. \A y \in Threads \ {t} : pc'[y] = pc[y] /\ state'[y] = state[y] /\ ret'[y] = ret[y]
    BY <2>1
  <2> HIDE DEF Control, InDebt, HasPermit
  <2>4. status' = [status EXCEPT ![t] = "waiting"] /\ value' = sem_count' + Cardinality(Owed)
        /\ Cardinality(Owed) \in Nat /\ sem_count \in Int
    BY <2>2, <2>3, OneMoves DEF Control
  <2> QED
    BY <2>1, <2>2, <2>4 DEF Abstract!Moves, value
<1>2. ASSUME WaitDecrement(t), sem_count > 0
      PROVE  /\ Abstract!Moves(t, "waiting", "granted")
             /\ value > 0 /\ value' = value - 1
  <2>1. /\ pc[t] = "wait_dec" /\ pc' = [pc EXCEPT ![t] = "wait_out"]
        /\ UNCHANGED <<state, ret>> /\ sem_count' = sem_count - 1
    BY <1>2 DEF WaitDecrement, cond
  <2>2. /\ ~InDebt(t)' /\ ~InDebt(t) /\ HasPermit(t)' /\ pc'[t] = "wait_out"
        /\ status[t] = "waiting"
    BY <1>0, <2>1
  <2>3. \A y \in Threads \ {t} : pc'[y] = pc[y] /\ state'[y] = state[y] /\ ret'[y] = ret[y]
    BY <2>1
  <2> HIDE DEF Control, InDebt, HasPermit
  <2>4. status' = [status EXCEPT ![t] = "granted"] /\ value' = sem_count' + Cardinality(Owed)
        /\ Cardinality(Owed) \in Nat /\ sem_count \in Int
    BY <2>2, <2>3, OneMoves DEF Control
  <2> QED
    BY <1>2, <2>1, <2>2, <2>4 DEF Abstract!Moves, value
<1>3. ASSUME WaitDecrement(t), ~(sem_count > 0)
      PROVE  sem_count <= 0 /\ UNCHANGED <<status, value>>
  <2>1. /\ pc[t] = "wait_dec" /\ pc' = [pc EXCEPT ![t] = "wait_cond"]
        /\ UNCHANGED state /\ ret' = [ret EXCEPT ![t] = NULL]
        /\ sem_count <= 0 /\ sem_count' = sem_count - 1
    BY <1>3 DEF WaitDecrement, Cond!Begin
  <2>2. InDebt(t)' /\ ~InDebt(t) /\ status[t] = "waiting"
    BY <1>0, <2>1
  <2>3. \A y \in Threads \ {t} : pc'[y] = pc[y] /\ state'[y] = state[y] /\ ret'[y] = ret[y]
    BY <2>1
  <2> HIDE DEF InDebt, HasPermit
  <2>4. status' = [status EXCEPT ![t] = "waiting"] /\ value' = sem_count' + Cardinality(Owed) + 1
        /\ Cardinality(Owed) \in Nat
    BY <2>2, <2>3, OneMoves
  <2> QED
    BY <1>0, <2>1, <2>2, <2>4 DEF value
<1>4. ASSUME WaitSleep(t)
      PROVE  UNCHANGED <<status, value>>
  <2>1. /\ pc[t] = "wait_cond" /\ pc' = [pc EXCEPT ![t] = "wait_asleep"]
        /\ state' = [state EXCEPT ![t] = "waiting"] /\ UNCHANGED <<ret, sem_count>>
    BY <1>4 DEF WaitSleep, Cond!Wait
  <2>2. /\ InDebt(t)' /\ InDebt(t) /\ pc'[t] # "wait_dec"
        /\ status[t] = "waiting"
    BY <1>0, <2>1
  <2>3. \A y \in Threads \ {t} : pc'[y] = pc[y] /\ state'[y] = state[y] /\ ret'[y] = ret[y]
    BY <2>1
  <2> HIDE DEF Control, InDebt, HasPermit
  <2>4. status' = [status EXCEPT ![t] = "waiting"] /\ value' = sem_count' + Cardinality(Owed)
        /\ Cardinality(Owed) \in Nat /\ sem_count \in Int
    BY <2>2, <2>3, OneMoves DEF Control
  <2> QED
    BY <1>0, <2>1, <2>2, <2>4 DEF value
<1>5. ASSUME WaitWoken(t)
      PROVE  UNCHANGED <<status, value>>
  <2>1. /\ pc[t] = "wait_asleep" /\ pc' = [pc EXCEPT ![t] = "wait_back"]
        /\ state' = [state EXCEPT ![t] = "running"]
        /\ \/ state[t] = "signaled" /\ ret' = [ret EXCEPT ![t] = "0"]
           \/ state[t] = "interrupted" /\ ret' = [ret EXCEPT ![t] = "-EINTR"]
        /\ UNCHANGED sem_count
    BY <1>5 DEF WaitWoken, Cond!WaitReturns, Cond!End
  <2>2. (InDebt(t)' <=> InDebt(t)) /\ (HasPermit(t)' <=> HasPermit(t))
    BY <2>1
  <2>3. \A y \in Threads \ {t} : pc'[y] = pc[y] /\ state'[y] = state[y] /\ ret'[y] = ret[y]
    BY <2>1
  <2>4. pc'[t] # "wait_dec" /\ pc[t] # "wait_dec"
    BY <2>1
  <2> HIDE DEF InDebt, HasPermit
  <2>5. /\ status' = [status EXCEPT ![t] = status[t]]
        /\ value' = sem_count + Cardinality(Owed)
    BY <1>0, <2>1, <2>2, <2>3, <2>4, OneMoves
  <2> QED
    BY <1>0, <2>5 DEF value
<1>6. ASSUME WaitInterrupted(t)
      PROVE  Abstract!Moves(t, "waiting", "out") /\ value' = value
  <2>1. /\ pc[t] = "wait_back" /\ pc' = [pc EXCEPT ![t] = "idle"]
        /\ UNCHANGED <<state, ret>> /\ ret[t] = "-EINTR"
        /\ sem_count' = sem_count + 1
    BY <1>6 DEF WaitInterrupted, Cond!Unlock
  <2>2. /\ ~InDebt(t)' /\ InDebt(t) /\ ~HasPermit(t)' /\ pc'[t] = "idle"
        /\ status[t] = "waiting"
    BY <1>0, <2>1
  <2>3. \A y \in Threads \ {t} : pc'[y] = pc[y] /\ state'[y] = state[y] /\ ret'[y] = ret[y]
    BY <2>1
  <2> HIDE DEF Control, InDebt, HasPermit
  <2>4. status' = [status EXCEPT ![t] = "out"] /\ value' = sem_count' + Cardinality(Owed) - 1
        /\ Cardinality(Owed) \in Nat /\ sem_count \in Int
    BY <2>2, <2>3, OneMoves DEF Control
  <2> QED
    BY <2>1, <2>2, <2>4 DEF Abstract!Moves, value
<1>7. ASSUME WaitDone(t)
      PROVE  Abstract!Moves(t, "granted", "out") /\ value' = value
  <2>1. /\ pc[t] = "wait_out" \/ (pc[t] = "wait_back" /\ ret[t] # "-EINTR")
        /\ pc' = [pc EXCEPT ![t] = "idle"]
        /\ UNCHANGED <<state, ret, sem_count>>
    BY <1>7 DEF WaitDone, Cond!Unlock
  <2>2. /\ ~InDebt(t)' /\ ~InDebt(t) /\ ~HasPermit(t)' /\ pc'[t] = "idle"
        /\ status[t] = "granted"
    BY <1>0, <2>1
  <2>3. \A y \in Threads \ {t} : pc'[y] = pc[y] /\ state'[y] = state[y] /\ ret'[y] = ret[y]
    BY <2>1
  <2> HIDE DEF Control, InDebt, HasPermit
  <2>4. status' = [status EXCEPT ![t] = "out"] /\ value' = sem_count' + Cardinality(Owed)
        /\ Cardinality(Owed) \in Nat /\ sem_count \in Int
    BY <2>2, <2>3, OneMoves DEF Control
  <2> QED
    BY <2>1, <2>2, <2>4 DEF Abstract!Moves, value
<1> QED
  BY <1>1, <1>2, <1>3, <1>4, <1>5, <1>6, <1>7

\* A step that leaves everybody's debts and permits alone.
LEMMA NoneMoves ==
  ASSUME Control, Control',
         \A y \in Threads : /\ InDebt(y)' <=> InDebt(y)
                            /\ HasPermit(y)' <=> HasPermit(y)
                            /\ pc'[y] = "wait_dec" <=> pc[y] = "wait_dec"
  PROVE  /\ UNCHANGED status
         /\ sem_count' = sem_count => UNCHANGED <<status, value>>
         /\ sem_count' = sem_count + 1 => value' = value + 1
<1>1. status' = status
  BY StatusIs, StatusAfter
<1>2. Owed' = Owed
  BY OwedIs, OwedAfter
<1> QED
  BY <1>1, <1>2, DebtsCounted DEF value, Control

\* Who becomes what in the steps of sem_signal and of cond_interrupt.
LEMMA SignalEffect ==
  ASSUME Control, Control', NEW t \in Threads
  PROVE  /\ SignalLock(t) \/ SignalUnlock(t) => UNCHANGED <<status, value>>
         /\ SignalIncrement(t) => UNCHANGED status /\ value' = value + 1
         /\ SignalCond(t) =>
              \/ queue[sem_signal] = <<>> /\ UNCHANGED <<status, value>>
              \/ /\ \E u \in Threads : Abstract!Moves(u, "waiting", "granted")
                 /\ value' = value - 1
         /\ \A u \in Threads : InterruptBegin(t, u) \/ InterruptEnd(t, u)
              => UNCHANGED <<status, value>>
<1> DEFINE Same == \A y \in Threads : /\ InDebt(y)' <=> InDebt(y)
                                      /\ HasPermit(y)' <=> HasPermit(y)
                                      /\ pc'[y] = "wait_dec" <=> pc[y] = "wait_dec"
<1> USE DEF Control, CondLemmas!Agree, CondLemmas!TypesAgree, InDebt, HasPermit, Goto
<1>1. ASSUME SignalLock(t) \/ SignalUnlock(t)
      PROVE  UNCHANGED <<status, value>>
  <2>1. UNCHANGED <<state, ret, sem_count>>
    BY <1>1 DEF SignalLock, SignalUnlock, Cond!Lock, Cond!Unlock
  <2>2. \/ pc[t] = "idle" /\ pc' = [pc EXCEPT ![t] = "signal_inc"]
        \/ pc[t] = "signal_out" /\ pc' = [pc EXCEPT ![t] = "idle"]
    BY <1>1 DEF SignalLock, SignalUnlock
  <2>3. Same
    BY <2>1, <2>2
  <2> QED
    BY <2>1, <2>3, NoneMoves DEF Same
<1>2. ASSUME SignalIncrement(t)
      PROVE  UNCHANGED status /\ value' = value + 1
  <2>1. /\ UNCHANGED state /\ ret' = [ret EXCEPT ![t] = NULL]
        /\ pc[t] = "signal_inc" /\ pc' = [pc EXCEPT ![t] = "signal_cond"]
        /\ sem_count' = sem_count + 1
    BY <1>2 DEF SignalIncrement, Cond!Begin
  <2>2. Same
    BY <2>1
  <2> QED
    BY <2>1, <2>2, NoneMoves
<1>3. ASSUME SignalCond(t), queue[sem_signal] = <<>>
      PROVE  UNCHANGED <<status, value>>
  <2>1. /\ UNCHANGED <<state, sem_count>> /\ ret' = [ret EXCEPT ![t] = NULL]
        /\ pc[t] = "signal_cond" /\ pc' = [pc EXCEPT ![t] = "signal_out"]
    BY <1>3 DEF SignalCond, Cond!Signal, Cond!End
  <2>2. Same
    BY <2>1
  <2> QED
    BY <2>1, <2>2, NoneMoves
<1>4. ASSUME SignalCond(t), queue[sem_signal] # <<>>
      PROVE  /\ \E u \in Threads : Abstract!Moves(u, "waiting", "granted")
             /\ value' = value - 1
  <2>0. PICK u \in Threads : u = Last(queue[sem_signal]) /\ state[u] = "waiting"
    BY <1>4, QueueEnd
  <2>1. u \in Threads /\ state[u] = "waiting"
    BY <2>0
  <2>2. Cond!Wakes({u}, "signaled")
    BY <1>4, <2>0 DEF SignalCond, Cond!Signal, Cond!Last, Last
  <2>3. /\ pc[t] = "signal_cond" /\ pc' = [pc EXCEPT ![t] = "signal_out"]
        /\ ret' = [ret EXCEPT ![t] = NULL] /\ UNCHANGED sem_count
    BY <1>4 DEF SignalCond, Cond!Signal, Cond!End
  <2>4. pc[u] = "wait_asleep" /\ pc'[u] = "wait_asleep" /\ state'[u] = "signaled"
    BY <2>1, <2>2, <2>3 DEF Cond!Wakes
  <2>5. InDebt(u) /\ ~InDebt(u)' /\ HasPermit(u)'
    BY <2>1, <2>4
  <2>6. \A y \in Threads \ {u} : /\ InDebt(y)' <=> InDebt(y)
                                 /\ HasPermit(y)' <=> HasPermit(y)
                                 /\ pc'[y] = "wait_dec" <=> pc[y] = "wait_dec"
    <3>1. \A y \in Threads \ {u} : state'[y] = state[y]
      BY <2>2 DEF Cond!Wakes
    <3> QED
      BY <2>3, <3>1
  <2> HIDE DEF InDebt, HasPermit
  <2>7. Cardinality(Owed)' = Cardinality(Owed) - 1
    BY <2>1, <2>5, <2>6, DebtChange, DebtsCounted
  <2>8. status[u] = "waiting" /\ status' = [status EXCEPT ![u] = "granted"]
    <3>1. pc'[u] # "wait_dec" /\ pc[u] # "wait_dec"
      BY <2>4
    <3>2. status[u] = "waiting" /\ status = [y \in Threads |-> status[y]]
      BY <2>1, <2>5, StatusIs
    <3>3. status' = [y \in Threads |-> status'[y]] /\ status'[u] = "granted"
      BY <2>1, <2>5, <3>1, StatusAfter
    <3>4. \A y \in Threads \ {u} : status'[y] = status[y]
      BY <2>6, StatusIs, StatusAfter
    <3> QED
      BY <3>2, <3>3, <3>4
  <2>9. value' = value - 1
    BY <2>3, <2>7, DebtsCounted DEF value
  <2> QED
    BY <2>1, <2>8, <2>9 DEF Abstract!Moves
<1>5. ASSUME NEW u \in Threads, InterruptBegin(t, u)
      PROVE  UNCHANGED <<status, value>>
  <2>1. /\ UNCHANGED <<state, sem_count>> /\ ret' = [ret EXCEPT ![t] = NULL]
        /\ pc[t] = "idle" /\ pc' = [pc EXCEPT ![t] = "interrupt"]
    BY <1>5 DEF InterruptBegin, Cond!Begin
  <2>2. Same
    BY <2>1
  <2> QED
    BY <2>1, <2>2, NoneMoves
<1>6. ASSUME NEW u \in Threads, InterruptEnd(t, u)
      PROVE  UNCHANGED <<status, value>>
  <2>1. \A y \in Threads : (state'[y] = "signaled") <=> (state[y] = "signaled")
    <3>1. CASE Cond!Interrupt(t, u)
      BY <3>1 DEF Cond!Interrupt, Cond!Wakes
    <3>2. CASE Cond!InterruptFails(t, u)
      BY <3>2 DEF Cond!InterruptFails
    <3> QED
      BY <1>6, <3>1, <3>2 DEF InterruptEnd
  <2>2. \A y \in Threads : y # t => ret'[y] = ret[y]
    <3>1. CASE Cond!Interrupt(t, u)
      BY <3>1 DEF Cond!Interrupt, Cond!End
    <3>2. CASE Cond!InterruptFails(t, u)
      BY <3>2 DEF Cond!InterruptFails, Cond!End
    <3> QED
      BY <1>6, <3>1, <3>2 DEF InterruptEnd
  <2>3. /\ pc[t] = "interrupt" /\ pc' = [pc EXCEPT ![t] = "idle"] /\ UNCHANGED sem_count
    BY <1>6 DEF InterruptEnd
  <2>4. Same
    BY <2>1, <2>2, <2>3
  <2> QED
    BY <2>3, <2>4, NoneMoves
<1> QED
  BY <1>1, <1>2, <1>3, <1>4, <1>5, <1>6

\* No permit is taken that is not there: whoever is about to take one for a
\* sleeping thread has just made it, and nobody else can take it meanwhile.
Permits ==
  /\ Control
  /\ value \in Nat /\ value <= MaxCount + Cardinality(Threads)
  /\ \A t \in Threads : /\ pc[t] = "signal_inc" => sem_count < MaxCount
                        /\ pc[t] = "signal_cond" => value > 0

\* At first InitialCount permits are there.
LEMMA PermitsInit == Init => Permits /\ Owed = {} /\ value = InitialCount
<1> SUFFICES ASSUME Init PROVE Permits /\ Owed = {} /\ value = InitialCount
  OBVIOUS
<1>1. Control
  BY ControlInit
<1>2. Owed = {}
  BY <1>1, OwedIs DEF Init, InDebt
<1>3. value = InitialCount
  BY <1>2, FS_EmptySet, SemAssumption DEF Init, value
<1> QED
  BY <1>1, <1>2, <1>3, DebtsCounted, SemAssumption DEF Init, Permits

\* A thread with sem_lock held is alone in changing the counter.
LEMMA HolderAlone ==
  ASSUME Control, Control', NEW t \in Threads, Step(t),
         NEW y \in Threads \ {t}, pc[y] \in Inside
  PROVE  \E u \in Threads : InterruptBegin(t, u) \/ InterruptEnd(t, u)
<1>1. mp[sem_lock] = y /\ pc[t] \notin Inside /\ mp[sem_lock] # NULL
  BY SemAssumption DEF Control
<1>2. ~WaitLock(t) /\ ~SignalLock(t)
  BY <1>1 DEF WaitLock, SignalLock, Cond!Lock
<1>3. ~WaitWoken(t)
  BY <1>1 DEF WaitWoken, Cond!WaitReturns
<1>4. /\ ~WaitDecrement(t) /\ ~WaitSleep(t) /\ ~WaitInterrupted(t) /\ ~WaitDone(t)
      /\ ~SignalIncrement(t) /\ ~SignalCond(t) /\ ~SignalUnlock(t)
  BY <1>1 DEF Inside, WaitDecrement, WaitSleep, WaitInterrupted, WaitDone,
     SignalIncrement, SignalCond, SignalUnlock, Goto
<1> QED
  BY <1>2, <1>3, <1>4 DEF Step

\* A step that leaves enough permits, and after which its own thread is entitled
\* to where it is: the others are not disturbed.
LEMMA PermitsKept ==
  ASSUME Permits, Control', NEW t \in Threads, Step(t),
         value' \in Nat, value' <= MaxCount + Cardinality(Threads),
         pc'[t] = "signal_inc" => sem_count' < MaxCount,
         pc'[t] = "signal_cond" => value' > 0
  PROVE  Permits'
<1>1. ASSUME NEW y \in Threads \ {t}
      PROVE  /\ pc'[y] = "signal_inc" => sem_count' < MaxCount
             /\ pc'[y] = "signal_cond" => value' > 0
  <2>0. \E from, to : Goto(t, from, to)
    <3>1. CASE WaitDecrement(t)
      BY <3>1 DEF WaitDecrement
    <3>2. CASE WaitDone(t)
      BY <3>2 DEF WaitDone
    <3> QED
      BY <3>1, <3>2 DEF Step, WaitLock, WaitSleep, WaitWoken, WaitInterrupted,
         SignalLock, SignalIncrement, SignalCond, SignalUnlock, InterruptBegin, InterruptEnd
  <2>1. pc'[y] = pc[y]
    BY <2>0 DEF Goto, Permits, Control
  <2>2. CASE pc[y] \in {"signal_inc", "signal_cond"}
    <3>1. PICK u \in Threads : InterruptBegin(t, u) \/ InterruptEnd(t, u)
      BY <2>2, HolderAlone DEF Permits, Inside
    <3>2. UNCHANGED value /\ UNCHANGED sem_count
      BY <3>1, SignalEffect DEF Permits, InterruptBegin, InterruptEnd
    <3> QED
      BY <2>1, <3>2 DEF Permits
  <2> QED
    BY <2>1, <2>2
<1> QED
  BY <1>1 DEF Permits

\* Every step keeps the permits.
LEMMA PermitsStep == Permits /\ [Next]_vars => Permits'
<1> SUFFICES ASSUME Permits, [Next]_vars PROVE Permits'
  OBVIOUS
<1>0. Control /\ Control'
  BY ControlStep DEF Permits
<1>1. CASE UNCHANGED vars
  <2>1. \A t \in Threads : (InDebt(t)' <=> InDebt(t)) /\ (HasPermit(t)' <=> HasPermit(t))
    BY <1>1 DEF vars, cond, InDebt, HasPermit
  <2>2. value' = value
    BY <1>0, <1>1, <2>1, NoneMoves DEF vars
  <2> QED
    BY <1>0, <1>1, <2>2 DEF vars, Permits
<1>2. ASSUME NEW t \in Threads, Step(t), UNCHANGED interrupts
      PROVE  Permits'
  <2> DEFINE K == MaxCount + Cardinality(Threads)
  <2>0. K \in Nat /\ value \in Nat /\ value <= K /\ MaxCount \in Nat
    BY DebtsCounted, SemAssumption DEF Permits
  <2>1. CASE SignalLock(t)
    <3>1. value' = value
      BY <1>0, <2>1, SignalEffect
    <3>2. pc'[t] = "signal_inc" /\ sem_count' < MaxCount
      BY <1>0, <2>1 DEF SignalLock, Goto, Control
    <3> QED
      BY <1>0, <1>2, <2>0, <3>1, <3>2, PermitsKept
  <2>2. CASE SignalIncrement(t)
    <3>1. value' = value + 1
      BY <1>0, <2>2, SignalEffect
    <3>2. pc'[t] = "signal_cond" /\ sem_count < MaxCount
      BY <1>0, <2>2 DEF SignalIncrement, Goto, Control, Permits
    <3>3. value' <= K /\ value' > 0
      BY <1>0, <2>0, <3>1, <3>2, DebtsCounted DEF value, Control
    <3> QED
      BY <1>0, <1>2, <2>0, <3>1, <3>2, <3>3, PermitsKept
  <2>3. CASE SignalCond(t)
    <3>1. value > 0 /\ pc'[t] = "signal_out"
      BY <1>0, <2>3 DEF SignalCond, Goto, Control, Permits
    <3>2. value' = value \/ value' = value - 1
      BY <1>0, <2>3, SignalEffect
    <3> QED
      BY <1>0, <1>2, <2>0, <3>1, <3>2, PermitsKept
  <2>4. CASE WaitDecrement(t)
    <3>1. pc'[t] \in {"wait_out", "wait_cond"}
      BY <1>0, <2>4 DEF WaitDecrement, Goto, Control
    <3>2. value' = value \/ (value > 0 /\ value' = value - 1)
      BY <1>0, <2>4, WaitEffect
    <3> QED
      BY <1>0, <1>2, <2>0, <3>1, <3>2, PermitsKept
  <2>5. CASE \/ WaitLock(t) \/ WaitSleep(t) \/ WaitWoken(t) \/ WaitInterrupted(t)
             \/ WaitDone(t) \/ SignalUnlock(t)
             \/ \E u \in Threads : InterruptBegin(t, u) \/ InterruptEnd(t, u)
    <3>1. value' = value
      BY <1>0, <2>5, WaitEffect, SignalEffect
    <3>2. pc'[t] \notin {"signal_inc", "signal_cond"}
      BY <1>0, <2>5 DEF WaitLock, WaitSleep, WaitWoken, WaitInterrupted, WaitDone,
         SignalUnlock, InterruptBegin, InterruptEnd, Goto, Control
    <3> QED
      BY <1>0, <1>2, <2>0, <3>1, <3>2, PermitsKept
  <2> QED
    BY <1>2, <2>1, <2>2, <2>3, <2>4, <2>5 DEF Step
<1> QED
  BY <1>1, <1>2 DEF Next

\* The counter stays within the bounds its threads set: Sem's variables keep
\* their types, for any number of threads and permits.
THEOREM TypeCorrect == Spec => []TypeOK
<1>1. Init => Permits
  BY PermitsInit
<1>2. Permits /\ [Next]_vars => Permits'
  BY PermitsStep
<1>3. Permits => TypeOK
  BY DebtsCounted, SemAssumption DEF Permits, Control, TypeOK, value
<1> QED
  BY <1>1, <1>2, <1>3, PTL DEF Spec

-----------------------------------------------------------------------------
(* The semaphore that sem.h promises.                                      *)

\* Every step is a step of the abstract semaphore, or none.
LEMMA AbstractStep ==
  ASSUME Permits, Permits', [Next]_vars
  PROVE  [Abstract!Next]_(Abstract!vars)
<1> USE DEF Abstract!vars, Abstract!Answers, Return
<1>0. Control /\ Control'
  BY DEF Permits
<1>1. CASE UNCHANGED vars
  <2>1. \A t \in Threads : (InDebt(t)' <=> InDebt(t)) /\ (HasPermit(t)' <=> HasPermit(t))
    BY <1>1 DEF vars, cond, InDebt, HasPermit
  <2> QED
    BY <1>0, <1>1, <2>1, NoneMoves DEF vars
<1>2. ASSUME NEW t \in Threads, Step(t)
      PROVE  [Abstract!Next]_(Abstract!vars)
  <2>1. CASE WaitLock(t)
    <3>1. Abstract!Begin(t)
      BY <1>0, <2>1, WaitEffect DEF WaitLock, Abstract!Begin
    <3> QED
      BY <3>1 DEF Abstract!Next
  <2>2. CASE WaitDecrement(t)
    <3>1. Abstract!Grant(t) \/ UNCHANGED <<status, value, result>>
      BY <1>0, <2>2, WaitEffect DEF WaitDecrement, Abstract!Grant
    <3> QED
      BY <3>1 DEF Abstract!Next
  <2>3. CASE WaitSleep(t) \/ WaitWoken(t)
    BY <1>0, <2>3, WaitEffect DEF WaitSleep, WaitWoken
  <2>4. CASE WaitInterrupted(t)
    <3>1. Abstract!Fail(t)
      BY <1>0, <2>4, WaitEffect DEF WaitInterrupted, Abstract!Fail
    <3> QED
      BY <3>1 DEF Abstract!Next
  <2>5. CASE WaitDone(t)
    <3>1. Abstract!Return(t)
      BY <1>0, <2>5, WaitEffect DEF WaitDone, Abstract!Return
    <3> QED
      BY <3>1 DEF Abstract!Next
  <2>6. CASE SignalLock(t) \/ SignalUnlock(t)
    BY <1>0, <2>6, SignalEffect DEF SignalLock, SignalUnlock
  <2>7. CASE SignalIncrement(t)
    <3>1. Abstract!Signal
      BY <1>0, <2>7, SignalEffect DEF SignalIncrement, Abstract!Signal
    <3> QED
      BY <3>1 DEF Abstract!Next
  <2>8. CASE SignalCond(t)
    <3>1. value > 0 /\ UNCHANGED result
      BY <2>8 DEF SignalCond, Goto, Permits
    <3>2. \/ UNCHANGED <<status, value, result>>
          \/ \E u \in Threads : Abstract!Grant(u)
      BY <1>0, <2>8, <3>1, SignalEffect DEF Abstract!Grant
    <3> QED
      BY <3>2 DEF Abstract!Next
  <2>9. ASSUME NEW u \in Threads, InterruptBegin(t, u) \/ InterruptEnd(t, u)
        PROVE  UNCHANGED <<status, value, result>>
    BY <1>0, <2>9, SignalEffect DEF InterruptBegin, InterruptEnd
  <2> QED
    BY <1>2, <2>1, <2>2, <2>3, <2>4, <2>5, <2>6, <2>7, <2>8, <2>9 DEF Step
<1> QED
  BY <1>1, <1>2 DEF Next

\* sem.h:57, for any number of threads and any initial count: sem_wait and
\* sem_signal implement the counting semaphore of SemSpec.
THEOREM SemaphoreCorrect == Spec => ImplementsSemSpec
<1>1. Init => Permits /\ Abstract!Init
  <2> SUFFICES ASSUME Init PROVE Permits /\ Abstract!Init
    OBVIOUS
  <2>1. Permits /\ value = InitialCount /\ Control
    BY PermitsInit, ControlInit
  <2>2. status = [t \in Threads |-> "out"]
    BY <2>1, StatusIs DEF Init, InDebt, HasPermit
  <2> QED
    BY <2>1, <2>2 DEF Init, Abstract!Init
<1>2. Permits /\ [Next]_vars => Permits'
  BY PermitsStep
<1>3. Permits /\ Permits' /\ [Next]_vars => [Abstract!Next]_(Abstract!vars)
  BY AbstractStep
<1> QED
  BY <1>1, <1>2, <1>3, PTL DEF Spec, ImplementsSemSpec, Abstract!Spec

-----------------------------------------------------------------------------
(* Without cond_interrupt, nobody sleeps while there is a permit.          *)

Hungry == queue[sem_signal] # <<>> \/ \E t \in Threads : pc[t] = "wait_cond"
Serving == \E t \in Threads : pc[t] = "signal_cond"

\* Whoever sleeps, or is about to, found no permit, and the one permit that
\* can be there is in the hands of the sem_signal that made it.
Settled ==
  /\ \A t \in Threads : /\ state[t] # "interrupted" /\ pc[t] # "interrupt"
                        /\ pc[t] = "wait_back" => ret[t] # "-EINTR"
  /\ Hungry => value = IF Serving THEN 1 ELSE 0

Quiet == Permits /\ (~interrupts => Settled)

\* At first nobody sleeps.
LEMMA QuietInit == Init => Quiet
<1> SUFFICES ASSUME Init PROVE Quiet
  OBVIOUS
<1>1. Permits
  BY PermitsInit
<1> QED
  BY <1>1 DEF Init, Cond!Init, Quiet, Settled, Hungry

\* With the queue empty and nobody interrupted, whoever holds sem_lock before
\* it decrements the counter sees the permits themselves.
LEMMA NoDebts ==
  ASSUME Permits, Settled, NEW t \in Threads, pc[t] = "wait_dec",
         queue[sem_signal] = <<>>
  PROVE  value = sem_count
<1>1. ASSUME NEW y \in Threads PROVE ~InDebt(y)
  <2>1. pc[y] # "wait_cond"
    BY SemAssumption DEF Permits, Control, Inside
  <2>2. state[y] # "waiting"
    <3>1. ~Contains(queue[sem_signal], y)
      BY DEF Contains
    <3> QED
      BY <3>1 DEF Permits, Control, CondLemmas!Agree, CondLemmas!QueuesAgree,
         CondLemmas!Contains, Contains
  <2> QED
    BY <2>1, <2>2 DEF InDebt, Settled, Permits, Control, CondLemmas!Agree,
       CondLemmas!TypesAgree
<1>2. Owed = {}
  BY <1>1, OwedIs DEF Permits
<1> QED
  BY <1>2, FS_EmptySet DEF value, Permits, Control

\* One thread at a time is where sem_lock is held.
LEMMA Exclusive ==
  ASSUME Control, NEW t \in Threads, NEW u \in Threads,
         pc[t] \in Inside, pc[u] \in Inside
  PROVE  t = u
BY DEF Control

\* Every step keeps it.
LEMMA QuietStep == Quiet /\ [Next]_vars => Quiet'
<1> SUFFICES ASSUME Quiet, [Next]_vars PROVE Quiet'
  OBVIOUS
<1>0. Permits /\ Permits' /\ Control /\ Control'
  BY PermitsStep DEF Quiet, Permits
<1>1. CASE UNCHANGED vars
  <2>1. \A t \in Threads : (InDebt(t)' <=> InDebt(t)) /\ (HasPermit(t)' <=> HasPermit(t))
    BY <1>1 DEF vars, cond, InDebt, HasPermit
  <2>2. value' = value
    BY <1>0, <1>1, <2>1, NoneMoves DEF vars
  <2> QED
    BY <1>0, <1>1, <2>2 DEF vars, cond, Quiet, Settled, Hungry, Serving
<1>2. CASE interrupts'
  BY <1>0, <1>2 DEF Quiet
<1>3. ASSUME ~interrupts, Settled, NEW t \in Threads, Step(t)
      PROVE  Settled'
  <2> USE DEF Goto
  <2>0. /\ DOMAIN pc = Threads /\ DOMAIN state = Threads /\ DOMAIN ret = Threads
        /\ DOMAIN queue = {sem_signal} /\ pc[t] # "interrupt"
        /\ \A y \in Threads : /\ state[y] # "interrupted" /\ pc[y] # "interrupt"
                              /\ pc[y] = "wait_back" => ret[y] # "-EINTR"
    BY <1>0, <1>3 DEF Control, CondLemmas!Agree, CondLemmas!TypesAgree, Settled
  <2> DEFINE Sane == \A y \in Threads : /\ state[y] # "interrupted" /\ pc[y] # "interrupt"
                                        /\ pc[y] = "wait_back" => ret[y] # "-EINTR"
  <2>1. CASE WaitLock(t) \/ SignalLock(t)
    <3>1. /\ UNCHANGED <<queue, state, ret>> /\ value' = value /\ pc[t] = "idle"
          /\ \E l \in {"wait_dec", "signal_inc"} : pc' = [pc EXCEPT ![t] = l]
      BY <1>0, <2>1, WaitEffect, SignalEffect DEF WaitLock, SignalLock, Cond!Lock
    <3> QED
      BY <1>3, <2>0, <3>1 DEF Settled, Hungry, Serving
  <2>2. CASE WaitDecrement(t)
    <3>1. ~Serving
      BY <1>0, <2>2, Exclusive DEF WaitDecrement, Inside, Serving
    <3>2. CASE sem_count > 0
      <4>1. value > 0
        BY <1>0, <3>2, DebtsCounted DEF value, Control
      <4>2. ~Hungry
        BY <1>3, <3>1, <4>1 DEF Settled
      <4>3. UNCHANGED cond /\ pc' = [pc EXCEPT ![t] = "wait_out"]
        BY <1>0, <2>2, <3>2 DEF WaitDecrement, Control
      <4>4. ~Hungry' /\ Sane'
        BY <2>0, <4>2, <4>3 DEF cond, Hungry
      <4> QED
        BY <4>4 DEF Settled
    <3>3. CASE ~(sem_count > 0)
      <4>1. /\ UNCHANGED <<queue, state>> /\ ret' = [ret EXCEPT ![t] = NULL]
            /\ pc[t] = "wait_dec" /\ pc' = [pc EXCEPT ![t] = "wait_cond"]
        BY <2>2, <3>3 DEF WaitDecrement, Cond!Begin
      <4>2. value' = value /\ sem_count <= 0
        <5>1. \/ /\ Abstract!Moves(t, "waiting", "granted")
                 /\ value > 0 /\ value' = value - 1
              \/ sem_count <= 0 /\ UNCHANGED <<status, value>>
          BY <1>0, <2>2, WaitEffect
        <5>2. status'[t] = "waiting"
          BY <1>0, <4>1, StatusAfter, <2>0 DEF InDebt
        <5> QED
          BY <5>1, <5>2, <1>0, <3>3, StatusIs DEF Abstract!Moves, Control
      <4>3. value = 0
        <5>1. CASE Hungry
          BY <1>3, <3>1, <5>1 DEF Settled
        <5>2. CASE ~Hungry
          BY <1>0, <1>3, <4>1, <4>2, <5>2, NoDebts DEF Hungry, Permits
        <5> QED
          BY <5>1, <5>2
      <4>4. ~Serving' /\ Sane'
        BY <2>0, <3>1, <4>1 DEF Serving
      <4> QED
        BY <4>2, <4>3, <4>4 DEF Settled
    <3> QED
      BY <3>2, <3>3
  <2>3. CASE WaitSleep(t)
    <3>1. /\ UNCHANGED ret /\ state' = [state EXCEPT ![t] = "waiting"]
          /\ pc[t] = "wait_cond" /\ pc' = [pc EXCEPT ![t] = "wait_asleep"]
      BY <2>3 DEF WaitSleep, Cond!Wait
    <3>2. value' = value
      BY <1>0, <2>3, WaitEffect
    <3>3. Hungry /\ (Serving' <=> Serving) /\ Sane'
      BY <2>0, <3>1 DEF Hungry, Serving
    <3> QED
      BY <1>3, <3>2, <3>3 DEF Settled
  <2>4. CASE WaitWoken(t)
    <3>1. /\ UNCHANGED queue /\ state' = [state EXCEPT ![t] = "running"]
          /\ ret' = [ret EXCEPT ![t] = "0"]
          /\ pc[t] = "wait_asleep" /\ pc' = [pc EXCEPT ![t] = "wait_back"]
      BY <2>0, <2>4 DEF WaitWoken, Cond!WaitReturns, Cond!End
    <3>2. value' = value
      BY <1>0, <2>4, WaitEffect
    <3>3. (Hungry' <=> Hungry) /\ (Serving' <=> Serving) /\ Sane'
      BY <2>0, <3>1 DEF Hungry, Serving
    <3> QED
      BY <1>3, <3>2, <3>3 DEF Settled
  <2>5. CASE WaitInterrupted(t)
    BY <2>0, <2>5 DEF WaitInterrupted
  <2>6. CASE WaitDone(t) \/ SignalUnlock(t)
    <3>1. /\ UNCHANGED <<queue, state, ret>> /\ value' = value
          /\ pc[t] \in {"wait_out", "wait_back", "signal_out"}
          /\ pc' = [pc EXCEPT ![t] = "idle"]
      BY <1>0, <2>6, WaitEffect, SignalEffect DEF WaitDone, SignalUnlock, Cond!Unlock
    <3>2. (Hungry' <=> Hungry) /\ (Serving' <=> Serving) /\ Sane'
      BY <2>0, <3>1 DEF Hungry, Serving
    <3> QED
      BY <1>3, <3>1, <3>2 DEF Settled
  <2>7. CASE SignalIncrement(t)
    <3>1. /\ UNCHANGED <<queue, state>> /\ ret' = [ret EXCEPT ![t] = NULL]
          /\ value' = value + 1
          /\ pc[t] = "signal_inc" /\ pc' = [pc EXCEPT ![t] = "signal_cond"]
      BY <1>0, <2>7, SignalEffect DEF SignalIncrement, Cond!Begin
    <3>2. (Hungry' <=> Hungry) /\ Serving' /\ Sane'
      BY <2>0, <3>1 DEF Hungry, Serving
    <3>3. ~Serving
      BY <1>0, <3>1, Exclusive DEF Inside, Serving
    <3> QED
      BY <1>3, <3>1, <3>2, <3>3 DEF Settled
  <2>8. CASE SignalCond(t)
    <3>1. /\ pc[t] = "signal_cond" /\ pc' = [pc EXCEPT ![t] = "signal_out"]
          /\ ret' = [ret EXCEPT ![t] = NULL]
          /\ \A y \in Threads : state'[y] \in {state[y], "signaled"}
      BY <2>8 DEF SignalCond, Cond!Signal, Cond!End, Cond!Wakes
    <3>2. Serving /\ ~Serving' /\ Sane'
      BY <1>0, <2>0, <3>1, Exclusive DEF Serving, Inside
    <3>3. \A y \in Threads : pc[y] # "wait_cond" /\ pc'[y] # "wait_cond"
      BY <1>0, <2>0, <3>1, Exclusive DEF Inside
    <3>4. CASE queue[sem_signal] = <<>>
      <4>1. ~Hungry'
        BY <2>8, <3>3, <3>4 DEF SignalCond, Cond!Signal, Hungry
      <4> QED
        BY <3>2, <4>1 DEF Settled
    <3>5. CASE queue[sem_signal] # <<>>
      <4>1. value = 1
        BY <1>3, <3>2, <3>5 DEF Settled, Hungry
      <4>2. value' = value - 1
        BY <1>0, <2>8, <3>5, SignalEffect
      <4> QED
        BY <3>2, <4>1, <4>2 DEF Settled
    <3> QED
      BY <3>4, <3>5
  <2>9. ASSUME NEW u \in Threads, InterruptBegin(t, u) \/ InterruptEnd(t, u)
        PROVE  FALSE
    BY <1>3, <2>0, <2>9 DEF InterruptBegin, InterruptEnd
  <2> QED
    BY <1>3, <2>1, <2>2, <2>3, <2>4, <2>5, <2>6, <2>7, <2>8, <2>9 DEF Step
<1> QED
  BY <1>0, <1>1, <1>2, <1>3 DEF Next, Quiet

\* sem.h:57: where nobody calls cond_interrupt, no thread sleeps in sem_wait
\* while there is a permit, for any number of threads.
THEOREM SleepersCorrect == Spec => []NoneSleepsOnPermit
<1>1. Quiet => NoneSleepsOnPermit
  BY SemAssumption DEF Quiet, Settled, Hungry, Serving, Permits, Control, Inside,
     NoneSleepsOnPermit
<1> QED
  BY <1>1, QuietInit, QuietStep, PTL DEF Spec

=============================================================================
