----------------------------- MODULE MutexProofs ----------------------------
(***************************************************************************)
(* Theorems about Mutex and AtomicSpec, for any number of threads and any  *)
(* width of a word.                                                        *)
(***************************************************************************)
EXTENDS Mutex, FiniteSetTheorems, TLAPS

-----------------------------------------------------------------------------
(* Types.                                                                  *)

\* The machine and the use of the location never change.
Rigid ==
  /\ arch \in Archs
  /\ smp \in BOOLEAN /\ irq \in BOOLEAN
  /\ use \in Uses
  /\ arch = "nios2" => cpu \in Threads

\* A thread that goes through an operation is in one.
InOperation == {"start", "store", "inten", "return", "astray"}

OpMatchesPc ==
  \A t \in Threads :
    /\ pc[t] \in InOperation <=> op[t] # NULL
    /\ op[t] # NULL =>
         op[t].name = IF use = "mutex" THEN "swap_conditional" ELSE use

\* Only ARM swaps eight bytes in two steps.
EightBytesWhole ==
  arch # "arm" /\ use = "swap8" => \A t \in Threads : pc[t] # "store"

Typed == Rigid /\ TypeOK /\ OpMatchesPc /\ EightBytesWhole

\* The values the callers use are words, and words are numbers.
LEMMA BitsAreWords == {0, 1} \subseteq Values /\ Values \subseteq Nat
BY MutexAssumption DEF Values

\* Zero, one and the first value with a high word fit in eight bytes.
LEMMA DoubleBits == {0, 1, Word} \subseteq DoubleWords
<1>1. Word \in Nat /\ Word > 1
  BY MutexAssumption
<1>2. Word * Word \in Nat /\ Word * Word > Word
  BY <1>1
<1> QED
  BY <1>1, <1>2 DEF DoubleWords

\* What is stored by an operation on words is a word, and eight bytes by one on
\* eight bytes.
LEMMA StoredType ==
  ASSUME NEW o \in Operations
  PROVE  /\ o.name = "swap8" =>
              o.val \in DoubleWords /\ \A w : Stored(o, w) = o.val
         /\ o.name # "swap8" =>
              o.val \in Values /\ \A w \in Values : Stored(o, w) \in Values
<1>1. Word \in Nat /\ Word > 0
  BY MutexAssumption
<1>2. CASE o.name = "swap8"
  BY <1>2 DEF Operations, Stored
<1>3. CASE o.name # "swap8"
  <2>1. o.val \in Values
    BY <1>3 DEF Operations
  <2>2. \A w \in Values : (w + o.val) % Word \in Values
    BY <1>1, <2>1 DEF Values
  <2> QED
    BY <1>3, <2>1, <2>2 DEF Stored
<1> QED
  BY <1>2, <1>3

\* NULL is neither a thread, nor a word, nor an operation.
LEMMA NullIsNothing ==
  NULL \notin Threads /\ NULL \notin Nat /\ NULL \notin Operations
BY MutexAssumption

\* Every variable has its type at first.
LEMMA TypedInit == Init => Typed
<1> SUFFICES ASSUME Init PROVE Typed
  OBVIOUS
<1>1. Rigid
  BY DEF Init, Rigid
<1>2. TypeOK
  BY BitsAreWords, DoubleBits DEF Init, TypeOK, Contents, Labels, MUTEX_OWNER_UNLOCKED
<1>3. OpMatchesPc /\ EightBytesWhole
  BY DEF Init, OpMatchesPc, InOperation, EightBytesWhole
<1> QED
  BY <1>1, <1>2, <1>3 DEF Typed

\* The machine and the use of the location never change.
LEMMA RigidStep == [Next]_vars => UNCHANGED rigid
BY DEF Next, vars, mutex_trylock, CallAtomic, CallSwap8, Begin, Return, mutex_unlock,
       mutex_destroy, X86Exec, X86Load, X86Store, NiosLoad, NiosPanic, NiosStore,
       NiosEnable, ArmLoad, ArmNoSwap, ArmStore, NiosSwitch

-----------------------------------------------------------------------------
\* Every step keeps the types, and a thread in an operation exactly while its
\* program counter says so.
LEMMA TypedStep == Typed /\ [Next]_vars => Typed'
<1> SUFFICES ASSUME Typed, [Next]_vars PROVE Typed'
  OBVIOUS
<1>0. UNCHANGED rigid
  BY RigidStep
<1>a. /\ Contents' = Contents /\ {0, 1} \subseteq Contents
      /\ use # "swap8" => Contents = Values
      /\ use = "swap8" => Contents = DoubleWords
  BY <1>0, BitsAreWords, DoubleBits DEF Contents, rigid
<1>b. \A t \in Threads : pc[t] \in InOperation =>
        /\ op[t] \in Operations
        /\ op[t].name = IF use = "mutex" THEN "swap_conditional" ELSE use
        /\ op[t].val \in Contents
        /\ Stored(op[t], mem) \in Contents /\ Stored(op[t], reg[t]) \in Contents
  <2> SUFFICES ASSUME NEW t \in Threads, pc[t] \in InOperation
               PROVE  /\ op[t] \in Operations
                      /\ op[t].name = IF use = "mutex" THEN "swap_conditional" ELSE use
                      /\ op[t].val \in Contents
                      /\ Stored(op[t], mem) \in Contents
                      /\ Stored(op[t], reg[t]) \in Contents
    OBVIOUS
  <2>1. /\ op[t] \in Operations
        /\ op[t].name = IF use = "mutex" THEN "swap_conditional" ELSE use
        /\ mem \in Contents /\ reg[t] \in Contents
    BY DEF Typed, TypeOK, OpMatchesPc
  <2> QED
    BY <2>1, <1>a, StoredType
<1> USE <1>0, <1>a, NullIsNothing, BitsAreWords
    DEF Typed, TypeOK, Rigid, OpMatchesPc, EightBytesWhole, InOperation, Labels, rigid,
        Goto, Settle
<1>1. CASE UNCHANGED vars
  BY <1>1 DEF vars
<1>2. ASSUME NEW t \in Threads,
             \/ mutex_trylock(t) \/ CallAtomic(t) \/ CallSwap8(t) \/ Return(t)
             \/ mutex_unlock(t) \/ mutex_destroy(t)
             \/ X86Exec(t) \/ X86Load(t) \/ X86Store(t)
             \/ NiosLoad(t) \/ NiosPanic(t) \/ NiosStore(t) \/ NiosEnable(t)
             \/ ArmLoad(t) \/ ArmNoSwap(t) \/ ArmStore(t)
      PROVE  Typed'
  <2>1. ASSUME NEW o \in Operations, Begin(t, "idle", o),
               o.name = IF use = "mutex" THEN "swap_conditional" ELSE use
        PROVE  Typed'
    <3>1. /\ op' = [op EXCEPT ![t] = o] /\ pc' = [pc EXCEPT ![t] = "start"]
          /\ res' = [res EXCEPT ![t] = NULL]
          /\ UNCHANGED <<rigid, mem, reg, excl, pie, cpu, panicked>>
      BY <2>1 DEF Begin
    <3>2. z' \in [Threads -> BOOLEAN]
      <4>1. PICK flag \in BOOLEAN : z' = [z EXCEPT ![t] = flag]
        BY <2>1 DEF Begin
      <4> QED
        BY <4>1
    <3>3. TypeOK'
      BY <3>1, <3>2
    <3>4. OpMatchesPc' /\ EightBytesWhole'
      BY <2>1, <3>1
    <3> QED
      BY <3>1, <3>3, <3>4
  <2>2. CASE mutex_trylock(t)
    <3>1. [name |-> "swap_conditional", val |-> 1, old |-> MUTEX_OWNER_UNLOCKED]
            \in Operations
      BY DEF Operations, MUTEX_OWNER_UNLOCKED
    <3> QED
      BY <2>2, <2>1, <3>1 DEF mutex_trylock
  <2>3. CASE CallAtomic(t)
    <3>1. PICK val, old \in {0, 1} :
            Begin(t, "idle", [name |-> use, val |-> val, old |-> old])
      BY <2>3 DEF CallAtomic
    <3>2. [name |-> use, val |-> val, old |-> old] \in Operations
      BY <2>3 DEF CallAtomic, Operations
    <3> QED
      BY <2>3, <2>1, <3>1, <3>2 DEF CallAtomic
  <2>4. CASE CallSwap8(t)
    <3>1. PICK val, old \in {0, 1, Word}, beside \in {0, 1} :
            Begin(t, "idle", [name |-> "swap8", val |-> val, old |-> old,
                              beside |-> beside])
      BY <2>4 DEF CallSwap8
    <3>2. [name |-> "swap8", val |-> val, old |-> old, beside |-> beside] \in Operations
      BY DoubleBits DEF Operations
    <3> QED
      BY <2>4, <2>1, <3>1, <3>2 DEF CallSwap8
  <2>5. CASE Return(t)
    BY <2>5 DEF Return
  <2>6. CASE mutex_unlock(t)
    BY <2>6 DEF mutex_unlock, StoreMem, MUTEX_OWNER_UNLOCKED
  <2>7. CASE mutex_destroy(t)
    BY <2>7 DEF mutex_destroy, mutex_is_locked
  \* The steps that store: what they store and settle has the right size.
  <2>8. ASSUME NEW from \in InOperation, NEW to \in InOperation, Goto(t, from, to),
               arch = "arm" \/ to # "store",
               mem' \in Contents, excl' \in [Threads -> BOOLEAN],
               z' \in [Threads -> BOOLEAN], res' \in [Threads -> Values \cup {NULL}],
               UNCHANGED <<rigid, op, reg, pie, cpu, panicked>>
        PROVE  Typed'
    BY <2>8
  <2>9. CASE X86Exec(t)
    <3>1. /\ mem' \in Contents /\ excl' \in [Threads -> BOOLEAN]
      <4>1. \/ \E val \in Contents : StoreMem(t, val)
            \/ UNCHANGED <<mem, excl>>
        BY <2>9, <1>b DEF X86Exec
      <4> QED
        BY <4>1 DEF StoreMem
    <3>2. res' \in [Threads -> Values \cup {NULL}]
      <4>1. Conditional(op[t]) \/ mem \in Values
        BY <2>9, <1>b DEF X86Exec, Conditional
      <4> QED
        BY <2>9, <4>1 DEF X86Exec, XCHG_SUCCESS, XCHG_FAILURE
    <3> QED
      BY <2>9, <2>8, <3>1, <3>2 DEF X86Exec
  <2>10. CASE X86Load(t)
    BY <2>10, <1>b DEF X86Load, Split
  <2>11. CASE X86Store(t)
    <3>1. reg[t] \in Values /\ Stored(op[t], reg[t]) \in Contents
      BY <2>11, <1>b DEF X86Store
    <3> QED
      BY <2>11, <2>8, <3>1 DEF X86Store, StoreMem
  <2>12. CASE NiosLoad(t)
    BY <2>12, <1>b DEF NiosLoad
  <2>13. CASE NiosPanic(t)
    BY <2>13 DEF NiosPanic
  <2>14. CASE NiosStore(t)
    <3>1. use # "swap8" /\ reg[t] \in Values /\ op[t].val \in Values
      BY <2>14, <1>b DEF NiosStore
    <3>2. (reg[t] + 1) % Word \in Values
      BY <3>1, MutexAssumption DEF Values
    <3>3. \E val \in Values : Settle(t, val)
      BY <2>14, <3>1, <3>2 DEF NiosStore, XCHG_SUCCESS
    <3>4. \/ \E val \in Values : StoreMem(t, val)
          \/ UNCHANGED <<mem, excl>>
      BY <2>14, <3>1, <3>2 DEF NiosStore
    <3>5. mem' \in Contents /\ excl' \in [Threads -> BOOLEAN]
      BY <3>1, <3>4 DEF StoreMem
    <3>6. res' \in [Threads -> Values \cup {NULL}]
      BY <3>3
    <3>7. /\ Goto(t, "store", "inten") /\ z' \in [Threads -> BOOLEAN]
          /\ UNCHANGED <<rigid, op, reg, pie, cpu, panicked>>
      BY <2>14 DEF NiosStore
    <3>8. "store" \in InOperation /\ "inten" \in InOperation
      OBVIOUS
    <3> HIDE DEF Goto, InOperation, Typed
    <3> QED
      BY <2>8, <3>5, <3>6, <3>7, <3>8
  <2>15. CASE NiosEnable(t)
    BY <2>15 DEF NiosEnable
  <2>16. CASE ArmLoad(t)
    BY <2>16 DEF ArmLoad
  <2>17. CASE ArmNoSwap(t)
    BY <2>17 DEF ArmNoSwap, XCHG_FAILURE
  <2>18. CASE ArmStore(t)
    <3>1. ArmDone(t) \in BOOLEAN /\ AfterStore(t) \in InOperation
      BY DEF ArmDone, Conditional, AfterStore
    <3>2. mem' \in Contents /\ excl' \in [Threads -> BOOLEAN]
      <4>1. ArmStored(t) \in Contents
        BY <2>18, <1>b DEF ArmStore, ArmStored
      <4>2. \/ StoreMem(t, ArmStored(t))
            \/ UNCHANGED <<mem, excl>>
        BY <2>18 DEF ArmStore
      <4> QED
        BY <4>1, <4>2 DEF StoreMem
    <3>3. /\ op[t].name \in {"swap_conditional", "swap8", "swap", "add"}
          /\ op[t].name # "swap8" => Contents = Values
      BY <2>18, <1>b DEF ArmStore, Operations
    <3>4. res' \in [Threads -> Values \cup {NULL}]
      BY <2>18, <1>b, <3>3 DEF ArmStore, Conditional, XCHG_SUCCESS
    <3>5. z' \in [Threads -> BOOLEAN]
      BY <2>18, <3>1 DEF ArmStore
    <3>6. /\ arch = "arm" /\ Goto(t, "store", AfterStore(t))
          /\ UNCHANGED <<rigid, op, reg, pie, cpu, panicked>>
      BY <2>18 DEF ArmStore
    <3>7. "store" \in InOperation
      OBVIOUS
    <3> HIDE DEF Goto, InOperation, Typed
    <3> QED
      BY <2>8, <3>1, <3>2, <3>4, <3>5, <3>6, <3>7
  <2> QED
    BY <1>2, <2>2, <2>3, <2>4, <2>5, <2>6, <2>7, <2>9, <2>10, <2>11, <2>12, <2>13, <2>14,
       <2>15, <2>16, <2>17, <2>18
<1>3. CASE NiosSwitch
  BY <1>3 DEF NiosSwitch
<1> QED
  BY <1>1, <1>2, <1>3 DEF Next

\* The variables keep their types, on every machine and for every use of the
\* location (mutex.c and atomic.S never leave a word's range).
THEOREM TypeCorrect == Spec => []TypeOK
<1>1. Typed => TypeOK
  BY DEF Typed
<1> QED
  BY <1>1, TypedInit, TypedStep, PTL DEF Spec

-----------------------------------------------------------------------------
(* Mutual exclusion.  OwnerMatchesHolder is not inductive: what a thread   *)
(* of Nios II stores depends on nobody having stored since it loaded,      *)
(* which holds because the others do not run; and what the threads swap in *)
(* is what mutex_trylock asks for.                                         *)

Holds(t) ==
  \/ pc[t] = "critical"
  \/ pc[t] \in {"inten", "return"} /\ res[t] = XCHG_SUCCESS

\* Every operation is the one of mutex_trylock.
TriesToLock ==
  \A t \in Threads : op[t] # NULL =>
    op[t].val = 1 /\ op[t].old = MUTEX_OWNER_UNLOCKED

\* The exchange of x86 is one step.
X86Whole == arch = "x86" => \A t \in Threads : pc[t] \notin {"store", "inten"}

\* Without interrupts only the running thread of Nios II is in an operation, so
\* that what it has loaded is still there.
NiosAlone ==
  arch = "nios2" => \A t \in Threads :
    /\ ~pie[t]
    /\ t # cpu => pc[t] \in {"idle", "critical"}
    /\ pc[t] = "store" => reg[t] = mem

HeldWhileLocked ==
  /\ mem \in {0, 1}
  /\ mutex_is_locked <=> \E t \in Threads : Holds(t)
  /\ \A t, u \in Threads : Holds(t) /\ Holds(u) => t = u

InvBody == TriesToLock /\ X86Whole /\ NiosAlone /\ HeldWhileLocked /\ ~panicked

OwnerInv == Sound /\ use = "mutex" => InvBody

\* The invariant says what OwnerMatchesHolder says: no holder or exactly one.
LEMMA InvImpliesOwner == OwnerInv => OwnerMatchesHolder
<1> SUFFICES ASSUME OwnerInv, Sound, use = "mutex"
             PROVE  /\ Cardinality(Holders) = IF mutex_is_locked THEN 1 ELSE 0
                    /\ ~panicked
  BY DEF OwnerMatchesHolder
<1>0. InvBody
  BY DEF OwnerInv
<1>1. \A t \in Threads : t \in Holders <=> Holds(t)
  BY DEF Holders, Holds
<1>2. CASE mutex_is_locked
  <2>1. PICK t \in Threads : Holds(t)
    BY <1>0, <1>2 DEF InvBody, HeldWhileLocked
  <2>2. Holders = {t}
    BY <1>0, <2>1, <1>1 DEF InvBody, HeldWhileLocked, Holders
  <2> QED
    BY <1>0, <1>2, <2>2, FS_Singleton DEF InvBody
<1>3. CASE ~mutex_is_locked
  <2>1. Holders = {}
    BY <1>0, <1>3, <1>1 DEF InvBody, HeldWhileLocked, Holders
  <2> QED
    BY <1>0, <1>3, <2>1, FS_EmptySet DEF InvBody
<1> QED
  BY <1>0, <1>2, <1>3 DEF InvBody

\* At first the mutex is free and nobody is about to have it.
LEMMA OwnerInvInit == Init => OwnerInv
<1> SUFFICES ASSUME Init, Sound PROVE InvBody
  BY DEF OwnerInv
<1>1. TriesToLock /\ X86Whole /\ ~panicked
  BY DEF Init, TriesToLock, X86Whole
<1>2. NiosAlone
  BY DEF Init, Sound, NiosAlone
<1>3. HeldWhileLocked
  BY DEF Init, HeldWhileLocked, Holds, mutex_is_locked, MUTEX_OWNER_UNLOCKED
<1> QED
  BY <1>1, <1>2, <1>3 DEF InvBody

\* No step of a thread, and no switch to another one, breaks the invariant.
LEMMA OwnerInvStep == Typed /\ OwnerInv /\ [Next]_vars => OwnerInv'
<1> SUFFICES ASSUME Typed, OwnerInv, [Next]_vars PROVE OwnerInv'
  OBVIOUS
<1>0. UNCHANGED rigid
  BY RigidStep
<1> SUFFICES ASSUME Sound, use = "mutex" PROVE InvBody'
  BY <1>0 DEF OwnerInv, Sound, rigid
<1>a. InvBody
  BY DEF OwnerInv
<1>b. arch \in {"x86", "nios2"}
  BY MutexAssumption DEF Sound, Typed, Rigid
<1>c. \A t \in Threads : op[t] # NULL => op[t].name = "swap_conditional"
  BY DEF Typed, OpMatchesPc
<1> USE <1>0, <1>a, <1>b, <1>c, NullIsNothing
    DEF InvBody, TriesToLock, X86Whole, NiosAlone, HeldWhileLocked, Holds, Typed, TypeOK,
        Rigid, rigid, Goto, Settle, mutex_is_locked, MUTEX_OWNER_UNLOCKED,
        XCHG_SUCCESS, XCHG_FAILURE
<1>1. CASE UNCHANGED vars
  BY <1>1 DEF vars
<1>2. ASSUME NEW t \in Threads, mutex_trylock(t)
      PROVE  InvBody'
  BY <1>2 DEF mutex_trylock, Begin
<1>3. ASSUME NEW t \in Threads, Return(t)
      PROVE  InvBody'
  BY <1>3 DEF Return
<1>4. ASSUME NEW t \in Threads, mutex_unlock(t)
      PROVE  InvBody'
  <2>1. mem' = 0 /\ res' = res /\ pc' = [pc EXCEPT ![t] = "idle"]
    BY <1>4 DEF mutex_unlock, StoreMem
  <2>2. \A u \in Threads : (Holds(u) => u = t) /\ ~Holds(u)'
    <3>1. Holds(t)
      BY <1>4 DEF mutex_unlock
    <3> QED
      BY <2>1, <3>1
  <2> QED
    BY <1>4, <2>1, <2>2 DEF mutex_unlock
<1>5. ASSUME NEW t \in Threads, mutex_destroy(t)
      PROVE  InvBody'
  BY <1>5 DEF mutex_destroy
<1>6. ASSUME NEW t \in Threads, X86Exec(t)
      PROVE  InvBody'
  <2>1. /\ op[t].name = "swap_conditional" /\ op[t].val = 1 /\ op[t].old = 0
    BY <1>6 DEF X86Exec, OpMatchesPc, InOperation
  <2>2. CASE mem = 0
    <3>1. mem' = 1 /\ res' = [res EXCEPT ![t] = 0] /\ pc' = [pc EXCEPT ![t] = "return"]
      BY <1>6, <2>1, <2>2 DEF X86Exec, StoreMem, Conditional
    <3>2. \A u \in Threads : ~Holds(u) /\ (Holds(u)' <=> u = t)
      BY <2>2, <3>1
    <3> QED
      BY <1>6, <3>1, <3>2 DEF X86Exec
  <2>3. CASE mem # 0
    <3>1. mem' = mem /\ res' = [res EXCEPT ![t] = 1] /\ pc' = [pc EXCEPT ![t] = "return"]
      BY <1>6, <2>1, <2>3 DEF X86Exec, Conditional
    <3>2. \A u \in Threads : Holds(u)' <=> Holds(u)
      BY <1>6, <3>1 DEF X86Exec
    <3> QED
      BY <1>6, <3>1, <3>2 DEF X86Exec
  <2> QED
    BY <2>2, <2>3
<1>7. ASSUME NEW t \in Threads, NiosLoad(t)
      PROVE  InvBody'
  BY <1>7 DEF NiosLoad
<1>8. ASSUME NEW t \in Threads, NiosStore(t)
      PROVE  InvBody'
  <2>1. /\ op[t].name = "swap_conditional" /\ op[t].val = 1 /\ op[t].old = 0
        /\ reg[t] = mem
    BY <1>8 DEF NiosStore, OpMatchesPc, InOperation
  <2>2. CASE mem = 0
    <3>1. mem' = 1 /\ res' = [res EXCEPT ![t] = 0] /\ pc' = [pc EXCEPT ![t] = "inten"]
      BY <1>8, <2>1, <2>2 DEF NiosStore, StoreMem
    <3>2. \A u \in Threads : ~Holds(u) /\ (Holds(u)' <=> u = t)
      BY <2>2, <3>1
    <3> QED
      BY <1>8, <3>1, <3>2 DEF NiosStore
  <2>3. CASE mem # 0
    <3>1. mem' = mem /\ res' = [res EXCEPT ![t] = mem] /\ pc' = [pc EXCEPT ![t] = "inten"]
      BY <1>8, <2>1, <2>3 DEF NiosStore
    <3>2. \A u \in Threads : Holds(u)' <=> Holds(u)
      BY <1>8, <2>3, <3>1 DEF NiosStore
    <3> QED
      BY <1>8, <3>1, <3>2 DEF NiosStore
  <2> QED
    BY <2>2, <2>3
<1>9. ASSUME NEW t \in Threads, NiosEnable(t)
      PROVE  InvBody'
  BY <1>9 DEF NiosEnable
<1>10. CASE NiosSwitch
  BY <1>10 DEF NiosSwitch
<1>11. ASSUME NEW t \in Threads,
              \/ CallAtomic(t) \/ CallSwap8(t) \/ X86Load(t) \/ X86Store(t)
              \/ NiosPanic(t) \/ ArmLoad(t) \/ ArmNoSwap(t) \/ ArmStore(t)
       PROVE  FALSE
  BY <1>11 DEF CallAtomic, CallSwap8, X86Load, X86Store, NiosPanic, ArmLoad, ArmNoSwap, ArmStore,
               Split, OpMatchesPc, InOperation
<1> QED
  BY <1>1, <1>2, <1>3, <1>4, <1>5, <1>6, <1>7, <1>8, <1>9, <1>10, <1>11 DEF Next

\* Where the operations are sound, the mutex is locked exactly while one thread
\* has it, and mutex_destroy never panics (mutex.c:32-69): for any number of
\* threads.
THEOREM OwnerCorrect == Spec => []OwnerMatchesHolder
<1>1. Init => Typed /\ OwnerInv
  BY TypedInit, OwnerInvInit
<1>2. Typed /\ OwnerInv /\ [Next]_vars => (Typed /\ OwnerInv)'
  BY TypedStep, OwnerInvStep
<1>3. OwnerInv => OwnerMatchesHolder
  BY InvImpliesOwner
<1> QED
  BY <1>1, <1>2, <1>3, PTL DEF Spec

-----------------------------------------------------------------------------
(* The refinement of AtomicSpec rests on this: a thread has settled what   *)
(* its operation returns exactly when it has acted, and what it has loaded *)
(* is still there when it stores.                                          *)

SettledWhenActed ==
  \A t \in Threads :
    /\ pc[t] \in {"start", "store"} => res[t] = NULL
    /\ pc[t] \in {"inten", "return"} => res[t] # NULL

AtomBody == X86Whole /\ NiosAlone /\ SettledWhenActed

AtomInv == Sound => AtomBody

\* At first no thread is in an operation.
LEMMA AtomInvInit == Init => AtomInv
<1> SUFFICES ASSUME Init, Sound PROVE AtomBody
  BY DEF AtomInv
<1>1. X86Whole /\ SettledWhenActed
  BY DEF Init, X86Whole, SettledWhenActed
<1>2. NiosAlone
  BY DEF Init, Sound, NiosAlone
<1> QED
  BY <1>1, <1>2 DEF AtomBody

\* No step breaks it.
LEMMA AtomInvStep == Typed /\ AtomInv /\ [Next]_vars => AtomInv'
<1> SUFFICES ASSUME Typed, AtomInv, [Next]_vars PROVE AtomInv'
  OBVIOUS
<1>0. UNCHANGED rigid
  BY RigidStep
<1> SUFFICES ASSUME Sound PROVE AtomBody'
  BY <1>0 DEF AtomInv, Sound, rigid
<1>a. AtomBody
  BY DEF AtomInv
<1>b. \A t \in Threads : pc[t] \in InOperation =>
        op[t].name = IF use = "mutex" THEN "swap_conditional" ELSE use
  BY DEF Typed, OpMatchesPc
<1>c. mem # NULL /\ \A t \in Threads : reg[t] # NULL
  <2>1. Contents \subseteq Nat
    BY BitsAreWords, MutexAssumption DEF Contents, DoubleWords
  <2> QED
    BY <2>1, NullIsNothing DEF Typed, TypeOK
<1> USE <1>0, <1>a, <1>c, NullIsNothing
    DEF AtomBody, X86Whole, NiosAlone, SettledWhenActed, Typed, TypeOK, Rigid,
        rigid, Goto, Settle
<1>1. CASE UNCHANGED vars
  BY <1>1 DEF vars
<1>2. ASSUME NEW t \in Threads, NEW o, Begin(t, "idle", o)
      PROVE  AtomBody'
  BY <1>2 DEF Begin
<1>3. ASSUME NEW t \in Threads, mutex_trylock(t) \/ CallAtomic(t) \/ CallSwap8(t)
      PROVE  AtomBody'
  BY <1>2, <1>3 DEF mutex_trylock, CallAtomic, CallSwap8
<1>4. ASSUME NEW t \in Threads, Return(t)
      PROVE  AtomBody'
  BY <1>4 DEF Return
<1>5. ASSUME NEW t \in Threads, mutex_unlock(t)
      PROVE  AtomBody'
  BY <1>5 DEF mutex_unlock, StoreMem
<1>6. ASSUME NEW t \in Threads, mutex_destroy(t)
      PROVE  AtomBody'
  BY <1>6 DEF mutex_destroy
<1>7. ASSUME NEW t \in Threads, X86Exec(t)
      PROVE  AtomBody'
  BY <1>7, MutexAssumption DEF X86Exec, StoreMem, XCHG_SUCCESS, XCHG_FAILURE
<1>8. ASSUME NEW t \in Threads, X86Load(t) \/ X86Store(t)
      PROVE  FALSE
  BY <1>8, <1>b DEF X86Load, X86Store, Split, Sound, InOperation
<1>9. ASSUME NEW t \in Threads, NiosLoad(t)
      PROVE  AtomBody'
  BY <1>9 DEF NiosLoad
<1>10. ASSUME NEW t \in Threads, NiosPanic(t)
       PROVE  AtomBody'
  BY <1>10 DEF NiosPanic
<1>11. ASSUME NEW t \in Threads, NiosStore(t)
       PROVE  AtomBody'
  BY <1>11, <1>b DEF NiosStore, Sound, InOperation, StoreMem, XCHG_SUCCESS
<1>12. ASSUME NEW t \in Threads, NiosEnable(t)
       PROVE  AtomBody'
  BY <1>12 DEF NiosEnable
<1>13. ASSUME NEW t \in Threads, ArmLoad(t) \/ ArmNoSwap(t) \/ ArmStore(t)
       PROVE  FALSE
  BY <1>13 DEF ArmLoad, ArmNoSwap, ArmStore, Sound
<1>14. CASE NiosSwitch
  BY <1>14 DEF NiosSwitch
<1> QED
  BY <1>1, <1>3, <1>4, <1>5, <1>6, <1>7, <1>8, <1>9, <1>10, <1>11, <1>12, <1>13,
     <1>14 DEF Next

-----------------------------------------------------------------------------
(* The refinement.                                                         *)

\* The initial states are those of AtomicSpec.
LEMMA RefinesInit == Init /\ Sound => Abstract!Init
<1> SUFFICES ASSUME Init, Sound PROVE Abstract!Init
  OBVIOUS
<1> QED
  BY DEF Init, Abstract!Init, MUTEX_OWNER_UNLOCKED

\* Every step is a call, an operation acting at once, a return, the store of
\* mutex_unlock, or changes nothing AtomicSpec sees.
LEMMA RefinesStep ==
  Typed /\ OwnerInv /\ AtomInv /\ Sound /\ [Next]_vars =>
    Abstract!Next \/ UNCHANGED <<mem, op, res>>
<1> SUFFICES ASSUME Typed, OwnerInv, AtomInv, Sound, [Next]_vars
             PROVE  Abstract!Next \/ UNCHANGED <<mem, op, res>>
  OBVIOUS
<1>0. UNCHANGED rigid
  BY RigidStep
<1>a. AtomBody /\ (use = "mutex" => InvBody)
  BY DEF AtomInv, OwnerInv
<1>b. \A t \in Threads : pc[t] \in InOperation =>
        /\ op[t] \in Operations
        /\ op[t].name = IF use = "mutex" THEN "swap_conditional" ELSE use
  BY DEF Typed, OpMatchesPc, TypeOK
<1>c. \A t \in Threads : pc[t] \in InOperation <=> op[t] # NULL
  BY DEF Typed, OpMatchesPc
<1> USE <1>0, <1>a, NullIsNothing
    DEF Typed, TypeOK, Rigid, rigid, Goto, Settle, AtomBody, SettledWhenActed, InOperation
<1>1. CASE UNCHANGED vars
  BY <1>1 DEF vars
<1>2. ASSUME NEW t \in Threads, NEW o \in Operations, Begin(t, "idle", o)
      PROVE  Abstract!Call(t)
  BY <1>2, <1>c DEF Begin, Abstract!Call
<1>3. ASSUME NEW t \in Threads, mutex_trylock(t) \/ CallAtomic(t) \/ CallSwap8(t)
      PROVE  Abstract!Call(t)
  <2>1. CASE mutex_trylock(t)
    BY <2>1, <1>2, BitsAreWords DEF mutex_trylock, Operations, MUTEX_OWNER_UNLOCKED
  <2>2. CASE CallAtomic(t)
    BY <2>2, <1>2, BitsAreWords DEF CallAtomic, Operations
  <2>3. CASE CallSwap8(t)
    BY <2>3, <1>2, BitsAreWords, DoubleBits DEF CallSwap8, Operations
  <2> QED
    BY <1>3, <2>1, <2>2, <2>3
<1>4. ASSUME NEW t \in Threads, Return(t)
      PROVE  Abstract!Return(t)
  BY <1>4, <1>c DEF Return, Abstract!Return
<1>5. ASSUME NEW t \in Threads, mutex_unlock(t)
      PROVE  Abstract!Store
  BY <1>5, <1>c DEF mutex_unlock, StoreMem, MUTEX_OWNER_UNLOCKED, Abstract!Store
<1>6. ASSUME NEW t \in Threads, mutex_destroy(t)
      PROVE  UNCHANGED <<mem, op, res>>
  BY <1>6 DEF mutex_destroy
<1>7. ASSUME NEW t \in Threads, X86Exec(t)
      PROVE  Abstract!Act(t)
  BY <1>7, <1>b, <1>c DEF X86Exec, StoreMem, Stored, Conditional, Operations,
     XCHG_SUCCESS, XCHG_FAILURE, Abstract!Act, Abstract!NewValue, Abstract!Result
<1>8. ASSUME NEW t \in Threads, X86Load(t) \/ X86Store(t)
      PROVE  FALSE
  BY <1>8, <1>b DEF X86Load, X86Store, Split, Sound, X86Whole
<1>9. ASSUME NEW t \in Threads, NiosLoad(t) \/ NiosPanic(t) \/ NiosEnable(t)
      PROVE  UNCHANGED <<mem, op, res>>
  BY <1>9 DEF NiosLoad, NiosPanic, NiosEnable
<1>10. ASSUME NEW t \in Threads, NiosStore(t)
       PROVE  Abstract!Act(t)
  BY <1>10, <1>b, <1>c DEF NiosStore, Sound, NiosAlone, StoreMem, Operations,
     InvBody, TriesToLock, HeldWhileLocked, MUTEX_OWNER_UNLOCKED,
     XCHG_SUCCESS, Abstract!Act, Abstract!NewValue, Abstract!Result
<1>11. ASSUME NEW t \in Threads, ArmLoad(t) \/ ArmNoSwap(t) \/ ArmStore(t)
       PROVE  FALSE
  BY <1>11 DEF ArmLoad, ArmNoSwap, ArmStore, Sound
<1>12. CASE NiosSwitch
  BY <1>12 DEF NiosSwitch
<1> QED
  BY <1>1, <1>3, <1>4, <1>5, <1>6, <1>7, <1>8, <1>9, <1>10, <1>11, <1>12
     DEF Next, Abstract!Next

\* Where the operations are sound they act at once, whatever the interleaving:
\* Mutex implements AtomicSpec (include/timix/atomic.h).
THEOREM AtomicCorrect == Spec => ImplementsAtomic
<1>1. Init => Typed /\ OwnerInv /\ AtomInv
  BY TypedInit, OwnerInvInit, AtomInvInit
<1>2. Typed /\ OwnerInv /\ AtomInv /\ [Next]_vars => (Typed /\ OwnerInv /\ AtomInv)'
  BY TypedStep, OwnerInvStep, AtomInvStep
<1>3. Init => (Sound => Abstract!Init)
  BY RefinesInit
<1>4. Typed /\ OwnerInv /\ AtomInv /\ [Next]_vars =>
        [Sound => Abstract!Next]_<<mem, op, res>>
  BY RefinesStep
<1> QED
  BY <1>1, <1>2, <1>3, <1>4, PTL DEF Spec, ImplementsAtomic

=============================================================================
