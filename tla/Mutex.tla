-------------------------------- MODULE Mutex -------------------------------
(***************************************************************************)
(* Mutexes of kernel/mutex.c on the atomic operations of the three         *)
(* architectures (arch/*/kernel/atomic.S), instruction by instruction      *)
(* where other threads can come in between.                                *)
(*                                                                         *)
(* One location is shared: the owner of a mutex, or a word that the        *)
(* threads swap, compare and swap as eight bytes, or add to.               *)
(***************************************************************************)
EXTENDS Naturals, FiniteSets

CONSTANTS
  Threads,
  Archs,  \* those of "x86", "arm" and "nios2" the kernel is built for
  Uses,   \* what the threads may do with the location
  Word,   \* 2^32: the number of values of a word
  NULL

Values == 0..(Word - 1)

\* Eight bytes: the low word, and the high one times Word.
DoubleWords == 0..(Word * Word - 1)
Low(v)  == v % Word
High(v) == v \div Word

\* A call on eight bytes has arguments on its caller's stack; beside is the word
\* behind oldhi, the last of them.
Operations ==
  [name : {"swap_conditional", "swap", "add"}, val : Values, old : Values]
    \cup [name : {"swap8"}, val : DoubleWords, old : DoubleWords, beside : Values]

ASSUME MutexAssumption ==
  /\ Archs \subseteq {"x86", "arm", "nios2"}
  /\ Uses \subseteq {"mutex", "swap", "swap8", "add"}
  /\ Word \in Nat \ {0, 1}
  /\ NULL \notin Threads \cup Nat \cup Operations

VARIABLES
  arch, smp,  \* the machine, and whether it has several processors
  irq,        \* whether its interrupts are on at first
  use,        \* what the threads do with the location
  mem,        \* the location
  pc,         \* where each thread is
  op,         \* the atomic operation it is in, or NULL
  reg,        \* the value it has loaded
  res,        \* what its last operation returns, NULL until that is settled
  z,          \* ARM: its Z flag
  excl,       \* ARM: whether its exclusive access still stands
  pie,        \* Nios II: its interrupt enable bit
  cpu,        \* Nios II: the thread that runs
  panicked

rigid == <<arch, smp, irq, use>>  \* never change
vars == <<rigid, mem, pc, op, reg, res, z, excl, pie, cpu, panicked>>

MUTEX_OWNER_UNLOCKED == 0  \* NULL
XCHG_SUCCESS == 0
XCHG_FAILURE == 1

Labels == {"idle", "start", "store", "inten", "return", "astray", "critical"}

Contents == IF use = "swap8" THEN DoubleWords ELSE Values

TypeOK ==
  /\ mem \in Contents
  /\ pc \in [Threads -> Labels]
  /\ op \in [Threads -> Operations \cup {NULL}]
  /\ reg \in [Threads -> Contents]
  /\ res \in [Threads -> Values \cup {NULL}]
  /\ {z, excl, pie} \subseteq [Threads -> BOOLEAN]
  /\ panicked \in BOOLEAN

\* mutex_init; the flags and the interrupt enable bit are as the caller has them.
Init ==
  /\ arch \in Archs
  /\ smp \in IF arch = "nios2" THEN {FALSE} ELSE BOOLEAN
  /\ use \in Uses
  /\ mem  = MUTEX_OWNER_UNLOCKED
  /\ pc   = [t \in Threads |-> "idle"]
  /\ op   = [t \in Threads |-> NULL]
  /\ reg  = [t \in Threads |-> 0]
  /\ res  = [t \in Threads |-> NULL]
  /\ z    = [t \in Threads |-> FALSE]
  /\ excl = [t \in Threads |-> FALSE]
  /\ irq \in IF arch = "nios2" THEN BOOLEAN ELSE {TRUE}
  /\ pie  = [t \in Threads |-> irq]
  /\ cpu \in IF arch = "nios2" THEN Threads ELSE {NULL}
  /\ panicked = FALSE

-----------------------------------------------------------------------------
(* Faulty variants of the operations below: each breaks a property.        *)

\* Adds without the wrap of a register.
AddsWithoutWrap(o, m) == IF o.name = "add" THEN m + o.val ELSE o.val

\* Leaves the mutex locked.
NeverUnlocks(t) ==
  /\ ~panicked /\ pc[t] = "critical"
  /\ pc' = [pc EXCEPT ![t] = "idle"]
  /\ UNCHANGED <<rigid, mem, op, reg, res, z, excl, pie, cpu, panicked>>

\* Exchanges by a load and a store (no lock prefix on either exchange).
SplitsSwaps(t) == op[t].name \in {"add", "swap"} /\ smp

-----------------------------------------------------------------------------
(* Steps of the threads.                                                   *)

\* On the one processor of a Nios II only the running thread takes steps.
Goto(t, from, to) ==
  /\ ~panicked
  /\ arch = "nios2" => cpu = t
  /\ pc[t] = from
  /\ pc' = [pc EXCEPT ![t] = to]

Settle(t, val) == res' = [res EXCEPT ![t] = val]

\* A store ends the exclusive accesses of the other threads.
StoreMem(t, val) ==
  /\ mem' = val
  /\ excl' = [u \in Threads |-> FALSE]

-----------------------------------------------------------------------------
(* The callers.                                                            *)

\* A call; on ARM the caller's last comparison left the Z flag either way.
Begin(t, from, o) ==
  /\ Goto(t, from, "start")
  /\ op' = [op EXCEPT ![t] = o]
  /\ Settle(t, NULL)
  /\ \E flag \in IF arch = "arm" THEN BOOLEAN ELSE {FALSE} : z' = [z EXCEPT ![t] = flag]
  /\ UNCHANGED <<rigid, mem, reg, excl, pie, cpu, panicked>>

mutex_trylock(t) ==
  /\ use = "mutex"
  /\ Begin(t, "idle", [name |-> "swap_conditional", val |-> 1,
                       old |-> MUTEX_OWNER_UNLOCKED])

CallAtomic(t) ==
  /\ use \in {"swap", "add"}
  /\ \E val, old \in {0, 1} :
       Begin(t, "idle", [name |-> use, val |-> val, old |-> old])

\* Values that differ in either word.
CallSwap8(t) ==
  /\ use = "swap8"
  /\ \E val, old \in {0, 1, Word}, beside \in {0, 1} :
       Begin(t, "idle", [name |-> "swap8", val |-> val, old |-> old, beside |-> beside])

\* mutex_lock tries again until it succeeds; the others are done.
Return(t) ==
  /\ Goto(t, "return", IF use = "mutex" /\ res[t] = XCHG_SUCCESS THEN "critical"
                                                                ELSE "idle")
  /\ op'  = [op EXCEPT ![t] = NULL]
  /\ reg' = [reg EXCEPT ![t] = 0]
  /\ z'   = [z EXCEPT ![t] = FALSE]
  /\ UNCHANGED <<rigid, mem, res, excl, pie, cpu, panicked>>

mutex_unlock(t) ==
  /\ Goto(t, "critical", "idle")
  /\ StoreMem(t, MUTEX_OWNER_UNLOCKED)
  /\ UNCHANGED <<rigid, op, reg, res, z, pie, cpu, panicked>>

mutex_is_locked == mem # MUTEX_OWNER_UNLOCKED

\* The last user destroys the mutex, once nobody is in it or about to be: an
\* assertion, and memory that may be initialized as a mutex again.
mutex_destroy(t) ==
  /\ use = "mutex"
  /\ \A u \in Threads : pc[u] = "idle"
  /\ Goto(t, "idle", "idle")
  /\ panicked' = mutex_is_locked
  /\ UNCHANGED <<rigid, mem, op, reg, res, z, excl, pie, cpu>>

-----------------------------------------------------------------------------
(* x86.  The exchanges are one locked instruction each.                    *)

\* What a store of the operation writes.
Stored(o, m) == IF o.name = "add" THEN (m + o.val) % Word ELSE o.val

Conditional(o) == o.name \in {"swap_conditional", "swap8"}

Split(t) == op[t].name = "add" /\ smp

X86Exec(t) ==
  /\ arch = "x86" /\ Goto(t, "start", "return")
  /\ ~Split(t)
  /\ IF Conditional(op[t])
     THEN IF mem = op[t].old
          THEN StoreMem(t, op[t].val) /\ Settle(t, XCHG_SUCCESS)
          ELSE Settle(t, XCHG_FAILURE) /\ UNCHANGED <<mem, excl>>
     ELSE StoreMem(t, Stored(op[t], mem)) /\ Settle(t, mem)
  /\ UNCHANGED <<rigid, op, reg, z, pie, cpu, panicked>>

\* xadd has no lock prefix: another processor may come in between.
X86Load(t) ==
  /\ arch = "x86" /\ Goto(t, "start", "store")
  /\ Split(t)
  /\ reg' = [reg EXCEPT ![t] = mem]
  /\ UNCHANGED <<rigid, mem, op, res, z, excl, pie, cpu, panicked>>

X86Store(t) ==
  /\ arch = "x86" /\ Goto(t, "store", "return")
  /\ StoreMem(t, Stored(op[t], reg[t]))
  /\ Settle(t, reg[t])
  /\ UNCHANGED <<rigid, op, reg, z, pie, cpu, panicked>>

-----------------------------------------------------------------------------
(* Nios II.  intdis writes the status register back as it was, inten       *)
(* clears the interrupt enable bit.  The bit is saved with each thread     *)
(* (external: there is no scheduler in the repository).                    *)

NiosLoad(t) ==
  /\ arch = "nios2" /\ Goto(t, "start", "store")
  /\ op[t].name # "swap8"
  /\ reg' = [reg EXCEPT ![t] = mem]
  /\ UNCHANGED <<rigid, mem, op, res, z, excl, pie, cpu, panicked>>

\* atomic_swap8_conditional is not implemented.
NiosPanic(t) ==
  /\ arch = "nios2" /\ Goto(t, "start", "start")
  /\ op[t].name = "swap8"
  /\ panicked' = TRUE
  /\ UNCHANGED <<rigid, mem, op, reg, res, z, excl, pie, cpu>>

\* atomic_add adds one, whatever it is asked to add, and returns the sum.  A
\* conditional swap that fails returns what it found.
NiosStore(t) ==
  /\ arch = "nios2" /\ Goto(t, "store", "inten")
  /\ CASE op[t].name = "swap" ->
            StoreMem(t, op[t].val) /\ Settle(t, reg[t])
       [] op[t].name = "add" ->
            LET sum == (reg[t] + 1) % Word IN StoreMem(t, sum) /\ Settle(t, sum)
       [] op[t].name = "swap_conditional" /\ reg[t] = op[t].old ->
            StoreMem(t, op[t].val) /\ Settle(t, XCHG_SUCCESS)
       [] OTHER -> Settle(t, reg[t]) /\ UNCHANGED <<mem, excl>>
  /\ UNCHANGED <<rigid, op, reg, z, pie, cpu, panicked>>

NiosEnable(t) ==
  /\ Goto(t, "inten", "return")
  /\ pie' = [pie EXCEPT ![t] = FALSE]
  /\ UNCHANGED <<rigid, mem, op, reg, res, z, excl, cpu, panicked>>

\* An interrupt takes the processor from a thread that lets it, and a thread
\* gives it away where it does not spin.
NiosSwitch ==
  /\ arch = "nios2" /\ ~panicked
  /\ pie[cpu] \/ pc[cpu] \in {"idle", "critical"}
  /\ cpu' \in Threads \ {cpu}
  /\ UNCHANGED <<rigid, mem, pc, op, reg, res, z, excl, pie, panicked>>

-----------------------------------------------------------------------------
(* ARM.  Exclusive loads and stores; but the compares of all operations    *)
(* but swap8 are conditional on the Z flag they are about to set, and      *)
(* swap8 takes the wrong operands.                                         *)

ArmLoad(t) ==
  /\ arch = "arm" /\ Goto(t, "start", "store")
  /\ reg'  = [reg EXCEPT ![t] = mem]
  /\ excl' = [excl EXCEPT ![t] = TRUE]
  /\ UNCHANGED <<rigid, mem, op, res, z, pie, cpu, panicked>>

\* Where the branch before the store is taken: cmpeq compares only if Z is set,
\* and beq takes equal values for a mismatch.  swap8 compares the low word with
\* oldlo, and the high one with what is behind oldhi.
ArmBranches(t) ==
  CASE op[t].name = "swap_conditional" -> z[t] /\ reg[t] = op[t].old
    [] op[t].name = "swap8" -> \/ Low(reg[t]) # Low(op[t].old)
                               \/ High(reg[t]) # op[t].beside
    [] OTHER -> FALSE

ArmNoSwap(t) ==
  /\ arch = "arm" /\ Goto(t, "store", "return")
  /\ ArmBranches(t)
  /\ excl' = [excl EXCEPT ![t] = FALSE]
  /\ Settle(t, XCHG_FAILURE)
  /\ UNCHANGED <<rigid, mem, op, reg, z, pie, cpu, panicked>>

\* Whether the loop ends: swap and add look at the outcome of the store only if
\* Z is set, and never again once it is clear.
ArmDone(t) == excl[t] /\ (Conditional(op[t]) \/ z[t])

\* Where the operation goes on: swap8 returns with two of the four registers it
\* has pushed still on the stack, and what its caller then does is not followed.
AfterStore(t) ==
  CASE ~ArmDone(t)           -> "start"
    [] op[t].name = "swap8"  -> "astray"
    [] OTHER                 -> "return"

\* swap8 stores the words it has loaded.
ArmStored(t) == IF op[t].name = "swap8" THEN reg[t] ELSE Stored(op[t], reg[t])

ArmStore(t) ==
  /\ arch = "arm" /\ Goto(t, "store", AfterStore(t))
  /\ ~ArmBranches(t)
  /\ IF excl[t] THEN StoreMem(t, ArmStored(t)) ELSE UNCHANGED <<mem, excl>>
  /\ z' = [z EXCEPT ![t] = ArmDone(t)]
  /\ IF ~ArmDone(t) THEN UNCHANGED res
     ELSE Settle(t, CASE Conditional(op[t]) -> XCHG_SUCCESS
                      [] op[t].name = "swap" -> reg[t]
                      [] op[t].name = "add"  -> Stored(op[t], reg[t]))
  /\ UNCHANGED <<rigid, op, reg, pie, cpu, panicked>>

-----------------------------------------------------------------------------
Next ==
  \/ \E t \in Threads :
       \/ mutex_trylock(t) \/ CallAtomic(t) \/ CallSwap8(t) \/ Return(t)
       \/ mutex_unlock(t) \/ mutex_destroy(t)
       \/ X86Exec(t) \/ X86Load(t) \/ X86Store(t)
       \/ NiosLoad(t) \/ NiosPanic(t) \/ NiosStore(t) \/ NiosEnable(t)
       \/ ArmLoad(t) \/ ArmNoSwap(t) \/ ArmStore(t)
  \/ NiosSwitch

Spec == Init /\ [][Next]_vars

-----------------------------------------------------------------------------
(* The properties.                                                         *)

\* Where the operations do what atomic.h says: the exchanges of x86, its
\* addition on one processor, and two of the operations of Nios II as long as no
\* interrupt can come in.  None of ARM does.
Sound ==
  CASE arch = "x86"   -> use = "add" => ~smp
    [] arch = "nios2" -> ~irq /\ use \in {"mutex", "swap"}
    [] arch = "arm"   -> FALSE

Abstract == INSTANCE AtomicSpec

\* There, an operation acts at once, and returns what atomic.h says it returns,
\* however the instructions of the threads interleave.
ImplementsAtomic ==
  /\ Sound => Abstract!Init
  /\ [][Sound => Abstract!Next]_<<mem, op, res>>

\* include/timix/atomic.h:57-70 says it of every machine: a conditional swap
\* that returns 0 has found the old value, and left the new one.
SuccessSwaps ==
  [][\A t \in Threads :
       op[t] # NULL /\ Conditional(op[t]) /\ res[t] = NULL /\ res'[t] = XCHG_SUCCESS =>
         mem = op[t].old /\ mem' = op[t].val]_vars

\* include/timix/atomic.h:76-83 says it of every machine: an addition adds to what
\* is there at that moment, and returns that.
AddsAtOnce ==
  [][\A t \in Threads :
       op[t] # NULL /\ op[t].name = "add" /\ res[t] = NULL /\ res'[t] # NULL =>
         mem' = (mem + op[t].val) % Word /\ res'[t] = mem]_vars

\* Who has the mutex, or is about to learn that it has.
Holders == {t \in Threads : \/ pc[t] = "critical"
                            \/ pc[t] \in {"inten", "return"} /\ res[t] = XCHG_SUCCESS}

\* There, the mutex is locked exactly while one thread has it, from the swap in
\* mutex_trylock to the store in mutex_unlock, so that two threads never have it
\* and mutex_destroy never panics on a mutex nobody uses (mutex.c:32-69).
OwnerMatchesHolder ==
  Sound /\ use = "mutex" =>
    /\ Cardinality(Holders) = IF mutex_is_locked THEN 1 ELSE 0
    /\ ~panicked

\* include/timix/mutex.h:45-46 says it of every machine: a locked mutex is left
\* as it is, so that no second thread has it.
MutualExclusion == use = "mutex" => Cardinality(Holders) <= 1

=============================================================================
