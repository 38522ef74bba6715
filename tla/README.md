# A TLA+ verification of the Timix kernel

Timix is a small kernel for x86, ARM and Nios II.  This directory holds TLA+
models of its synchronization code, its console, its start-up and its string
library, TLC configurations that check them, and TLAPS proofs.  Paths are
relative to `src/`, and `file:line` names a source line.

1. [The system](#1-the-system)
2. [The modules](#2-the-modules)
3. [The runs](#3-the-runs)
4. [Fairness](#4-fairness)
5. [What is proved](#5-what-is-proved)
6. [Where code and comments disagree](#6-where-code-and-comments-disagree)
7. [What is not modelled](#7-what-is-not-modelled)

## 1. The system

The scheduler and the thread control block (`sched_*`, `current_thread`,
`tcb_t`) are not in this repository; the code in it is written against them.
Threads share memory and can be preempted at any instruction, unless the
scheduler is locked.  The code above the atomic operations is written for one
processor.

| component | state | operations | used by |
| --- | --- | --- | --- |
| atomic operations, `arch/*/kernel/atomic.S` | none | swap, compare-and-swap (4 and 8 bytes), add | mutexes |
| mutexes, `kernel/mutex.c` | `owner`: unlocked or not | init, destroy, trylock, lock (spins), unlock (a plain store), is_locked | everything below |
| queue macros, `include/timix/variable_queue.h` | `head`, `tail` per queue, `next`, `prev` per element | insert at either end, before or after an element, remove, concatenate, walk | condition variables, read/write locks |
| condition variables, `kernel/cond.c` | per variable a queue of waiters and its `q_lock`; per thread one node with a lock, the variable it waits on and flags | wait (interruptible or not), signal, broadcast, interrupt | semaphores, read/write locks |
| semaphores, `kernel/sem.c` | `sem_count`, a mutex, a condition variable | init, destroy, wait, signal | virtual screens |
| read/write locks, `kernel/rwlock.c` | `count`, `mode`, a queue of waiters, a mutex, two condition variables | init, destroy, lock (interruptible or not), unlock, downgrade | nobody yet |
| virtual screens, `drivers/text_console.c` | a console and several screens, each with a cursor, a buffer and two semaphores; `screen_idx` | switch screens, write, scroll, move the cursor | nobody yet |
| memory map and boot, `kernel/mm/pmm.c`, `arch/*/kernel/entry.c`, `head.S` | a table of regions; ARM: the first page directory | init, add a region | boot |
| string library, `include/timix/string-impl.h` | the position of `strtok` | `strcpy`, `strncmp`, `strtok`, ... | nobody yet |

Calls go down this list only, with one exception in spirit: a thread's node in
`cond.c` is shared state of the thread and of whoever interrupts it, so that
`cond_interrupt` reaches sideways into a wait of any semaphore or read/write
lock.

**What is hard.**  Almost everything difficult sits in the order of lock
acquisitions and in what may happen between two of them:

- a waiter gives up the client's mutex and goes to sleep, and a signal between
  the two would be lost;
- a signal and an interrupt race for the same sleeping thread, and each holds a
  different lock when it decides (the queue's, the node's);
- a woken thread runs some time after it was woken; until then its counters,
  queue nodes and modes still say that it waits;
- `-EINTR` paths must undo exactly what the call had done;
- locks spin, so two threads that hold what the other wants stop the machine;
- an atomic operation is several instructions, and on two of the three
  architectures not all of them are protected;
- a screen moves between the video memory and an array while its threads go on
  printing on it, each having looked only once where it is.

`PROJECT.json` lists each hazard with its line and the property that watches it,
or why none does.

**What makes each component correct.**  Mutexes: mutual exclusion although
unlock never looks at the owner.  Queues: the links are a sequence, seen from
both ends.  Condition variables: no lost wakeup, no spurious one, oldest waiter
first, an interrupt hits the wait it was aimed at, no deadlock among spinning
threads.  Semaphores: as many threads pass as there are permits, and none
sleeps beside one.  Read/write locks: a writer is alone, the counter counts,
the queue holds those who wait, a free lock keeps nobody waiting.  Atomic
operations: each acts at once.  Virtual screens: each is a console of its own,
wherever it is; the permits of its semaphores balance; the hardware cursor
shows its cursor; every call ends.  Memory map: no region is lost or mixed up.
Start-up page table: all of the kernel is translated.  Strings: each function
computes what its counterpart of the C library does, on whole strings.

## 2. The modules

| module | what it is |
| --- | --- |
| `Cond` | `cond.c`, every lock acquisition a step |
| `CondSpec` | what `cond.h` promises: atomic calls on a queue, no inner locks |
| `CondRefinement` | the mapping from `Cond` to `CondSpec` |
| `Sem` | `sem.c` over the steps of `CondSpec` |
| `SemSpec` | what `sem.h` promises: a value that is taken and given |
| `RwLock` | `rwlock.c` over the steps of `CondSpec` |
| `VariableQueue` | the macros of `variable_queue.h` on links |
| `ListSpec` | what the comments of those macros promise, on sequences |
| `Mutex` | `mutex.c` on the instructions of the three `atomic.S` |
| `AtomicSpec` | what `atomic.h` promises: operations that act at once |
| `Screen` | one screen of `text_console.c`: the functions `scr_*` as operators |
| `TextConsole` | all screens, their semaphores, the calls of threads, the hardware cursor |
| `ScreensSpec` | what `text_console.h` promises: each screen a console of its own |
| `Pmm` | the table of `pmm.c` |
| `Boot` | `head.S` and `entry.c` of the three architectures on that table |
| `StringLib` | `string-impl.h`, loop by loop, on two buffers |
| `QueueLemmas` | lemmas about sequences as queues |
| `CondProofs`, `SemProofs`, `RwLockProofs`, `MutexProofs`, `BootProofs`, `TextConsoleProofs` | theorems about the module they are named for and what it extends |
| `QueueProofs` | theorems about `VariableQueue`, and lemmas for the clients of `CondSpec` |
| `MCCond`, `MCCondLive`, `MCSem`, `MCRwLock`, `MCMutex`, `MCTextConsole` | instances for TLC |

Layers are composed by contract.  `Cond` is shown to implement `CondSpec`, and
`Sem` and `RwLock` instantiate `CondSpec` for the calls they make.  `Cond`
keeps its queues as sequences, and `VariableQueue` is shown to implement those
provided that an element is in no queue when it is inserted, which `Cond`
guarantees (`QueuedOnlyWhileWaiting`), and so does `RwLock`
(`QueueMatchesWaiters`).  `Cond` takes a mutex to be an atomic
compare-and-swap, which is what `Mutex` is shown to have where its operations
are sound.  `TextConsole` has the two functions of `sem.c` themselves, on a
queue that `cond_signal` serves in order and `cond_interrupt` takes threads out
of, which is what `Cond` is shown to have: `SemSpec` alone would promise too
much, as `sem.c` may lose a permit to an interrupt (section 6).

### Cond

`pc` has one label for each place of `cond.c` where another thread can
interfere: before each `mutex_lock`, where the thread spins, and between the
sections.  The action at a label takes the lock and does nothing else, or does
what the code does up to the next lock.  `waiting`, `q_lock` are the fields of
`cond_t`; `lock`, `node_cv` and `flags` those of each thread's `cond_q_node`;
`cv`, `target` and `unint` the arguments and locals of the call under way; `mp`
the mutexes of the clients.

Lines 71-86 of `do_cond_wait` run with the scheduler locked, on one processor:
`WaitBlock` is one step, and so is its other outcome `WaitRollback`, when
`sched_set_blocked` refuses (constant `Killable` says for whom it may).  The
scheduler is the variable `sched`: a thread is runnable or blocked.  Waking a
runnable thread does nothing.

Clients lock and unlock their mutexes, call `cond_wait` with the mutex that
guards the condition held (`cond.h:121`), signal and broadcast with or without
it, and interrupt any thread, themselves included, without a mutex held unless
`InterruptHolding`.

`CondSpec` has no locks but the clients' mutexes.  Where the calls take effect:
`cond_wait` when it releases the mutex, `cond_signal` when it pops,
`cond_broadcast` when it has locked the queue (the rest of the loop changes
nothing a client sees), `cond_interrupt` when it removes the node or finds it
cannot.

### Sem and RwLock

What a thread does with the component's mutex held, between two calls of
`cond.c`, is one step: only holders of that mutex touch the counter, the mode
and the queue.  `rwlock_downgrade` asserts before it locks, and this is a step
of its own (`DowngradeEnter`).  A failed assertion stops the kernel, so the
guard of that step is the assertion, and `WritersExcludeOthers` is what would
make it hold.

`interrupts` is chosen initially and never changes: behaviours with and without
threads that call `cond_interrupt` are checked by the same run, and a property
that interrupts can break starts with `~interrupts`.

`Sem` maps to `SemSpec` with `value == sem_count + Cardinality(Owed)`, where
`Owed` are the threads that have decremented the counter and have no permit.

### VariableQueue

`head`, `tail`, `next` and `prev` are functions; the `ptr` field of a queue
head is a temporary.  `Q_FOREACH(q)` is the sequence found by following `next`
from the head, and is what is mapped to `ListSpec`.  Walks are bounded by the
number of elements plus one, so that a cycle is seen and does not hang.

### Mutex

One location is shared; `use` says whether it is the owner of a mutex or a word
that threads swap or add to, or two words that they compare and swap as eight
bytes; `Uses` has the choices.  Several threads run the instructions of `atomic.S`, each step being what no other thread can
come in between of:

- x86: an exchange is one locked instruction (`X86Exec`); `xadd` is not locked,
  and on several processors (`smp`) it is a load and a store.
- Nios II: a load, a store and `inten`.  There is one processor, `cpu`, and
  `NiosSwitch` is an interrupt, or a thread that gives it away.  `pie` is the
  interrupt enable bit, which `intdis` leaves alone and `inten` clears.
- ARM: an exclusive load and an exclusive store, which fails once another
  thread has stored (`excl`).  `ArmBranches` and `ArmDone` are the conditional
  compares, on the Z flag as the caller left it (`Begin`) and as the code then
  leaves it.  The eight-byte swap is modelled with the operands it uses: it
  compares the high word with the word behind `oldhi` on the caller's stack
  (`beside`, `atomic.S:55`), stores the pair it has loaded (`ArmStored`, line
  60), and returns with two of its four registers still on the stack (line 64),
  which is the label `astray`, from where nothing is followed.

`Sound` names where the operations do what `atomic.h` says: the exchanges of
x86, its addition on one processor, and with interrupts off the swap of Nios II
and its conditional swap as `mutex.c` uses it.  None of ARM is among them.
Section 6 says what happens elsewhere, and section 3 lists the counterexamples.
Under `Sound`, `ImplementsAtomic` is the refinement of `AtomicSpec`: `res` is
`NULL` until an operation has acted, and then what it returns.  A `mutex_lock`
is a loop over `mutex_trylock`, that is, any number of calls of it.

### Screen and TextConsole

`Screen` has the functions on one `cons_screen_t`, each an operator from a
screen to the screen it leaves: characters, colors and the cursor on a small
grid, `check_cursor` and `scrollback` included.  `TextConsole` has the rest.
`console` is the structure for the video memory, `screens` the array, `crtc`
the two registers of the cursor behind their index register.  A call of a
client goes through the labels `cons_lock`, `buffer_lock`, `pick` (where is my
screen?), `do` (one step, save `putbytes`: one per byte), the four writes of
`cursor_sync`, and the two releases; `scr_set_screen` through `new_lock`,
`old_lock`, `save`, `load`, `cursor_sync`, `set_idx` and its two releases.
The semaphores are counters with a queue of sleepers.  What `sem_wait` and
`sem_signal` do under `sem_lock` is one step, as in `Sem`; a woken thread goes
on without a second look at the counter, as in `sem.c`.  `Interrupt` is a
`cond_interrupt` that takes a client out of the queue of one of its two
`sem_wait`s, and leaves the counter alone; `WaitFails` is what the client does
when it runs again: `sem_wait` corrects the counter (`sem.c:74`) and answers
`-EINTR`.  Between the two it is in `Late`.  `interrupts` is chosen initially,
as in `Sem`.  Switchers are not interrupted, as line 239 says.

`ScreensSpec` has neither copies nor locks nor registers: per screen one state,
changed by its own threads at once, with `putbytes` as a run of bytes nobody
else comes between.  `Logical` maps to it: the screen in the foreground is
`console`, except between `save_screen` and the assignment of `screen_idx`.

### Boot and StringLib

`Boot` follows each architecture from its entry to `kernel_main`, `panic` or
the loop at the end of its `c_entry`; addresses are scaled down, with a few
units to a section.  The machine `"library"` is any other caller of `pmm.h`,
which picks a region (`LibraryCall`) and adds it (`LibraryAdd`).  `ret` is what
the last call of `pmm_add_region` answered.

`StringLib` gives each function its loop as a recursive operator on a memory of
two buffers; each call is an action, with arguments for which the function
stays inside of the buffers, and the properties compare its result with a
definition on whole strings.  As `malloc` is an assertion that fails, `strdup`
is a panic.

## 3. The runs

Each run ends within two minutes on two workers.

| run | instance | shows |
| --- | --- | --- |
| `cond_safety` | 3 threads, 2 condition variables, 1 mutex, all wait on both | the invariants of `Cond` and `ImplementsCondSpec` |
| `cond_kill` | 2 threads, 2 condition variables with a mutex and one waiter each, both threads may be unable to sleep | `ImplementsCondSpec`, with a scheduler that refuses |
| `cond_live` | 3 threads, 2 calls each, 1 condition variable | every call ends or sleeps, woken threads return with their mutex |
| `sem` | 4 threads, 1 permit, counter up to 2 | `ImplementsSemSpec`, `NoneSleepsOnPermit` |
| `rwlock` | 4 threads, both modes | the invariants of `RwLock`, `WriterEntersAlone` |
| `queue_lists` | 2 queues, 4 elements | `ImplementsLists`, `LinksAgree` |
| `mutex` | 3 threads, the three architectures, words of 3 values | `ImplementsAtomic`, `OwnerMatchesHolder` |
| `console` | 3 printing threads and 1 that changes screens, 2 screens of 3 x 2 characters, 4 calls | `ImplementsScreens`, the counters of the semaphores, the cursor, `CallsEnd` |
| `boot` | addresses 0..127, sections of 4, a table of 4 regions, four places to be loaded at | `KernelTranslates`, `OneRegionAtMain`, `RegionsKept` |
| `strings` | 2 buffers of 4, a letter and a delimiter | every function against its definition |

Two more runs, and ten configurations that `PROJECT.json` does not list as runs,
each state one sentence of the repository's comments that the code does not
keep; TLC finds the violation.  They are the counterexamples of section 6.  Try
one by `tlc -config <configuration> <module>`.

| configuration | module, property | instance | the violation |
| --- | --- | --- | --- |
| `MCRwLockExclusion.cfg` (run `rwlock_exclusion`) | `MCRwLock`, `WritersExcludeOthers` | 3 threads | a reader beside a writer |
| `MCMutexArm.cfg` (run `mutex_arm`) | `MCMutex`, `MutualExclusion` | 2 threads on ARM | two threads with one mutex |
| `MCMutexNios.cfg` | `MCMutex`, `MutualExclusion` | 2 threads on Nios II | the same, by an interrupt |
| `MCMutexSwap8.cfg` | `MCMutex`, `SuccessSwaps` | 2 threads on ARM | a successful swap that swaps nothing |
| `MCMutexAdd.cfg` | `MCMutex`, `AddsAtOnce` | 2 threads on x86 | an addition is lost between two processors |
| `MCCondRollback.cfg` | `MCCond`, `RollbackUndoesPush` | 2 threads wait on 1 condition variable, one may be unable to sleep | the rollback removes the other thread |
| `MCCondHolding.cfg` | `MCCondLive`, `WokenReacquires` | `cond_live`, with interrupts made while the mutex is held | deadlock |
| `MCSemLost.cfg` | `MCSem`, `NobodyStuck` | 3 threads | a permit is lost to an interrupt |
| `MCRwLockStuck.cfg` | `MCRwLock`, `NobodyStuck` | 3 threads | the lock is lost to an interrupt |
| `VariableQueueAfter.cfg` | `VariableQueue`, `ImplementsLists` | `queue_lists`, with `Q_INSERT_AFTER` anywhere | a cycle |
| `MCTextConsoleHidden.cfg` | `MCTextConsole`, `PrintedIsAlwaysShown` | `console` | a character is lost below the last line |
| `BootFull.cfg` | `Boot`, `RefusedOnlyWhenFull` | callers of `pmm.h`, a table of 4 | a region is refused beside a free slot |

**Why the bounds are enough.**  A race in `cond.c` involves a waiter, a thread
that signals and one that interrupts; with three threads each of them can also
be a second waiter, so that order in the queue shows, and with two condition
variables a thread can leave one wait and be in another when a late interrupt
arrives.  Semaphores and read/write locks need one holder, two waiters (the one
served and the one passed over) and one newcomer or interrupter: four threads.
Four elements in two queues give every case of the macros: empty, first, last,
only, in the middle, and two queues of two to concatenate.  Three threads on an
atomic operation are one that loaded, one that stored in between and one that
undoes it; words of three values have a value besides 0 and 1, and wrap.  For
any number of threads, section 5.

On the console, two threads share a screen, a third has the other one, and the
fourth changes screens: every lock has someone to compete for it from either
side.  Four calls are one of each thread.  A screen of 3 x 2 has a last line, a
last column and a line to scroll away, and is not a square, which tells width
from height.  The menu `Alone` has one thread make every sequence of four
calls, out of all of them with good and bad arguments, which is enough to bring
the cursor below the last line, hide it and print; the menu `Shared` has the
four threads compete.  `Radix` = 4 makes the index of the cursor need both
registers. A table of four regions fills after three calls.  Buffers of four
hold the strings of up to three characters: two tokens and a delimiter.

The bounds by name: `MaxCount` keeps clients from signalling a semaphore
without end (`SignalLock`), `MaxCalls` ends contention in `MCCondLive` and
bounds the calls in `TextConsole`.  No other value grows.  Threads are
symmetric in the safety runs of the synchronization core; runs with liveness
use no symmetry.  `StringLib` has a `VIEW` that leaves out the last call and
its result, on which no later step depends.  Deadlock is not checked where all
threads may rightly wait for a signal that no client sends, where all calls
were made, or where a panic or a wrong stack stops a thread; that no thread is stuck when it
should not be is what `NoSpinDeadlock`, `CallsEnd`, `NoneSleepsOnPermit` and
`HandOffReachesSomeone` say.

Each module has a section of faulty variants.  They are not part of any
specification; each is an operation with a plausible slip (a dropped guard, a
late signal, a forgotten unlock) that the property named in `PROJECT.json`
catches, which shows that the property is about the code.

## 4. Fairness

`MCCondLive` assumes weak fairness of each thread's next step inside the
kernel, and of a client's release of a mutex it has.  The first is that a
runnable thread is scheduled in the end.  It is weak because the spin locks
have no queue: a thread that spins may find the lock taken each time it looks,
as long as others keep taking it, and no fairness of the code prevents that.
Clients therefore make finitely many calls (`MaxCalls`), and no fairness is
asked of their calls.  A deadlock still shows as a call that does not end.

`TextConsole` assumes weak fairness of each thread's `Step`: what it does by
itself inside of a call.  A thread that sleeps in a semaphore has no step, and
is woken by one who signals, in order, as the queue of `cond.c` serves the
longest waiter.  Neither new calls nor interrupts are asked for.  `CallsEnd` is
for behaviours without interrupts: with them a call may sleep for ever
(`sem.c:74`).

The other modules state safety only.  Nothing is claimed about a reader or a
writer that waits in `RwLock` getting its turn: the newest waiter is served
first (`rwlock.c:195`), and an older one may starve.

## 5. What is proved

Each theorem holds for every value of the constants that the module's `ASSUME`
allows.  Each inductive invariant was checked by TLC before it was proved.

**`CondProofs`**, for every set of threads, mutexes and condition variables
and every way of guarding them (`CondAssumption`):

- `TypeCorrect`: `Spec => []TypeOK`.  Inductive with `LocalsSet`: a thread in a
  call has its locals set, so no step uses `cv` or `target` unset.
- `LocksCorrect`: `Spec => []LocksMatchSections`.  Inductive with the types:
  `mutex_unlock` frees a lock whoever has it, so that a lock is held exactly by
  the thread whose `pc` is in its section has to be shown of all steps at once.
- `QueuedCorrect`, `WaitersCorrect`, `InterruptCorrect`: the invariants
  `QueuedOnlyWhileWaiting`, `NoWaiterLost` and `InterruptHitsItsWait`, under
  `RollbackSafe`: a thread that the scheduler may refuse to block has its
  condition variable to itself, as it has trivially where none is refused.
  Elsewhere they are false, by `cond.c:78` (`MCCondRollback.cfg`), so they say
  nothing about a shared condition variable with such a thread.  The three are
  not inductive.  `WaiterInv` adds that a pushed thread is queued until it
  sleeps (`PushedIsQueued`), that a blocked thread is at `sleep`
  (`BlockedInWait`), that the thread an interrupt is about to wake is out of
  every queue (`InterruptedIsOut`), and that the flags of a node agree with the
  call (`FlagsMatch`).  The key step is `InterruptRemove`: the interrupting
  thread holds the node's lock from `intr_check` on, so the sleeper cannot get
  past `WaitWake`, and being in the queue it is still blocked.
- `NoDeadlock`: under `~InterruptHolding`, `Spec => []NoSpinDeadlock`, whatever
  the scheduler refuses.  `SpinInv` adds to the locks that `do_cond_wait` spins
  for the client's mutex without having it, and that `cond_interrupt` has none
  (`MutexesHeld`).  The argument is an order of the places where a thread spins
  (`SpinOrder`): for a queue's lock, for its own node's lock, for the client's
  mutex, for the node of a thread it interrupts.  Whoever holds what a thread
  spins for spins at an earlier place itself, if at all, and at the first place
  not at all; so no set of spinning threads is closed.  With `InterruptHolding`
  the third and the fourth depend on each other, and the statement is false
  (`MCCondHolding.cfg`).

- `RefinementCorrect`: `Spec => ImplementsCondSpec`, under `RollbackSafe`.
  `CondRefinement` maps the queue of a condition variable to the queue without
  the thread that has pushed itself and not yet released the mutex, and to the
  empty queue while a `cond_broadcast` is in its loop.  The inductive
  `RefinedInv` adds to `WaiterInv` that the pushed thread is the first of its
  queue until it sleeps (`PushedIsFirst`), that the node of a waiter names its
  condition variable, says how it waits, and not that it was interrupted while
  it is queued (`NodesMatchWaits`), and that a call has no result before it
  ends (`NoResultYet`).  Then each step maps to the step of `CondSpec` of the
  same name, or is `Hidden`: one lemma `...Maps` for each.  A `SignalPop` finds
  the queue whole because it has the queue's lock, which no pushing and no
  broadcasting thread can have besides (`SectionsRight`).

**`QueueProofs`**, on `VariableQueue` and `ListSpec`, for any queues and any
finite set of elements, with `Q_INSERT_AFTER` on tails only (in the middle it makes a cycle:
`VariableQueueAfter.cfg`):

- `LinksCorrect`: `Spec => []LinksAgree`.  The inductive `Linked`
  says that each queue is a `Chain`: a sequence without duplicates that `next`
  leads through from the head and `prev` from the tail, with `NULL` behind both
  ends; that an element is in one queue at most; and that one in no queue has no
  links.  Each macro comes down to one of three lemmas on sequences and links,
  whatever their length: `Inserted` (at any position, for the four macros that
  insert), `Removed`, `Joined`.
- `ListsCorrect`: `Spec => ImplementsLists`, from the same lemmas,
  which say which sequence the new chain is.

`Walk` is a recursive function, and `WalkPath` says that it goes through the
elements of a chain.  There is no induction scheme to cite for it (those of the
library take an operator), but there need not be: `LeastNatural`, that a set of
numbers has a smallest one, follows from the well-founded order of `Nat`, and
the smallest place where the walk and the chain differ leads to a contradiction.

At its end `QueueProofs` has what a client of `CondSpec` may rely on: `Agree`,
that a thread is in exactly one queue, once, while it waits, by the call it is
in.  `Sem` and `RwLock` refine their condition variables by construction, so
that `SemProofs` and `RwLockProofs` get `Agree` from the lemma that each of
their steps is a step of `CondSpec` or none.  They instantiate `QueueProofs`
with no linked queues, as they do not know of any.

**`SemProofs`**, for a finite set of threads, any `InitialCount` and any bound:

- `TypeCorrect`: the counter stays between minus the number of threads and its
  bound.  This takes the refinement's arithmetic: the counter is
  the value less the threads owed a permit, and these are threads.
- `SemaphoreCorrect`: `Spec => ImplementsSemSpec`.  The inductive invariant is
  `Permits`, over `Control` (who holds `sem_lock`, and agreement with
  `CondSpec`): the abstract value is never negative, and positive where
  `sem_signal` is about to call `cond_signal`.  The second is why a signaled
  waiter may take its permit without looking at the counter again.
- `SleepersCorrect`: without interrupts nobody sleeps while there is a permit
  for it.  Inductive as `Quiet`: while someone sleeps or is about to, the value
  is zero, or one while a `sem_signal` is on its way to `cond_signal`.

**`RwLockProofs`**, for a finite set of threads, and any choice of modes
they ask for.  Five invariants, each over the one before:

- `Control`: types, the arguments a call keeps, who holds `lock->lock`, and
  agreement with `CondSpec`.
- `Counted` adds `CountMatchesOwners`, which gives `TypeCorrect`,
  `CountCorrect` and, as an action property, `WritersEnterAlone`: a writer
  enters only where the counter is zero, and zero means that nobody owns the
  lock.
- `Linked` adds `NodesMatch`: nodes of distinct threads, each of a thread in a
  wait loop, with its mode; and every such thread has one.  This gives
  `QueueCorrect`.
- `Fitting` adds `ModeFits`: an unlocked lock has no waiters; who is about to
  sleep has to; who is about to wake others wakes those whom the mode lets in;
  readers sleep in read mode only while a wake-up call is under way.  This
  gives `ReadersCorrect`.
- `HandsOn` adds, without interrupts, `Handed`: a lock with no owner that is
  not unlocked has a waiter of its mode that is awake or about to be woken.
  This gives `HandOffCorrect`.  With interrupts the statement is false
  (`MCRwLockStuck.cfg`).

**`MutexProofs`**, on `Mutex` and `AtomicSpec`, for any set of threads and any
number of values of a word above one:

- `TypeCorrect`: all variables keep their types on every machine, sound or not.
- `OwnerCorrect`: `Spec => []OwnerMatchesHolder`: under `Sound` the mutex is
  locked exactly while one thread has it, and `mutex_destroy` does not panic.
  Not inductive: on Nios II a thread stores what it decided by an earlier load.
  `NiosAlone` says that with interrupts off nobody else runs between the two,
  so that the loaded value is still there.
- `AtomicCorrect`: `Spec => ImplementsAtomic`, that is, what `Sound` names acts
  at once.  `AtomInv` has `NiosAlone` again, and that a result is settled exactly
  when the operation has acted, so that no operation acts twice.  Nothing is
  claimed of ARM, where `Sound` is false.

**`BootProofs`**, for any table, any addresses and sections of any size:

- `RegionsCorrect`: `Spec => RegionsKept`: a call of `pmm_add_region` puts the
  region it is given behind those in the table and answers 0, or answers
  `-ENOMEM` with the table full and leaves it alone; only `pmm_init` empties it,
  and every other step leaves it alone.  `AddEffect` and `ClearEffect` say it of
  the two functions for any table, and `TableSteps` says of every step of every
  machine which of the two it calls, with which region.
- `OneRegion`: with room for one region (`PMM_MAX_REGIONS > 1`),
  `Spec => []OneRegionAtMain`: `pmm_init` clears the table, whatever the boot
  loader's list had put there.
- `KernelMappedCorrect`: `Spec => []KernelTranslates`.  The inductive `MapInv`
  says of each label of the loop in `head.S` which entries the first page
  directory has.  It uses three facts about the layout that `BootAssumption`
  takes from the linker script and the comments of `head.S`: the kernel starts
  at a section and its text in that section, it is loaded as far behind the
  start of a section as it is linked, and it ends a section before the place
  where it runs and before the last address.  The lemmas on division
  say that an address lies in the section of its quotient, and that sections of
  different quotients are apart.

**`TextConsoleProofs`**, for any threads, screens of any size, any menus of
calls and any `Radix`.  Four theorems have no further premise:

- `TypeCorrect`, `CursorCorrect`: `TypeOK` and `CursorInRange`, from lemmas that
  each operator of `Screen` keeps a screen a screen.
- `PermitsCorrect`: `Spec => []PermitsMatchHolders`.  The inductive `Inv` says
  where a thread can be (`Places`), and gives types to what is copied and to the
  registers (`Contents`, `Registers`).  Its `LockInv` is about each semaphore:
  it has one owner at most, whose place in its call says so; its queue has every
  sleeper once; its counter is one less for everybody inside, that is, who owns
  it, sleeps in it, or was interrupted and has not corrected it (`CountRight`);
  without interrupts a sleeper has an owner (`Served`); and no client sleeps in
  front of the switching thread (`SwitcherNext`).  A counter above zero means
  that nobody is inside, which is why `sem_wait` lets in one thread only,
  interrupted ones notwithstanding; the lemmas `CountEnters` and `CountLeaves`
  follow a set of threads through each step.
- `PrintedCorrect`: `Spec => PrintedIsShown`.  `PutbyteShows` goes through
  `scr_putbyte`: a byte that is put in its cell, with or without a new line,
  and then the scrolling of the whole screen by one line; `DrawnByPutbyte` says
  that a step that prints changes that screen by `scr_putbyte` alone.

The other four are for one thread that changes screens (`OneSwitcher`), the
one that the comment at `text_console.c:239` wants:

- `SwitchCorrect`: `Spec => []SwitchWaitsForOnePrint`.  A client that waits for
  the buffer semaphore of a screen has that screen's other semaphore, so there
  is one such client at most; `SwitcherNext` has the rest.
- `ExclusionCorrect`: `Spec => []ConsoleExclusive`.  `Foreground` adds to `Inv`
  that who uses the console has the semaphores of the screen in the foreground,
  or is the switching thread with those of both screens; so that a thread that
  has looked at `screen_idx` is not overtaken by a change.
- `HardwareCursorCorrect`: `Spec => []HardwareCursor`.  `Cursor` says at each
  label of `cursor_sync` which of the two bytes have been written, and that
  nobody but its caller changes what they are computed from.
- `ScreensCorrect`: `Spec => ImplementsScreens`.  The inductive `ScreensInv` adds
  `Separate` to the two before: a client in a call has an operation from its
  menu, and is inside the string it prints; and once `scr_set_screen` has loaded
  the next screen, the video memory is a copy of it until `screen_idx` says so.
  So a change of screen is a stutter, and every other step that writes acts on
  one screen as `ScreensSpec` says.

`QueueLemmas` says what `Front`, `Tail`, `Append`, `RemoveAt`, `InsertAt` and
putting an element first do to the elements of a queue without duplicates.

**Checked by TLC only.**  Liveness (`CallsEnd`, `WokenReacquires`) is outside
the reach of this prover.  So is `StringLib`: its loops are `RECURSIVE` operators,
and tlapm has no SMT backend in a module that reaches one.

## 6. Where code and comments disagree

With the comment quoted in `PROJECT.json`:

- `cond.c:78`: the rollback pops the oldest waiter, not the caller's node.
- `cond.c:92`: a woken thread spins for the mutex with its node locked.
- `sem.c:74`: an interrupted waiter repairs the counter too late.
- `rwlock.c:95`: a reader enters a lock in write mode if nobody waits.
- `rwlock.c:165`: the lock is handed to a thread that was interrupted.
- `variable_queue.h:257`: `Q_INSERT_AFTER` links the successor.
- `arch/arm/kernel/atomic.S:40`: the compare depends on a flag nobody set and
  its branch is inverted, so that a locked mutex may be taken.
- `arch/nios2/kernel/atomic.S:42`: interrupts are not turned off before the
  first operation of a thread, and not turned on again after it.
- `arch/arm/kernel/atomic.S:60`: the eight-byte swap stores what it has loaded,
  and says that it swapped; it compares with a wrong word (line 55), and returns
  with a wrong stack (line 64).
- `arch/x86/kernel/atomic.S:66`: `xadd` has no lock prefix.
- `text_console.c:287`: below the last line, a hidden cursor loses a character.
- `pmm.c:71`: a table with room for ten regions takes nine.
- `arch/arm/kernel/entry.c:39`: 50 MB, where the comment says 32.
- `arch/arm/kernel/head.S:44`: not the address that the comment says is saved.

Also seen while modelling:

- Atomic operations: on Nios II `atomic_add` adds one, whatever it is given, and returns the sum instead of the old value;
  a failed conditional swap returns what it found; the eight-byte swap panics.
  On ARM `atomic_add` returns the sum as well, and the loops of `atomic_swap`
  and `atomic_add` never end for a caller with the Z flag clear
  (`atomic.S:32`).
- Locks: `sem_destroy` asserts a counter of zero, so that it panics on a free
  semaphore (`sem.c:58`, `sem.h:76`), and `rwlock_q_push` pushes at the end
  that is served first (`rwlock.c:195`, `rwlock.h:134`).
- Boot: on x86, `pmm_init` drops the regions that were just added
  (`entry.c:56`).
- Console: `n > CONFIG_SCREEN_COUNT` lets through the number one past the last
  screen (line 228); `get_cursor` compares the row with the width (line 358)
  and `get_char` the column with the height (line 390), and so do their models;
  `CURSOR_POS_HIDDEN` is not where `cursor_sync` puts a hidden cursor (line
  96). The file is in no makefile, and some of the headers that it includes do
  not exist.
- Strings: `strncpy` writes up to n + 1 characters (line 53); `strncmp` does
  not stop at a NUL and returns the difference of the characters behind the
  n-th (line 82); `strdup` asks for one byte too few (line 62); `strtok` on
  nothing but delimiters reads behind the NUL, as does a call after a last
  token with a delimiter behind it.  `StringLib` states `strncpy` as it is,
  compares `strncmp` where the strings differ early, and calls `strtok` where
  it stays inside.  `strcpy`, `strcat` and `strncpy` return a pointer past what
  they have written instead of the buffer; `StringLib` compares what they leave
  in memory, and not what they return.

The passing runs, and the theorems, stay clear of these in the following way,
and say nothing about the cases left out:

- `cond.c:78` and `cond.c:92`: by the constants `Killable` and
  `InterruptHolding`.
- `sem.c:74`: `NoneSleepsOnPermit` is about behaviours without interrupts.
  `ImplementsSemSpec` holds beside it, being about who passes and not about who
  sleeps.  On the console, `CallsEnd` and the last part of `PermitsMatchHolders`
  are about behaviours without interrupts; everything else holds with them.
- `rwlock.c:165`: `HandOffReachesSomeone` is about behaviours without interrupts.
  The others of `rwlock` hold beside both its defects.
- `variable_queue.h:257`: by `AfterLastOnly`.
- The atomic operations: by `Sound`.  `Cond` and what is above it take a mutex
  that excludes, which ARM and an interrupted Nios II do not have.
- `text_console.c:287`: by the premise of `PrintedIsShown` that the cursor is on
  the screen.

## 7. What is not modelled

- The scheduler: not in the repository.  `sched` and `Killable` are how
  `cond.c` uses it.
- More than one processor in `cond.c`: the critical section of `do_cond_wait`
  relies on one.  `Mutex` has several on x86 and ARM.
- Weakly ordered memory: loads and stores take effect in program order.
- Destroying condition variables, locks and semaphores in use: undefined by
  their comments.  `cond_interrupt` may use a condition variable that was
  destroyed legally (`cond.c:138`); condition variables whose memory is used
  again are not in `Cond`.
- Two threads that change the screen at once: the code is for one
  (`text_console.c:239`).  With two, the screen that is saved need not be the
  one whose lock is held.  The color's and the character's encoding in a word
  are left out.
- Device and port access (`io.h`, `io.c`): accesses without state, on ARM
  behind a barrier whose effect is the processor's.  `crtc.c` and `pl111.c` are
  stubs.
- `atags.h`, `cp.h`, `arm-arch.S`: layouts, register numbers and
  one-instruction accessors that nothing calls.
