----------------------------- MODULE TextConsole ----------------------------
(***************************************************************************)
(* The virtual screens of drivers/text_console.c.  The screen in the       *)
(* foreground lives in the video memory and in the structure "console",    *)
(* the others in the array "screens"; scr_set_screen copies one out and    *)
(* the next one in.  Threads print on the screen they belong to, wherever  *)
(* it is, under the two semaphores of that screen.                         *)
(*                                                                         *)
(* sem_wait and sem_signal are those of kernel/sem.c.  What they do under  *)
(* sem_lock is one step, as only its holder looks at the counter; a thread *)
(* that was interrupted repairs the counter in a later step, once it has   *)
(* sem_lock again.  Threads are interrupted by cond_interrupt, from        *)
(* anywhere, while they sleep.  A copy of a screen is one step, as both    *)
(* locks keep everybody else away from it.                                 *)
(***************************************************************************)
EXTENDS Screen, SequencesExt

CONSTANTS
  Clients,             \* threads that print
  Switchers,           \* threads that call scr_set_screen
  CONFIG_SCREEN_COUNT,
  Home,                \* current_thread->screen, for each client
  Menus,               \* each says which calls a thread may make
  ValidColors,         \* the colors within VALID_COLOR_MASK
  MaxCalls,            \* bound on the calls made in a behaviour
  Radix,               \* 256: what a register of the cursor holds
  NULL

Threads == Clients \cup Switchers
Ids == 0..(CONFIG_SCREEN_COUNT - 1)

\* A thread either prints or changes the screen, which is for kernel threads
\* (lines 239-240).
ASSUME TextConsoleAssumption ==
  /\ CONFIG_SCREEN_COUNT \in Nat \ {0}
  /\ IsFiniteSet(Threads)
  /\ Clients \cap Switchers = {}
  /\ Home \in [Clients -> Ids]
  /\ MaxCalls \in Nat
  /\ Radix \in Nat \ {0}
  /\ NULL \notin Threads
  /\ \A m \in Menus :
       /\ \A t \in Clients : \A op \in m[t] :
            /\ op[1] # "scr_set_screen"
            /\ op[1] = "putbytes" => op[2] \in Seq(Range(op[2]))
       /\ \A t \in Switchers : \A op \in m[t] :
            op[1] \in {"scr_set_screen", "scr_get_screen"}

VARIABLES
  console, screens, screen_idx,
  sems,  \* each semaphore's counter, and who sleeps in it in which order
  crtc,  \* the registers of the hardware cursor
  pc,    \* where each thread is
  call,  \* the call it is in, or NULL
  buf,   \* what scr_lock_thread_screen gave it: "console", "screen" or NULL
  local, \* its position in a string, or its cursor index
  old,   \* the screen a switcher leaves, or NULL
  ret,   \* what its last call answered
  menu,  \* the one of Menus in use; never changes
  calls, \* the number of calls made
  interrupts \* whether threads call cond_interrupt at all; never changes

memory  == <<console, screens, screen_idx>>
threads == <<call, buf, local, old, ret>>
vars == <<memory, sems, crtc, pc, threads, menu, calls, interrupts>>

Semaphores == Ids \X {"cons_lock", "cons_buffer_lock"}
cons_lock(i)        == <<i, "cons_lock">>
cons_buffer_lock(i) == <<i, "cons_buffer_lock">>

\* The threads of semaphore m.
Waits(t, m) == Contains(sems[m].waiters, t)
Asleep(t) == \E m \in Semaphores : Waits(t, m)

Labels == {"idle", "cons_lock", "buffer_lock", "pick", "do", "lsb_index",
           "lsb", "msb_index", "msb", "unlock_buffer", "unlock_cons",
           "cons_eintr", "buffer_eintr", "give_up", "new_lock", "old_lock", "save", "load",
           "set_idx", "signal_old", "signal_new"}

TypeOK ==
  /\ screen_idx \in Ids
  /\ DOMAIN screens = Ids
  /\ \A s \in {console} \cup {screens[i] : i \in Ids} :
       /\ DOMAIN s.cons_buf = Cells
       /\ s.cons_cur_state \in {CURSOR_STATE_VISIBLE, CURSOR_STATE_HIDDEN}
  /\ sems \in [Semaphores -> [count : Int, waiters : Seq(Threads)]]
  /\ crtc.index \in {"lsb", "msb", NULL}
  /\ {crtc.lsb, crtc.msb} \subseteq 0..(Radix - 1) \cup {NULL}
  /\ pc \in [Threads -> Labels]
  /\ \A t \in Threads : buf[t] \in {"console", "screen", NULL}
  /\ interrupts \in BOOLEAN

\* console_init, with video memory as blank as the buffers.  The semaphores of
\* the structure console are set up too, but nothing uses them.
console_init ==
  /\ console    = NewScreen
  /\ screens    = [i \in Ids |-> NewScreen]
  /\ screen_idx = 0
  /\ sems       = [m \in Semaphores |-> [count |-> 1, waiters |-> <<>>]]

Init ==
  /\ console_init
  /\ crtc  = [index |-> NULL, lsb |-> NULL, msb |-> NULL]
  /\ pc    = [t \in Threads |-> "idle"]
  /\ call  = [t \in Threads |-> NULL]
  /\ buf   = [t \in Threads |-> NULL]
  /\ local = [t \in Threads |-> 0]
  /\ old   = [t \in Threads |-> NULL]
  /\ ret   = [t \in Threads |-> <<"none">>]
  /\ menu \in Menus
  /\ calls = 0
  /\ interrupts \in BOOLEAN

Goto(t, from, to) == pc[t] = from /\ pc' = [pc EXCEPT ![t] = to]
Return(t, val) == ret' = [ret EXCEPT ![t] = val]

-----------------------------------------------------------------------------
(* Faulty variants of the operations below: each breaks a property.        *)

\* Takes the buffer's lock only.
SkipsScreenLock(t) ==
  /\ Goto(t, "cons_lock", "buffer_lock")
  /\ UNCHANGED <<memory, sems, crtc, threads, menu, calls>>

\* Leaves with the screen's lock.
KeepsScreenLock(t) ==
  /\ Goto(t, "give_up", "idle")
  /\ call' = [call EXCEPT ![t] = NULL]
  /\ UNCHANGED <<memory, sems, crtc, buf, local, old, ret, menu, calls>>

\* Ends a call with the screen's lock.
NeverUnlocksScreen(t) ==
  /\ Goto(t, "unlock_cons", "idle")
  /\ call' = [call EXCEPT ![t] = NULL]
  /\ buf'  = [buf EXCEPT ![t] = NULL]
  /\ UNCHANGED <<memory, sems, crtc, local, old, ret, menu, calls>>

\* Leaves the hardware cursor to the next change of screen.
NeverSyncs(t) == "unlock_buffer"

\* Writes the whole index to a register of eight bits.
WritesWholeIndex(t) ==
  /\ Goto(t, "lsb", "msb_index")
  /\ crtc' = [crtc EXCEPT !.lsb = local[t]]
  /\ UNCHANGED <<memory, sems, threads, menu, calls>>

\* Changes the screen without the lock of the old one.
TakesNoOldLock(t) ==
  /\ Goto(t, "old_lock", "save")
  /\ UNCHANGED <<memory, sems, crtc, threads, menu, calls>>

\* Saves to the screen that is about to be loaded.
SavesOverNew(t) ==
  /\ Goto(t, "save", "load")
  /\ screens' = [screens EXCEPT ![call[t][2]] = console]
  /\ UNCHANGED <<console, screen_idx, sems, crtc, threads, menu, calls>>

-----------------------------------------------------------------------------
(* Semaphores, as kernel/sem.c has them.                                   *)

\* Where a thread goes once it has what it waited for.
Granted(label) == CASE label = "cons_lock"   -> "buffer_lock"
                    [] label = "buffer_lock" -> "pick"
                    [] label = "new_lock"    -> "old_lock"
                    [] label = "old_lock"    -> "save"

sem_wait(t, m) ==
  /\ ~Asleep(t)
  /\ IF sems[m].count > 0
     THEN /\ sems' = [sems EXCEPT ![m].count = @ - 1]
          /\ pc' = [pc EXCEPT ![t] = Granted(@)]
     ELSE /\ sems' = [sems EXCEPT ![m].count = @ - 1, ![m].waiters = Append(@, t)]
          /\ UNCHANGED pc

\* t goes on at "to".  A thread that cond_signal wakes does not look at the
\* counter again.
sem_signal(t, m, to) ==
  IF sems[m].waiters = <<>>
  THEN /\ sems' = [sems EXCEPT ![m].count = @ + 1]
       /\ pc' = [pc EXCEPT ![t] = to]
  ELSE LET w == Head(sems[m].waiters) IN
       /\ sems' = [sems EXCEPT ![m].count = @ + 1, ![m].waiters = Tail(@)]
       /\ pc' = [pc EXCEPT ![t] = to, ![w] = Granted(@)]

-----------------------------------------------------------------------------
(* Taking and leaving the screen of the current thread.                    *)

\* A thread begins one of the calls its menu offers.
Begin(t, op, to) ==
  /\ op \in menu[t]
  /\ calls < MaxCalls
  /\ calls' = calls + 1
  /\ Goto(t, "idle", to)
  /\ call' = [call EXCEPT ![t] = IF to = "idle" THEN NULL ELSE op]

Call(t) ==
  /\ \E op \in menu[t] :
       /\ op[1] \notin {"scr_set_screen", "scr_get_screen"}
       /\ op[1] = "set_term_color" => op[2] \in ValidColors
       /\ Begin(t, op, "cons_lock")
  /\ Return(t, <<"none">>)
  /\ UNCHANGED <<memory, sems, crtc, buf, local, old, menu>>

\* cons_set_term_color looks at its argument before it takes a lock.
RefuseColor(t) ==
  /\ \E op \in menu[t] :
       /\ op[1] = "set_term_color" /\ op[2] \notin ValidColors
       /\ Begin(t, op, "idle")
  /\ Return(t, <<"-EINVAL">>)
  /\ UNCHANGED <<memory, sems, crtc, buf, local, old, menu>>

LockScreen(t) ==
  /\ pc[t] = "cons_lock"
  /\ sem_wait(t, cons_lock(Home[t]))
  /\ UNCHANGED <<memory, crtc, threads, menu, calls>>

LockBuffer(t) ==
  /\ pc[t] = "buffer_lock"
  /\ sem_wait(t, cons_buffer_lock(Home[t]))
  /\ UNCHANGED <<memory, crtc, threads, menu, calls>>

\* Finds the screen, wherever it is.
PickBuffer(t) ==
  /\ Goto(t, "pick", "do")
  /\ buf' = [buf EXCEPT ![t] = IF Home[t] = screen_idx THEN "console"
                                                       ELSE "screen"]
  /\ UNCHANGED <<memory, sems, crtc, call, local, old, ret, menu, calls>>

\* cond_interrupt takes a sleeper out of the queue and leaves the counter alone.
Interrupt(t) ==
  /\ interrupts
  /\ t \in Clients
  /\ \E m \in Semaphores : \E k \in DOMAIN sems[m].waiters :
       /\ sems[m].waiters[k] = t
       /\ sems' = [sems EXCEPT ![m].waiters = RemoveAt(@, k)]
  /\ pc' = [pc EXCEPT ![t] = IF @ = "buffer_lock" THEN "buffer_eintr" ELSE "cons_eintr"]
  /\ UNCHANGED <<memory, crtc, threads, menu, calls>>

\* sem_wait answers -EINTR, after it corrected the counter, and so does the call
\* of t; one that has the first semaphore has to give it back.
WaitFails(t) ==
  /\ \/ /\ Goto(t, "cons_eintr", "idle")
        /\ sems' = [sems EXCEPT ![cons_lock(Home[t])].count = @ + 1]
        /\ call' = [call EXCEPT ![t] = NULL]
     \/ /\ Goto(t, "buffer_eintr", "give_up")
        /\ sems' = [sems EXCEPT ![cons_buffer_lock(Home[t])].count = @ + 1]
        /\ UNCHANGED call
  /\ Return(t, <<"-EINTR">>)
  /\ UNCHANGED <<memory, crtc, buf, local, old, menu, calls>>

GiveUp(t) ==
  /\ pc[t] = "give_up"
  /\ sem_signal(t, cons_lock(Home[t]), "idle")
  /\ call' = [call EXCEPT ![t] = NULL]
  /\ UNCHANGED <<memory, crtc, buf, local, old, ret, menu, calls>>

UnlockBuffer(t) ==
  /\ pc[t] = "unlock_buffer"
  /\ sem_signal(t, cons_buffer_lock(Home[t]), "unlock_cons")
  /\ UNCHANGED <<memory, crtc, threads, menu, calls>>

UnlockScreen(t) ==
  /\ pc[t] = "unlock_cons"
  /\ sem_signal(t, cons_lock(Home[t]), "idle")
  /\ call' = [call EXCEPT ![t] = NULL]
  /\ buf'  = [buf EXCEPT ![t] = NULL]
  /\ UNCHANGED <<memory, crtc, local, old, ret, menu, calls>>

-----------------------------------------------------------------------------
(* The hardware cursor: two registers behind one index register.           *)

scr_is_console(t) == buf[t] = "console"

\* The row and the column are read once, before the registers are written.
SelectLsb(t) ==
  /\ Goto(t, "lsb_index", "lsb")
  /\ local' = [local EXCEPT ![t] = CursorIndex(console)]
  /\ crtc' = [crtc EXCEPT !.index = "lsb"]
  /\ UNCHANGED <<memory, sems, call, buf, old, ret, menu, calls>>

WriteCrtc(val) ==
  crtc' = IF crtc.index = "lsb" THEN [crtc EXCEPT !.lsb = val]
                                ELSE [crtc EXCEPT !.msb = val]

WriteLsb(t) ==
  /\ Goto(t, "lsb", "msb_index")
  /\ WriteCrtc(local[t] % Radix)
  /\ UNCHANGED <<memory, sems, threads, menu, calls>>

SelectMsb(t) ==
  /\ Goto(t, "msb_index", "msb")
  /\ crtc' = [crtc EXCEPT !.index = "msb"]
  /\ UNCHANGED <<memory, sems, threads, menu, calls>>

WriteMsb(t) ==
  /\ Goto(t, "msb", IF t \in Switchers THEN "set_idx" ELSE "unlock_buffer")
  /\ WriteCrtc((local[t] \div Radix) % Radix)
  /\ local' = [local EXCEPT ![t] = 0]
  /\ UNCHANGED <<memory, sems, call, buf, old, ret, menu, calls>>

-----------------------------------------------------------------------------
(* The calls of a client, on the screen it has locked.                     *)

Screen(t) == IF scr_is_console(t) THEN console ELSE screens[Home[t]]

Write(t, s) ==
  IF scr_is_console(t)
  THEN console' = s /\ UNCHANGED <<screens, screen_idx>>
  ELSE screens' = [screens EXCEPT ![Home[t]] = s] /\ UNCHANGED <<console, screen_idx>>

SyncOrUnlock(t) == IF scr_is_console(t) THEN "lsb_index" ELSE "unlock_buffer"

\* The call of t leaves the screen as s, answers val and goes on at "to".
Does(t, name, s, val, to) ==
  /\ Goto(t, "do", to)
  /\ call[t][1] = name
  /\ Write(t, s)
  /\ Return(t, val)
  /\ UNCHANGED <<sems, crtc, call, buf, local, old, menu, calls>>

putbyte(t) ==
  LET c == call[t][2] IN
  Does(t, "putbyte", scr_putbyte(Screen(t), c), <<"char", c>>, SyncOrUnlock(t))

\* The loop of scr_putbytes ends.
LastByte(t) == local[t] + 1 >= Len(call[t][2])

\* One byte of the string, or the end of it.
putbytes(t) ==
  LET str == call[t][2]
      last == LastByte(t)
      s == Screen(t)
  IN /\ pc[t] = "do" /\ call[t][1] = "putbytes"
     /\ Write(t, IF str = <<>> THEN s ELSE scr_putbyte(s, str[local[t] + 1]))
     /\ pc' = [pc EXCEPT ![t] = IF last THEN SyncOrUnlock(t) ELSE "do"]
     /\ local' = [local EXCEPT ![t] = IF last THEN 0 ELSE @ + 1]
     /\ IF last THEN Return(t, <<"0">>) ELSE UNCHANGED ret
     /\ UNCHANGED <<sems, crtc, call, buf, old, menu, calls>>

draw_char(t) ==
  LET op == call[t] IN
  Does(t, "draw_char", scr_draw_char(Screen(t), op[2], op[3], op[4], op[5]),
       <<"void">>, SyncOrUnlock(t))

clear_console(t) ==
  Does(t, "clear_console", scr_clear_console(Screen(t)), <<"void">>, "unlock_buffer")

cons_set_term_color(t) ==
  Does(t, "set_term_color", scr_set_term_color(Screen(t), call[t][2]), <<"0">>,
       "unlock_buffer")

get_term_color(t) ==
  Does(t, "get_term_color", Screen(t), <<"0", Screen(t).cons_cur_color>>,
       "unlock_buffer")

set_cursor(t) ==
  LET op == call[t] IN
  Does(t, "set_cursor", scr_set_cursor(Screen(t), op[2], op[3]),
       IF ValidPosition(op[2], op[3]) THEN <<"0">> ELSE <<"-1">>, SyncOrUnlock(t))

get_cursor(t) ==
  Does(t, "get_cursor", Screen(t), <<"0">> \o scr_get_cursor(Screen(t)),
       "unlock_buffer")

hide_cursor(t) ==
  Does(t, "hide_cursor", scr_hide_cursor(Screen(t)), <<"0">>, SyncOrUnlock(t))

show_cursor(t) ==
  Does(t, "show_cursor", scr_show_cursor(Screen(t)), <<"0">>, SyncOrUnlock(t))

get_char(t) ==
  LET op == call[t] IN
  Does(t, "get_char", Screen(t), <<"char", scr_get_char(Screen(t), op[2], op[3])>>,
       "unlock_buffer")

-----------------------------------------------------------------------------
(* Changing the screen in the foreground.                                  *)

\* No lock is needed to look at screen_idx.
scr_get_screen(t) ==
  /\ Begin(t, <<"scr_get_screen">>, "idle")
  /\ Return(t, <<"screen", screen_idx>>)
  /\ UNCHANGED <<memory, sems, crtc, buf, local, old, menu>>

\* An argument past the count is refused, the current screen is left alone.
\* (The count itself passes the test at line 228; the calls leave it out.)
SwitchNothing(t) ==
  \E op \in menu[t] :
    /\ op[1] = "scr_set_screen"
    /\ op[2] > CONFIG_SCREEN_COUNT \/ op[2] = screen_idx
    /\ Begin(t, op, "idle")
    /\ Return(t, IF op[2] = screen_idx THEN <<"0">> ELSE <<"-EINVAL">>)
    /\ UNCHANGED <<memory, sems, crtc, buf, local, old, menu>>

\* The locks are those of the new screen, and of the one that is current now.
SwitchBegin(t) ==
  /\ \E op \in menu[t] :
       /\ op[1] = "scr_set_screen"
       /\ op[2] \in Ids \ {screen_idx}
       /\ Begin(t, op, "new_lock")
  /\ old' = [old EXCEPT ![t] = screen_idx]
  /\ Return(t, <<"none">>)
  /\ UNCHANGED <<memory, sems, crtc, buf, local, menu>>

LockNew(t) ==
  /\ pc[t] = "new_lock"
  /\ sem_wait(t, cons_buffer_lock(call[t][2]))
  /\ UNCHANGED <<memory, crtc, threads, menu, calls>>

LockOld(t) ==
  /\ pc[t] = "old_lock"
  /\ sem_wait(t, cons_buffer_lock(old[t]))
  /\ UNCHANGED <<memory, crtc, threads, menu, calls>>

save_screen(t) ==
  /\ Goto(t, "save", "load")
  /\ screens' = [screens EXCEPT ![screen_idx] = console]
  /\ UNCHANGED <<console, screen_idx, sems, crtc, threads, menu, calls>>

\* Ends with cursor_sync.
load_screen(t) ==
  /\ Goto(t, "load", "lsb_index")
  /\ console' = screens[call[t][2]]
  /\ UNCHANGED <<screens, screen_idx, sems, crtc, threads, menu, calls>>

SetIndex(t) ==
  /\ Goto(t, "set_idx", "signal_old")
  /\ screen_idx' = call[t][2]
  /\ UNCHANGED <<console, screens, sems, crtc, threads, menu, calls>>

SignalOld(t) ==
  /\ pc[t] = "signal_old"
  /\ sem_signal(t, cons_buffer_lock(old[t]), "signal_new")
  /\ old' = [old EXCEPT ![t] = NULL]
  /\ UNCHANGED <<memory, crtc, call, buf, local, ret, menu, calls>>

SignalNew(t) ==
  /\ pc[t] = "signal_new"
  /\ sem_signal(t, cons_buffer_lock(call[t][2]), "idle")
  /\ call' = [call EXCEPT ![t] = NULL]
  /\ Return(t, <<"0">>)
  /\ UNCHANGED <<memory, crtc, buf, local, old, menu, calls>>

-----------------------------------------------------------------------------
\* What a thread does by itself once it is in a call.
Step(t) ==
  \/ LockScreen(t) \/ LockBuffer(t) \/ PickBuffer(t) \/ WaitFails(t) \/ GiveUp(t)
  \/ UnlockBuffer(t) \/ UnlockScreen(t)
  \/ SelectLsb(t) \/ WriteLsb(t) \/ SelectMsb(t) \/ WriteMsb(t)
  \/ putbyte(t) \/ putbytes(t) \/ draw_char(t) \/ clear_console(t)
  \/ cons_set_term_color(t) \/ get_term_color(t) \/ set_cursor(t) \/ get_cursor(t)
  \/ hide_cursor(t) \/ show_cursor(t) \/ get_char(t)
  \/ LockNew(t) \/ LockOld(t) \/ save_screen(t) \/ load_screen(t)
  \/ SetIndex(t) \/ SignalOld(t) \/ SignalNew(t)

Next ==
  /\ \E t \in Threads :
       \/ Call(t) \/ RefuseColor(t) \/ scr_get_screen(t)
       \/ SwitchNothing(t) \/ SwitchBegin(t)
       \/ Step(t) \/ Interrupt(t)
  /\ UNCHANGED interrupts

\* The scheduler runs every thread that is ready again and again.
Fairness == \A t \in Threads : WF_vars(Step(t) /\ UNCHANGED interrupts)

Spec == Init /\ [][Next]_vars /\ Fairness

-----------------------------------------------------------------------------
(* What is in each screen, wherever it is.                                 *)

\* From save_screen until screen_idx changes, the screen to leave is in the
\* array and not in the video memory.
Saved == \E t \in Switchers :
  pc[t] \in {"load", "lsb_index", "lsb", "msb_index", "msb", "set_idx"}

Logical == [i \in Ids |-> IF i = screen_idx /\ ~Saved THEN console ELSE screens[i]]

InPutbytes(t, i) == Home[t] = i /\ pc[t] = "do" /\ local[t] > 0

Printing == [i \in Ids |->
  IF \E t \in Clients : InPutbytes(t, i)
  THEN CHOOSE t \in Clients : InPutbytes(t, i) ELSE NULL]

Offered == UNION {m[t] : m \in Menus, t \in Clients}

Abstract == INSTANCE ScreensSpec
  WITH logical <- Logical, foreground <- screen_idx, printing <- Printing,
       Calls <- Offered,
       Bytes <- UNION {Range(op[2]) : op \in {o \in Offered : o[1] = "putbytes"}}

-----------------------------------------------------------------------------
(* The properties.                                                         *)

\* A screen behaves as a console of its own: only its own threads change what
\* is on it, one call (putbytes whole) after the other, and neither a change of
\* screen nor an interrupted call adds, loses or misplaces a character (lines
\* 187-252 and 399-428).
ImplementsScreens == Abstract!Spec

InBuffer(t) == pc[t] \in {"do", "lsb_index", "lsb", "msb_index", "msb"}
InSwitch(t) == pc[t] \in {"save", "load", "set_idx"}
UsesConsole(t) == \/ InBuffer(t) /\ (scr_is_console(t) \/ t \in Switchers)
                  \/ InSwitch(t)

\* The video memory and the cursor's registers have one user at a time: a client
\* that found its screen in the foreground, or a thread that changes it, though
\* neither takes a lock of the structure console (lines 236-242 and 417-420).
ConsoleExclusive ==
  \A t, u \in Threads : t # u => ~(UsesConsole(t) /\ UsesConsole(u))

\* Who has each semaphore of a screen.
HoldsScreen(t, i) ==
  /\ t \in Clients /\ Home[t] = i
  /\ \/ pc[t] \in {"buffer_lock", "pick", "unlock_buffer", "unlock_cons",
                    "buffer_eintr", "give_up"}
     \/ InBuffer(t)
HoldsBoth(t) == InSwitch(t) \/ InBuffer(t) \/ pc[t] = "signal_old"
HoldsBuffer(t, i) ==
  \/ t \in Clients /\ Home[t] = i /\ (InBuffer(t) \/ pc[t] \in {"pick", "unlock_buffer"})
  \/ /\ t \in Switchers
     /\ \/ HoldsBoth(t) /\ i \in {old[t], call[t][2]}
        \/ pc[t] \in {"old_lock", "signal_new"} /\ i = call[t][2]
Holders(m) ==
  {t \in Threads : IF m[2] = "cons_lock" THEN HoldsScreen(t, m[1]) ELSE HoldsBuffer(t, m[1])}

\* Who was interrupted in sem_wait and has not corrected the counter yet.
Late(m) == {t \in Clients :
  Home[t] = m[1] /\ pc[t] = IF m[2] = "cons_lock" THEN "cons_eintr" ELSE "buffer_eintr"}

\* Each semaphore of a screen has one holder at most, and its counter is one
\* less for everybody who is in it: who has it, who sleeps in it, and who was
\* interrupted and has not corrected it yet, also when a thread is interrupted
\* between the two semaphores (line 413).  Without interrupts nobody sleeps in a
\* semaphore that nobody has.
PermitsMatchHolders ==
  \A m \in Semaphores :
    /\ Cardinality(Holders(m)) <= 1
    /\ sems[m].count = 1 - (Cardinality(Holders(m)) + Len(sems[m].waiters)
                              + Cardinality(Late(m)))
    /\ ~interrupts /\ sems[m].waiters # <<>> => Holders(m) # {}

\* The comment at lines 233-235: a change of screen never waits for the queue of
\* a screen, as it is always the next in the queue of the buffer's lock, also
\* when clients come and are interrupted.
SwitchWaitsForOnePrint ==
  \A m \in Semaphores : \A t \in Switchers :
    Waits(t, m) => m[2] = "cons_buffer_lock" /\ Head(sems[m].waiters) = t

\* While nobody is in the screen in the foreground, the registers of the cursor
\* show the cursor of that screen, once they were written at all: every change
\* of the cursor, and every change of screen, is followed by cursor_sync.
HardwareCursor ==
  Holders(cons_buffer_lock(screen_idx)) = {} /\ crtc.lsb # NULL =>
    crtc.lsb + Radix * crtc.msb = CursorIndex(console) % (Radix * Radix)

\* No sequence of calls leaves a cursor outside of its screen, save at the start
\* of the line below the last one (check_cursor, lines 152-179).
CursorInRange ==
  \A i \in Ids : LET s == Logical[i] IN
    /\ s.cons_cur_x \in 0..(CONSOLE_WIDTH - 1)
    /\ s.cons_cur_y \in 0..CONSOLE_HEIGHT
    /\ s.cons_cur_y = CONSOLE_HEIGHT => s.cons_cur_x = 0

Control == {"newline", "return", "backspace"}

\* The printable byte, if any, that t draws in this step.
Drawn(t) ==
  IF pc[t] = "do" /\ <<pc[t], local[t]>> # <<pc[t], local[t]>>'
  THEN CASE call[t][1] = "putbyte" -> {call[t][2]} \ Control
         [] call[t][1] = "putbytes" /\ call[t][2] # <<>>
              -> {call[t][2][local[t] + 1]} \ Control
         [] OTHER -> {}
  ELSE {}

Position(s) == TERM_CHAR_INDEX(s.cons_cur_y, s.cons_cur_x)

\* c is in the cell before the cursor, and the text before it is what it was,
\* as many cells further up as the screen was scrolled.
Shows(before, after, c) ==
  LET p == Position(before)
      q == Position(after)
  IN /\ after.cons_buf[q - 1] = <<c, before.cons_cur_color>>
     /\ \A i \in 0..(q - 2) : after.cons_buf[i] = before.cons_buf[i + (p + 1 - q)]

\* A byte printed with the cursor on the screen shows up, at the end of a line
\* and on the last line too, and the text before it is kept (lines 273-300).
PrintedIsShown ==
  [][\A t \in Clients : Screen(t).cons_cur_y < CONSOLE_HEIGHT =>
       \A c \in Drawn(t) : Shows(Screen(t), Screen(t)', c)]_vars

\* The comment at lines 145-150, and the one at 167-170: below the last line a
\* hidden cursor has the screen scrolled when the next character is written to
\* the new line, so that one shows up as well.
PrintedIsAlwaysShown ==
  [][\A t \in Clients : \A c \in Drawn(t) : Shows(Screen(t), Screen(t)', c)]_vars

\* Every call ends, the changes of screen too: neither the two semaphores of a
\* screen nor the two screens of a change are a reason to wait for ever.  An
\* interrupt can break this: the counter that sem_wait corrects late (sem.c:74)
\* has a later thread sleep in a semaphore that nobody has.
CallsEnd ==
  \A t \in Threads : ~interrupts /\ pc[t] # "idle" ~> pc[t] = "idle"

=============================================================================
