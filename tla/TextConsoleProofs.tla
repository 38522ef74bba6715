-------------------------- MODULE TextConsoleProofs -------------------------
(***************************************************************************)
(* Theorems about TextConsole, for any number of threads and screens, any  *)
(* size of a screen and any calls.                                         *)
(***************************************************************************)
EXTENDS TextConsole, QueueLemmas, FiniteSetTheorems

-----------------------------------------------------------------------------
(* The operations on one screen.                                           *)

\* A record with the fields of cons_screen_t.
Shape(s) ==
  /\ s = [f \in {"cons_buf", "cons_cur_x", "cons_cur_y", "cons_cur_state",
                 "cons_cur_color"} |-> s[f]]
  /\ DOMAIN s.cons_buf = Cells
  /\ s.cons_cur_state \in {CURSOR_STATE_VISIBLE, CURSOR_STATE_HIDDEN}

\* The cursor is on the screen, or at the start of the line below.
InRange(s) ==
  /\ s.cons_cur_x \in 0..(CONSOLE_WIDTH - 1)
  /\ s.cons_cur_y \in 0..CONSOLE_HEIGHT
  /\ s.cons_cur_y = CONSOLE_HEIGHT => s.cons_cur_x = 0

IsScreen(s) == Shape(s) /\ InRange(s)

SameCursor(s, r) ==
  /\ r.cons_cur_x = s.cons_cur_x
  /\ r.cons_cur_y = s.cons_cur_y
  /\ r.cons_cur_state = s.cons_cur_state

LEMMA NewIsScreen == IsScreen(NewScreen)
BY ScreenAssumption DEF IsScreen, Shape, InRange, NewScreen

\* Drawing leaves the cursor alone.
LEMMA DrawKeeps ==
  ASSUME NEW s, Shape(s), NEW row, NEW col, NEW ch, NEW color
  PROVE  LET r == scr_draw_char(s, row, col, ch, color)
         IN Shape(r) /\ SameCursor(s, r)
BY DEF Shape, SameCursor, scr_draw_char

\* A change of the cursor leaves a screen, and so does a scroll.
MoveX(s, x)     == [s EXCEPT !.cons_cur_x = x]
MoveTo(s, x, y) == [s EXCEPT !.cons_cur_x = x, !.cons_cur_y = y]

LEMMA MoveXKeeps ==
  ASSUME NEW s, Shape(s), NEW x
  PROVE  /\ Shape(MoveX(s, x))
         /\ MoveX(s, x).cons_cur_x = x
         /\ MoveX(s, x).cons_cur_y = s.cons_cur_y
         /\ MoveX(s, x).cons_cur_state = s.cons_cur_state
BY DEF Shape, MoveX

LEMMA MoveToKeeps ==
  ASSUME NEW s, Shape(s), NEW x, NEW y
  PROVE  /\ Shape(MoveTo(s, x, y))
         /\ MoveTo(s, x, y).cons_cur_x = x
         /\ MoveTo(s, x, y).cons_cur_y = y
         /\ MoveTo(s, x, y).cons_cur_state = s.cons_cur_state
BY DEF Shape, MoveTo

LEMMA ScrollKeeps ==
  ASSUME NEW s, Shape(s), NEW n
  PROVE  /\ Shape(scrollback(s, n))
         /\ scrollback(s, n).cons_cur_x = s.cons_cur_x
         /\ scrollback(s, n).cons_cur_y = s.cons_cur_y - n
BY DEF Shape, scrollback

\* The cursor after each byte, before it is checked.
LEMMA TypeByteKeeps ==
  ASSUME NEW s, IsScreen(s), NEW c
  PROVE  LET r == TypeByte(s, c)
         IN /\ Shape(r)
            /\ r.cons_cur_x \in -1..CONSOLE_WIDTH
            /\ r.cons_cur_y \in Nat
<1> USE ScreenAssumption
<1>0. /\ Shape(s)
      /\ s.cons_cur_x \in 0..(CONSOLE_WIDTH - 1)
      /\ s.cons_cur_y \in Nat
  BY DEF IsScreen, InRange
<1>1. CASE c = "newline"
  <2> DEFINE y == s.cons_cur_y + 1
             r == MoveTo(s, 0, y)
  <2>1. Shape(r) /\ r.cons_cur_x = 0 /\ r.cons_cur_y = y
    BY <1>0, MoveXKeeps, MoveToKeeps
  <2>2. TypeByte(s, c) = r
    BY <1>1 DEF TypeByte, MoveX, MoveTo
  <2> HIDE DEF r
  <2> QED
    BY <1>0, <2>1, <2>2
<1>2. CASE c = "return"
  <2> DEFINE r == MoveX(s, 0)
  <2>1. Shape(r) /\ r.cons_cur_x = 0 /\ r.cons_cur_y = s.cons_cur_y
    BY <1>0, MoveXKeeps, MoveToKeeps
  <2>2. TypeByte(s, c) = r
    BY <1>2 DEF TypeByte, MoveX, MoveTo
  <2> HIDE DEF r
  <2> QED
    BY <1>0, <2>1, <2>2
<1>3. CASE c = "backspace"
  <2> DEFINE x == s.cons_cur_x - 1
             r == MoveX(s, x)
  <2>1. Shape(r) /\ r.cons_cur_x = x /\ r.cons_cur_y = s.cons_cur_y
    BY <1>0, MoveXKeeps, MoveToKeeps
  <2>2. TypeByte(s, c) = r
    BY <1>3 DEF TypeByte, MoveX, MoveTo
  <2> HIDE DEF r
  <2> QED
    BY <1>0, <2>1, <2>2
<1>4. CASE c \notin {"newline", "return", "backspace"}
  <2> DEFINE d == scr_draw_char(s, s.cons_cur_y, s.cons_cur_x, c, s.cons_cur_color)
             e == MoveX(d, d.cons_cur_x + 1)
             y == e.cons_cur_y + 1
             r == MoveTo(e, 0, y)
  <2>1. Shape(d) /\ SameCursor(s, d)
    BY <1>0, DrawKeeps
  <2> HIDE DEF d
  <2>2. /\ Shape(e) /\ e.cons_cur_x = d.cons_cur_x + 1
        /\ e.cons_cur_y = d.cons_cur_y
    BY <2>1, MoveXKeeps, MoveToKeeps
  <2>3. TypeByte(s, c) = WrapForward(e)
    BY <1>4 DEF TypeByte, d, MoveX, MoveTo
  <2> HIDE DEF e
  <2>4. Shape(r) /\ r.cons_cur_x = 0 /\ r.cons_cur_y = y
    BY <2>2, MoveXKeeps, MoveToKeeps
  <2>5. TypeByte(s, c) = IF e.cons_cur_x >= CONSOLE_WIDTH THEN r ELSE e
    BY <2>3 DEF WrapForward, MoveX, MoveTo
  <2>6. /\ e.cons_cur_x \in -1..CONSOLE_WIDTH /\ e.cons_cur_y \in Nat /\ y \in Nat
    BY <1>0, <2>1, <2>2 DEF SameCursor
  <2> HIDE DEF r, y
  <2> QED
    BY <2>2, <2>4, <2>5, <2>6
<1> QED
  BY <1>1, <1>2, <1>3, <1>4

\* check_cursor brings it back.
LEMMA CheckBrings ==
  ASSUME NEW s, Shape(s), s.cons_cur_x \in -1..CONSOLE_WIDTH, s.cons_cur_y \in Nat
  PROVE  IsScreen(check_cursor(s))
<1> USE ScreenAssumption
<1> DEFINE f == WrapForward(s)
           g == WrapBack(f)
           stays == /\ g.cons_cur_y = CONSOLE_HEIGHT
                    /\ g.cons_cur_state = CURSOR_STATE_HIDDEN
                    /\ g.cons_cur_x = 0
           n == (g.cons_cur_y - CONSOLE_HEIGHT) + 1
<1>1. Shape(f) /\ f.cons_cur_x \in -1..(CONSOLE_WIDTH - 1) /\ f.cons_cur_y \in Nat
  <2> DEFINE y == s.cons_cur_y + 1
             r == MoveTo(s, 0, y)
  <2>1. Shape(r) /\ r.cons_cur_x = 0 /\ r.cons_cur_y = y
    BY MoveXKeeps, MoveToKeeps
  <2>2. f = IF s.cons_cur_x >= CONSOLE_WIDTH THEN r ELSE s
    BY DEF WrapForward, MoveX, MoveTo
  <2> HIDE DEF r, f
  <2> QED
    BY <2>1, <2>2
<1> HIDE DEF f
<1>2. /\ Shape(g) /\ g.cons_cur_x \in 0..(CONSOLE_WIDTH - 1) /\ g.cons_cur_y \in Nat
  <2> DEFINE x == CONSOLE_WIDTH - 1
             y == f.cons_cur_y - 1
             r == MoveTo(f, x, y)
             q == MoveX(f, 0)
  <2>1. /\ Shape(r) /\ r.cons_cur_x = x /\ r.cons_cur_y = y
        /\ Shape(q) /\ q.cons_cur_x = 0 /\ q.cons_cur_y = f.cons_cur_y
    BY <1>1, MoveXKeeps, MoveToKeeps
  <2>2. g = IF f.cons_cur_x < 0 THEN IF f.cons_cur_y > 0 THEN r ELSE q ELSE f
    BY DEF WrapBack, MoveX, MoveTo
  <2> HIDE DEF r, q, g
  <2> QED
    BY <1>1, <2>1, <2>2
<1> HIDE DEF g
<1>3. check_cursor(s) = IF ~stays /\ g.cons_cur_y >= CONSOLE_HEIGHT
                        THEN scrollback(g, n) ELSE g
  BY DEF check_cursor, f, g
<1>4. /\ Shape(scrollback(g, n))
      /\ scrollback(g, n).cons_cur_x = g.cons_cur_x
      /\ scrollback(g, n).cons_cur_y = g.cons_cur_y - n
  BY <1>2, ScrollKeeps
<1>5. g.cons_cur_y - n = CONSOLE_HEIGHT - 1
  BY <1>2
<1> QED
  BY <1>2, <1>3, <1>4, <1>5 DEF IsScreen, InRange

LEMMA PutbyteKeeps ==
  ASSUME NEW s, IsScreen(s), NEW c
  PROVE  IsScreen(scr_putbyte(s, c))
<1> DEFINE b == check_cursor(TypeByte(s, c))
           r == scr_draw_char(b, b.cons_cur_y, b.cons_cur_x, " ", b.cons_cur_color)
<1>1. IsScreen(b)
  BY TypeByteKeeps, CheckBrings
<1>2. scr_putbyte(s, c) = r
  BY DEF scr_putbyte
<1> HIDE DEF b
<1>3. Shape(r) /\ SameCursor(b, r)
  BY <1>1, DrawKeeps DEF IsScreen
<1> HIDE DEF r
<1> QED
  BY <1>1, <1>2, <1>3 DEF IsScreen, InRange, SameCursor

\* The other calls.
LEMMA CallsKeep ==
  ASSUME NEW s, IsScreen(s), NEW row, NEW col, NEW ch, NEW color
  PROVE  /\ IsScreen(scr_draw_char(s, row, col, ch, color))
         /\ IsScreen(scr_clear_console(s))
         /\ SameCursor(s, scr_clear_console(s))
         /\ IsScreen(scr_set_term_color(s, color))
         /\ SameCursor(s, scr_set_term_color(s, color))
         /\ IsScreen(scr_set_cursor(s, row, col))
         /\ IsScreen(scr_hide_cursor(s))
         /\ IsScreen(scr_show_cursor(s))
<1>1. IsScreen(scr_draw_char(s, row, col, ch, color))
  BY DrawKeeps DEF IsScreen, InRange, SameCursor
<1>2. /\ IsScreen(scr_clear_console(s))
      /\ SameCursor(s, scr_clear_console(s))
  BY DEF IsScreen, InRange, Shape, SameCursor, scr_clear_console
<1>3. /\ IsScreen(scr_set_term_color(s, color))
      /\ SameCursor(s, scr_set_term_color(s, color))
  BY DEF IsScreen, InRange, Shape, SameCursor, scr_set_term_color
<1>4. IsScreen(scr_set_cursor(s, row, col))
  <2> DEFINE r == MoveTo(s, col, row)
  <2>1. Shape(r) /\ r.cons_cur_x = col /\ r.cons_cur_y = row
    BY MoveXKeeps, MoveToKeeps DEF IsScreen
  <2>2. scr_set_cursor(s, row, col) = IF ValidPosition(row, col) THEN r ELSE s
    BY DEF scr_set_cursor, MoveX, MoveTo
  <2> HIDE DEF r
  <2>3. ValidPosition(row, col) => IsScreen(r)
    BY <2>1, ScreenAssumption DEF IsScreen, InRange, ValidPosition
  <2> QED
    BY <2>2, <2>3
<1>5. IsScreen(scr_hide_cursor(s)) /\ IsScreen(scr_show_cursor(s))
  BY DEF IsScreen, InRange, Shape, scr_hide_cursor, scr_show_cursor
<1> QED
  BY <1>1, <1>2, <1>3, <1>4, <1>5

-----------------------------------------------------------------------------
(* Where each thread is, and what it holds there.                          *)

Syncing == {"lsb_index", "lsb", "msb_index", "msb"}

ClientLabels == {"idle", "cons_lock", "buffer_lock", "pick", "do",
                 "unlock_buffer", "unlock_cons", "cons_eintr", "buffer_eintr",
                 "give_up"} \cup Syncing

SwitcherLabels == {"idle", "new_lock", "old_lock", "save", "load", "set_idx",
                   "signal_old", "signal_new"} \cup Syncing

Waiting == {"cons_lock", "buffer_lock", "new_lock", "old_lock"}
Interrupted == {"cons_eintr", "buffer_eintr"}

\* The variables of the threads and of the semaphores.
Places ==
  /\ interrupts \in BOOLEAN
  /\ menu \in Menus
  /\ sems \in [Semaphores -> [count : Int, waiters : Seq(Threads)]]
  /\ pc \in [Threads -> Labels]
  /\ DOMAIN call = Threads
  /\ DOMAIN old = Threads
  /\ \A t \in Clients : /\ pc[t] \in ClientLabels
                        /\ pc[t] \in {"cons_eintr", "buffer_eintr"} => interrupts
  /\ \A t \in Switchers :
       /\ pc[t] \in SwitcherLabels
       /\ pc[t] # "idle" => call[t][2] \in Ids
       /\ pc[t] \notin {"idle", "signal_new"} =>
            old[t] \in Ids /\ old[t] # call[t][2]

ScreenHeld == ClientLabels \ {"idle", "cons_lock", "cons_eintr"}
BufferHeld == {"pick", "do", "unlock_buffer"} \cup Syncing
NewHeld == SwitcherLabels \ {"idle", "new_lock"}
OldHeld == {"save", "load", "set_idx", "signal_old"} \cup Syncing

\* t has semaphore m.
Owns(t, m) ==
  \/ /\ t \in Clients
     /\ \/ pc[t] \in ScreenHeld /\ m = cons_lock(Home[t])
        \/ pc[t] \in BufferHeld /\ m = cons_buffer_lock(Home[t])
  \/ /\ t \in Switchers
     /\ \/ pc[t] \in NewHeld /\ m = cons_buffer_lock(call[t][2])
        \/ pc[t] \in OldHeld /\ m = cons_buffer_lock(old[t])

\* t is at a wait for semaphore m.
Wants(t, m) ==
  \/ pc[t] = "cons_lock" /\ m = cons_lock(Home[t])
  \/ pc[t] = "buffer_lock" /\ m = cons_buffer_lock(Home[t])
  \/ pc[t] = "new_lock" /\ m = cons_buffer_lock(call[t][2])
  \/ pc[t] = "old_lock" /\ m = cons_buffer_lock(old[t])

\* t was interrupted in semaphore m and has not corrected its counter yet.
Repairs(t, m) ==
  \/ pc[t] = "cons_eintr" /\ m = cons_lock(Home[t])
  \/ pc[t] = "buffer_eintr" /\ m = cons_buffer_lock(Home[t])

\* Whom the counter of m stands for.
In(t, m) == Owns(t, m) \/ Waits(t, m) \/ Repairs(t, m)
Inside(m) == {t \in Threads : In(t, m)}

CountRight == \A m \in Semaphores : sems[m].count = 1 - Cardinality(Inside(m))

\* Who sleeps is waited upon by an owner, as long as nobody is interrupted.
Served(m) ==
  ~interrupts /\ sems[m].waiters # <<>> => \E t \in Threads : Owns(t, m)

\* No client queues in the semaphore of a buffer ahead of a switcher.
SwitcherNext(m) ==
  m[2] = "cons_buffer_lock" /\ sems[m].waiters # <<>> =>
    \E t \in Switchers : Owns(t, m) \/ t = Head(sems[m].waiters)

\* Each semaphore has one owner at most, and who waits for it wants it.
LockInv ==
  /\ CountRight
  /\ \A m \in Semaphores :
       /\ \A t, u \in Threads : Owns(t, m) /\ Owns(u, m) => t = u
       /\ IsInjective(sems[m].waiters)
       /\ \A t \in Threads : Waits(t, m) => Wants(t, m)
       /\ Served(m)
       /\ SwitcherNext(m)

-----------------------------------------------------------------------------
(* What is in the screens and in the registers.                            *)

Contents ==
  /\ screen_idx \in Ids
  /\ IsScreen(console)
  /\ DOMAIN screens = Ids
  /\ \A i \in Ids : IsScreen(screens[i])

Registers ==
  /\ crtc \in [index : {"lsb", "msb", NULL},
               lsb : (0..(Radix - 1)) \cup {NULL},
               msb : (0..(Radix - 1)) \cup {NULL}]
  /\ local \in [Threads -> Nat]
  /\ buf \in [Threads -> {"console", "screen", NULL}]

\* The two locks of a change are those of the screens it leaves and enters, and
\* a client on the console is one of the screen in the foreground.
FrontOf(t) ==
  /\ t \in Switchers =>
       /\ pc[t] \notin {"idle", "signal_old", "signal_new"} => old[t] = screen_idx
       /\ pc[t] \in {"signal_old", "signal_new"} => call[t][2] = screen_idx
  /\ t \in Clients /\ InBuffer(t) => (scr_is_console(t) <=> Home[t] = screen_idx)

Foreground == \A t \in Threads : FrontOf(t)

\* Somebody is about to write the registers of the cursor.
Unsynced(t) ==
  \/ pc[t] \in Syncing
  \/ t \in Clients /\ pc[t] = "do" /\ local[t] # 0 /\ scr_is_console(t)

\* What the registers hold while t writes them.
SyncOf(t) ==
  /\ pc[t] \in Syncing => t \in Switchers \/ scr_is_console(t)
  /\ local[t] # 0 => \/ pc[t] \in Syncing
                     \/ pc[t] = "do" /\ call[t][1] = "putbytes"
  /\ pc[t] \in Syncing \ {"lsb_index"} => local[t] = CursorIndex(console)
  /\ pc[t] = "lsb" => crtc.index = "lsb"
  /\ pc[t] \in {"msb_index", "msb"} => crtc.lsb = local[t] % Radix
  /\ pc[t] = "msb" => crtc.index = "msb"

\* What they hold once they are written.
Shown ==
  \/ crtc.lsb = NULL
  \/ crtc.lsb + Radix * crtc.msb = CursorIndex(console) % (Radix * Radix)

Cursor ==
  /\ \A t \in Threads : SyncOf(t)
  /\ (\E t \in Threads : Unsynced(t)) \/ Shown

-----------------------------------------------------------------------------
(* The semaphores.                                                         *)

\* The names of semaphores.
LEMMA Names ==
  /\ \A i \in Ids : /\ cons_lock(i) \in Semaphores
                    /\ cons_buffer_lock(i) \in Semaphores
  /\ \A i, j : /\ cons_lock(i) # cons_buffer_lock(j)
               /\ cons_lock(i) = cons_lock(j) => i = j
               /\ cons_buffer_lock(i) = cons_buffer_lock(j) => i = j
BY DEF Semaphores, cons_lock, cons_buffer_lock

\* A thread waits for one semaphore, which it does not own.
LEMMA WantsOne ==
  ASSUME Places, NEW t \in Threads, NEW m, Wants(t, m)
  PROVE  /\ m \in Semaphores
         /\ ~Owns(t, m)
         /\ pc[t] \in Waiting
         /\ \A n : Wants(t, n) => n = m
<1>1. Home \in [Clients -> Ids] /\ Clients \cap Switchers = {}
  BY TextConsoleAssumption
<1>2. pc[t] \in Waiting /\ \A n : Wants(t, n) => n = m
  BY DEF Wants, Waiting
<1>3. CASE t \in Clients
  <2>1. pc[t] \in {"cons_lock", "buffer_lock"}
    BY <1>2, <1>3 DEF Places, Waiting, ClientLabels, Syncing
  <2> QED
    BY <1>1, <1>2, <1>3, <2>1, Names
       DEF Wants, Owns, ScreenHeld, BufferHeld, ClientLabels, Syncing
<1>4. CASE t \in Switchers
  <2>1. pc[t] \in {"new_lock", "old_lock"}
    BY <1>2, <1>4 DEF Places, Waiting, SwitcherLabels, Syncing
  <2>2. call[t][2] \in Ids /\ old[t] \in Ids /\ old[t] # call[t][2]
    BY <1>4, <2>1 DEF Places
  <2> QED
    BY <1>1, <1>2, <1>4, <2>1, <2>2, Names
       DEF Wants, Owns, NewHeld, OldHeld, SwitcherLabels, Syncing
<1> QED
  BY <1>3, <1>4 DEF Threads

\* A thread that gets what it waits for owns it besides what it had.
LEMMA GrantedOwns ==
  ASSUME Places, NEW t \in Threads, NEW m, Wants(t, m),
         pc'[t] = Granted(pc[t]), call'[t] = call[t], old'[t] = old[t]
  PROVE  \A n : Owns(t, n)' <=> Owns(t, n) \/ n = m
<1>1. Clients \cap Switchers = {}
  BY TextConsoleAssumption
<1>2. pc[t] \in Waiting
  BY WantsOne
<1>3. CASE t \in Clients
  <2>1. pc[t] \in {"cons_lock", "buffer_lock"}
    BY <1>2, <1>3 DEF Places, Waiting, ClientLabels, Syncing
  <2>2. CASE pc[t] = "cons_lock"
    <3>1. pc'[t] = "buffer_lock" /\ m = cons_lock(Home[t])
      BY <2>2 DEF Granted, Wants
    <3> QED
      BY <1>1, <1>3, <2>2, <3>1 DEF Owns, ScreenHeld, BufferHeld, ClientLabels, Syncing
  <2>3. CASE pc[t] = "buffer_lock"
    <3>1. pc'[t] = "pick" /\ m = cons_buffer_lock(Home[t])
      BY <2>3 DEF Granted, Wants
    <3> QED
      BY <1>1, <1>3, <2>3, <3>1 DEF Owns, ScreenHeld, BufferHeld, ClientLabels, Syncing
  <2> QED
    BY <2>1, <2>2, <2>3
<1>4. CASE t \in Switchers
  <2>1. pc[t] \in {"new_lock", "old_lock"}
    BY <1>2, <1>4 DEF Places, Waiting, SwitcherLabels, Syncing
  <2>2. CASE pc[t] = "new_lock"
    <3>1. pc'[t] = "old_lock" /\ m = cons_buffer_lock(call[t][2])
      BY <2>2 DEF Granted, Wants
    <3> QED
      BY <1>1, <1>4, <2>2, <3>1 DEF Owns, NewHeld, OldHeld, SwitcherLabels, Syncing
  <2>3. CASE pc[t] = "old_lock"
    <3>1. pc'[t] = "save" /\ m = cons_buffer_lock(old[t])
      BY <2>3 DEF Granted, Wants
    <3> QED
      BY <1>1, <1>4, <2>3, <3>1 DEF Owns, NewHeld, OldHeld, SwitcherLabels, Syncing
  <2> QED
    BY <2>1, <2>2, <2>3
<1> QED
  BY <1>3, <1>4 DEF Threads

\* Nothing but the threads u with pc, call or old changed owns or wants others.
Steady(u) == pc'[u] = pc[u] /\ call'[u] = call[u] /\ old'[u] = old[u]

LEMMA SteadyOwns ==
  ASSUME NEW u, Steady(u)
  PROVE  \A n : /\ Owns(u, n)' <=> Owns(u, n)
                /\ Wants(u, n)' <=> Wants(u, n)
                /\ Repairs(u, n)' <=> Repairs(u, n)
BY DEF Steady, Owns, Wants, Repairs

\* The counter of a semaphore, as threads come to it and leave it.
LEMMA SetCount ==
  ASSUME NEW S \in SUBSET Threads, NEW t \in Threads
  PROVE  /\ Cardinality(S) \in Nat
         /\ Cardinality(S) = 0 <=> S = {}
         /\ t \notin S => Cardinality(S \cup {t}) = Cardinality(S) + 1
         /\ t \in S => Cardinality(S \ {t}) = Cardinality(S) - 1
<1>1. IsFiniteSet(S)
  BY FS_Subset, TextConsoleAssumption
<1> QED
  BY <1>1, FS_CardinalityType, FS_EmptySet, FS_AddElement, FS_RemoveElement

LEMMA InsideCount ==
  ASSUME NEW m, NEW t \in Threads
  PROVE  /\ Cardinality(Inside(m)) \in Nat
         /\ Cardinality(Inside(m)) = 0 <=> Inside(m) = {}
<1>1. Inside(m) \in SUBSET Threads
  BY DEF Inside
<1> QED
  BY <1>1, SetCount

LEMMA CountSame ==
  ASSUME CountRight, \A n \in Semaphores : sems'[n].count = sems[n].count,
         \A u \in Threads, n \in Semaphores : In(u, n)' <=> In(u, n)
  PROVE  CountRight'
<1>1. ASSUME NEW n \in Semaphores
      PROVE  Inside(n)' = Inside(n)
  BY DEF Inside
<1> QED
  BY <1>1 DEF CountRight

LEMMA CountEnters ==
  ASSUME CountRight, NEW t \in Threads, NEW m \in Semaphores, t \notin Inside(m),
         sems'[m].count = sems[m].count - 1,
         \A n \in Semaphores \ {m} : sems'[n].count = sems[n].count,
         \A u \in Threads, n \in Semaphores : In(u, n)' <=> In(u, n) \/ (u = t /\ n = m)
  PROVE  CountRight'
<1>1. Inside(m)' = Inside(m) \cup {t} /\ Inside(m) \in SUBSET Threads
  BY DEF Inside
<1>2. \A n \in Semaphores \ {m} : Inside(n)' = Inside(n)
  BY DEF Inside
<1>3. /\ Cardinality(Inside(m)) \in Nat
      /\ Cardinality(Inside(m) \cup {t}) = Cardinality(Inside(m)) + 1
  BY <1>1, SetCount
<1>4. Cardinality(Inside(m)') = Cardinality(Inside(m)) + 1
  BY <1>1, <1>3
<1> QED
  BY <1>2, <1>3, <1>4 DEF CountRight

LEMMA CountLeaves ==
  ASSUME CountRight, NEW t \in Threads, NEW m \in Semaphores, t \in Inside(m),
         sems'[m].count = sems[m].count + 1,
         \A n \in Semaphores \ {m} : sems'[n].count = sems[n].count,
         \A u \in Threads, n \in Semaphores : In(u, n)' <=> In(u, n) /\ ~(u = t /\ n = m)
  PROVE  CountRight'
<1>1. Inside(m)' = Inside(m) \ {t} /\ Inside(m) \in SUBSET Threads
  BY DEF Inside
<1>2. \A n \in Semaphores \ {m} : Inside(n)' = Inside(n)
  BY DEF Inside
<1>3. /\ Cardinality(Inside(m)) \in Nat
      /\ Cardinality(Inside(m) \ {t}) = Cardinality(Inside(m)) - 1
  BY <1>1, SetCount
<1>4. Cardinality(Inside(m)') = Cardinality(Inside(m)) - 1
  BY <1>1, <1>3
<1> QED
  BY <1>2, <1>3, <1>4 DEF CountRight

LEMMA AppendHead ==
  ASSUME NEW S, NEW s \in Seq(S), NEW x \in S
  PROVE  Head(Append(s, x)) = IF s = <<>> THEN x ELSE Head(s)
<1>1. Append(s, x) \in Seq(S) /\ Append(s, x) # <<>>
  BY AppendProperties
<1>2. CASE s = <<>>
  BY <1>2
<1>3. CASE s # <<>>
  BY <1>1, <1>3, AppendProperties, EmptySeq, LenProperties
<1> QED
  BY <1>2, <1>3

\* A semaphore with another counter and another queue.
LEMMA Changed ==
  ASSUME NEW C, NEW Q, NEW r \in [count : C, waiters : Q], NEW c \in C, NEW q \in Q
  PROVE  /\ [r EXCEPT !.count = c, !.waiters = q] \in [count : C, waiters : Q]
         /\ [r EXCEPT !.count = c, !.waiters = q].count = c
         /\ [r EXCEPT !.count = c, !.waiters = q].waiters = q
OBVIOUS

LEMMA Counted ==
  ASSUME NEW C, NEW Q, NEW r \in [count : C, waiters : Q], NEW c \in C
  PROVE  /\ [r EXCEPT !.count = c] \in [count : C, waiters : Q]
         /\ [r EXCEPT !.count = c].count = c
         /\ [r EXCEPT !.count = c].waiters = r.waiters
OBVIOUS

\* A step of t that leaves the semaphores alone.
LEMMA QuietLock ==
  ASSUME Places, LockInv, NEW t \in Threads, sems' = sems, interrupts' = interrupts,
         \A u \in Threads \ {t} : Steady(u),
         pc[t] \notin Waiting \cup Interrupted, pc'[t] \notin Interrupted,
         \A n : Owns(t, n)' <=> Owns(t, n)
  PROVE  LockInv'
<1>1. \A n : ~Wants(t, n) /\ ~Repairs(t, n) /\ ~Repairs(t, n)'
  BY WantsOne DEF Repairs, Interrupted
<1>2. \A u \in Threads : \A n : Owns(u, n)' <=> Owns(u, n)
  BY SteadyOwns
<1>3. \A u \in Threads : \A n : Wants(u, n) => Wants(u, n)'
  BY <1>1, SteadyOwns
<1>4. \A u \in Threads : \A n : In(u, n)' <=> In(u, n)
  BY <1>1, <1>2, SteadyOwns DEF In, Waits
<1>5. CountRight'
  BY <1>4, CountSame DEF LockInv
<1>6. \A n \in Semaphores : Served(n)' /\ SwitcherNext(n)'
  BY <1>2 DEF LockInv, Served, SwitcherNext, Threads
<1> QED
  BY <1>2, <1>3, <1>5, <1>6 DEF LockInv, Waits

\* A queue that nobody waits in is empty.
LEMMA EmptyQueue ==
  ASSUME Places, LockInv, NEW m \in Semaphores, \A u \in Threads : ~Waits(u, m)
  PROVE  sems[m].waiters = <<>>
<1>1. sems[m].waiters \in Seq(Threads) /\ IsInjective(sems[m].waiters)
  BY DEF Places, LockInv
<1> QED
  BY <1>1, TailElements DEF Waits

\* Two clients never get as far as the second semaphore of their screen.
LEMMA OneClient ==
  ASSUME Places, LockInv, NEW t \in Clients, NEW u \in Clients, NEW m \in Semaphores,
         m[2] = "cons_buffer_lock",
         Wants(t, m), Owns(u, m) \/ Wants(u, m) \/ Repairs(u, m)
  PROVE  u = t
<1>1. /\ t \in Threads /\ u \in Threads /\ t \notin Switchers /\ u \notin Switchers
      /\ Home[t] \in Ids /\ Home[u] \in Ids
      /\ pc[t] \in ClientLabels /\ pc[u] \in ClientLabels
  BY TextConsoleAssumption DEF Places, Threads
<1>2. PICK i : m = cons_buffer_lock(i)
  BY DEF Semaphores, cons_buffer_lock
<1>3. pc[t] = "buffer_lock" /\ Home[t] = i
  BY <1>1, <1>2, Names DEF Wants, ClientLabels, Syncing
<1>4. pc[u] \in BufferHeld \cup {"buffer_lock", "buffer_eintr"} /\ Home[u] = i
  BY <1>1, <1>2, Names DEF Owns, Wants, Repairs, ClientLabels, Syncing
<1>5. Owns(t, cons_lock(i)) /\ Owns(u, cons_lock(i)) /\ cons_lock(i) \in Semaphores
  BY <1>1, <1>3, <1>4, Names DEF Owns, ScreenHeld, BufferHeld, ClientLabels, Syncing
<1> QED
  BY <1>1, <1>5 DEF LockInv

\* A wait takes a positive counter or a place at the end of the queue.
LEMMA WaitLock ==
  ASSUME Places, LockInv, NEW t \in Threads, NEW m, Wants(t, m),
         sem_wait(t, m), call' = call, old' = old, interrupts' = interrupts
  PROVE  /\ LockInv'
         /\ sems' \in [Semaphores -> [count : Int, waiters : Seq(Threads)]]
<1>1. /\ m \in Semaphores /\ ~Owns(t, m) /\ \A n : Wants(t, n) => n = m
      /\ \A n : ~Repairs(t, n) /\ ~Repairs(t, n)'
  <2>1. m \in Semaphores /\ ~Owns(t, m) /\ pc[t] \in Waiting /\ \A n : Wants(t, n) => n = m
    BY WantsOne
  <2>2. pc'[t] = pc[t] \/ pc'[t] = Granted(pc[t])
    BY DEF sem_wait, Places
  <2> QED
    BY <2>1, <2>2 DEF Repairs, Waiting, Granted
<1>2. sems[m] \in [count : Int, waiters : Seq(Threads)]
  BY <1>1 DEF Places
<1>3. \A n \in Semaphores : ~Waits(t, n)
  BY DEF sem_wait, Asleep
<1>4. \A u \in Threads \ {t} : Steady(u)
  BY DEF Steady, sem_wait, Places
<1>5. t \notin Inside(m) /\ Cardinality(Inside(m)) \in Nat
  BY <1>1, <1>3, InsideCount DEF Inside, In
<1>6. sems[m].count = 1 - Cardinality(Inside(m))
  BY <1>1 DEF LockInv, CountRight
<1>7. CASE sems[m].count > 0
  <2>1. \A u \in Threads : ~In(u, m)
    BY <1>2, <1>5, <1>6, <1>7, InsideCount DEF Inside
  <2>2. \A u \in Threads : ~Owns(u, m) /\ ~Waits(u, m)
    BY <2>1 DEF In
  <2>3. /\ sems' = [sems EXCEPT ![m].count = @ - 1]
        /\ pc' = [pc EXCEPT ![t] = Granted(pc[t])]
    BY <1>7 DEF sem_wait
  <2>4. /\ sems'[m].count = sems[m].count - 1
        /\ \A n \in Semaphores \ {m} : sems'[n].count = sems[n].count
        /\ \A n \in Semaphores : sems'[n].waiters = sems[n].waiters
        /\ sems' \in [Semaphores -> [count : Int, waiters : Seq(Threads)]]
    <3>1. /\ sems'[m] = [sems[m] EXCEPT !.count = @ - 1]
          /\ \A n \in Semaphores \ {m} : sems'[n] = sems[n]
          /\ DOMAIN sems' = Semaphores
      BY <1>1, <2>3 DEF Places
    <3>2. /\ sems'[m].count = sems[m].count - 1
          /\ sems'[m].waiters = sems[m].waiters
          /\ sems'[m] \in [count : Int, waiters : Seq(Threads)]
      BY <1>2, <3>1
    <3>3. sems' = [sems EXCEPT ![m] = sems'[m]]
      BY <2>3 DEF Places
    <3> QED
      BY <1>1, <3>1, <3>2, <3>3 DEF Places
  <2>5. \A n : Owns(t, n)' <=> Owns(t, n) \/ n = m
    BY <2>3, GrantedOwns DEF Places
  <2>6. \A u \in Threads : \A n : Owns(u, n)' <=> Owns(u, n) \/ (u = t /\ n = m)
    BY <1>4, <2>5, SteadyOwns
  <2>7. \A u \in Threads, n \in Semaphores : Waits(u, n)' <=> Waits(u, n)
    BY <2>4 DEF Waits
  <2>8. \A u \in Threads, n \in Semaphores :
          /\ Waits(u, n)' => Wants(u, n)'
          /\ Repairs(u, n)' <=> Repairs(u, n)
    BY <1>1, <1>3, <1>4, <2>7, SteadyOwns DEF LockInv
  <2>9. \A u \in Threads, n \in Semaphores : In(u, n)' <=> In(u, n) \/ (u = t /\ n = m)
    BY <2>6, <2>7, <2>8 DEF In
  <2>10. CountRight'
    BY <1>1, <1>5, <2>4, <2>9, CountEnters DEF LockInv, Inside
  <2>11. \A n \in Semaphores : Served(n)' /\ SwitcherNext(n)'
    BY <2>4, <2>6 DEF LockInv, Served, SwitcherNext, Threads
  <2>12. \A n \in Semaphores :
           /\ \A u, v \in Threads : Owns(u, n)' /\ Owns(v, n)' => u = v
           /\ IsInjective(sems'[n].waiters)
    BY <2>2, <2>4, <2>6 DEF LockInv
  <2> QED
    BY <2>4, <2>8, <2>10, <2>11, <2>12 DEF LockInv
<1>8. CASE ~(sems[m].count > 0)
  <2> DEFINE q == Append(sems[m].waiters, t)
  <2>1. /\ sems' = [sems EXCEPT ![m].count = @ - 1, ![m].waiters = q]
        /\ pc' = pc
    BY <1>8 DEF sem_wait
  <2>2. /\ q \in Seq(Threads) /\ q # <<>> /\ IsInjective(q)
        /\ \A u : Contains(q, u) <=> u = t \/ Waits(u, m)
        /\ Head(q) = IF sems[m].waiters = <<>> THEN t ELSE Head(sems[m].waiters)
    BY <1>1, <1>2, <1>3, AppendElements, AppendHead DEF Waits, LockInv
  <2> HIDE DEF q
  <2>3. /\ sems'[m].count = sems[m].count - 1 /\ sems'[m].waiters = q
        /\ \A n \in Semaphores \ {m} : sems'[n] = sems[n]
        /\ sems' \in [Semaphores -> [count : Int, waiters : Seq(Threads)]]
    <3> DEFINE c == sems[m].count - 1
               r == [sems[m] EXCEPT !.count = c, !.waiters = q]
    <3>1. c \in Int
      BY <1>2
    <3>2. /\ r \in [count : Int, waiters : Seq(Threads)]
          /\ r.count = c /\ r.waiters = q
      BY <1>2, <2>2, <3>1, Changed, Zenon
    <3>3. sems' = [sems EXCEPT ![m] = r]
      BY <2>1
    <3> HIDE DEF c, r
    <3>4. c = sems[m].count - 1
      BY DEF c
    <3> QED
      BY <1>1, <3>2, <3>3, <3>4 DEF Places
  <2>4. \A u, n : /\ Owns(u, n)' <=> Owns(u, n)
                  /\ Wants(u, n)' <=> Wants(u, n)
                  /\ Repairs(u, n)' <=> Repairs(u, n)
    BY <2>1 DEF Owns, Wants, Repairs
  <2>5. \A u \in Threads, n \in Semaphores :
          Waits(u, n)' <=> Waits(u, n) \/ (u = t /\ n = m)
    BY <2>2, <2>3 DEF Waits
  <2>6. CountRight'
    <3>1. \A u \in Threads, n \in Semaphores : In(u, n)' <=> In(u, n) \/ (u = t /\ n = m)
      BY <2>4, <2>5 DEF In
    <3> QED
      BY <1>1, <1>5, <2>3, <3>1, CountEnters DEF LockInv, Inside
  <2>7. PICK u \in Threads : In(u, m) /\ u # t
    BY <1>2, <1>5, <1>6, <1>8, InsideCount DEF Inside
  <2>8. Served(m)'
    <3> SUFFICES ASSUME ~interrupts
                 PROVE  \E v \in Threads : Owns(v, m)
      BY <2>4 DEF Served
    <3>1. ~Repairs(u, m)
      BY <2>7 DEF Places, Repairs, Threads, SwitcherLabels, Syncing
    <3>2. CASE Waits(u, m)
      BY <1>1, <3>2 DEF LockInv, Served, Waits, Contains
    <3> QED
      BY <2>7, <3>1, <3>2 DEF In
  <2>9. SwitcherNext(m)'
    <3> SUFFICES ASSUME m[2] = "cons_buffer_lock"
                 PROVE  \E v \in Switchers : Owns(v, m) \/ v = Head(q)
      BY <2>3, <2>4 DEF SwitcherNext
    <3>1. CASE sems[m].waiters # <<>>
      BY <1>1, <2>2, <3>1 DEF LockInv, SwitcherNext
    <3>2. CASE sems[m].waiters = <<>> /\ t \in Switchers
      BY <2>2, <3>2
    <3>3. CASE sems[m].waiters = <<>> /\ t \in Clients
      <4>1. Owns(u, m) \/ Repairs(u, m)
        BY <2>7, <3>3 DEF In, Waits, Contains
      <4>2. u \in Switchers
        BY <1>1, <2>7, <3>3, <4>1, OneClient DEF Threads
      <4>3. ~Repairs(u, m)
        BY <4>2 DEF Places, Repairs, SwitcherLabels, Syncing
      <4> QED
        BY <4>1, <4>2, <4>3
    <3> QED
      BY <3>1, <3>2, <3>3 DEF Threads
  <2>10. \A n \in Semaphores : Served(n)' /\ SwitcherNext(n)'
    BY <2>3, <2>4, <2>8, <2>9 DEF LockInv, Served, SwitcherNext
  <2>11. \A n \in Semaphores :
           /\ \A v, w \in Threads : Owns(v, n)' /\ Owns(w, n)' => v = w
           /\ IsInjective(sems'[n].waiters)
           /\ \A v \in Threads : Waits(v, n)' => Wants(v, n)'
    BY <2>2, <2>3, <2>4, <2>5 DEF LockInv
  <2> QED
    BY <2>3, <2>6, <2>10, <2>11 DEF LockInv
<1> QED
  BY <1>7, <1>8

\* A signal hands the semaphore to the first in the queue, if there is one.
LEMMA SignalLock ==
  ASSUME Places, LockInv, NEW t \in Threads, NEW m \in Semaphores, NEW to,
         Owns(t, m), sem_signal(t, m, to), interrupts' = interrupts,
         \A u \in Threads \ {t} : call'[u] = call[u] /\ old'[u] = old[u],
         pc[t] \notin Waiting \cup Interrupted, to \notin Interrupted, pc'[t] = to,
         \A n : Owns(t, n)' <=> Owns(t, n) /\ n # m
  PROVE  /\ LockInv'
         /\ sems' \in [Semaphores -> [count : Int, waiters : Seq(Threads)]]
<1>1. sems[m] \in [count : Int, waiters : Seq(Threads)]
  BY DEF Places
<1>2. \A n : ~Wants(t, n) /\ ~Repairs(t, n) /\ ~Repairs(t, n)'
  BY WantsOne DEF Repairs, Interrupted
<1>3. \A n \in Semaphores : ~Waits(t, n)
  BY <1>2 DEF LockInv
<1>4. \A u \in Threads \ {t} : ~Owns(u, m)
  BY DEF LockInv
<1>5. CASE sems[m].waiters = <<>>
  <2>1. /\ sems' = [sems EXCEPT ![m].count = @ + 1]
        /\ \A u \in Threads \ {t} : Steady(u)
    BY <1>5 DEF sem_signal, Steady, Places
  <2>2. /\ sems'[m].count = sems[m].count + 1
        /\ \A n \in Semaphores \ {m} : sems'[n].count = sems[n].count
        /\ \A n \in Semaphores : sems'[n].waiters = sems[n].waiters
        /\ sems' \in [Semaphores -> [count : Int, waiters : Seq(Threads)]]
    <3> DEFINE c == sems[m].count + 1
               r == [sems[m] EXCEPT !.count = c]
    <3>1. c \in Int
      BY <1>1
    <3>2. /\ r \in [count : Int, waiters : Seq(Threads)]
          /\ r.count = c /\ r.waiters = sems[m].waiters
      BY <1>1, <3>1, Counted
    <3>3. sems' = [sems EXCEPT ![m] = r]
      BY <2>1
    <3> HIDE DEF c, r
    <3>4. c = sems[m].count + 1
      BY DEF c
    <3> QED
      BY <3>2, <3>3, <3>4 DEF Places
  <2>3. \A u \in Threads : \A n \in Semaphores :
          /\ Owns(u, n)' <=> Owns(u, n) /\ n # m
          /\ Waits(u, n)' <=> Waits(u, n)
          /\ Repairs(u, n)' <=> Repairs(u, n)
    BY <1>2, <1>4, <2>1, <2>2, SteadyOwns DEF Waits
  <2>4. \A u \in Threads : ~Waits(u, m) /\ (Repairs(u, m) => u # t)
    BY <1>2, <1>5 DEF Waits, Contains
  <2>5. CountRight'
    <3>1. \A u \in Threads, n \in Semaphores : In(u, n)' <=> In(u, n) /\ ~(u = t /\ n = m)
      BY <1>2, <1>3, <1>4, <2>3 DEF In
    <3>2. t \in Inside(m)
      BY DEF Inside, In
    <3> QED
      BY <2>2, <3>1, <3>2, CountLeaves DEF LockInv
  <2>6. \A u \in Threads : \A n \in Semaphores : Waits(u, n)' => Wants(u, n)'
    BY <1>3, <2>1, <2>3, SteadyOwns DEF LockInv
  <2>7. \A n \in Semaphores : Served(n)' /\ SwitcherNext(n)'
    BY <1>5, <2>2, <2>3 DEF LockInv, Served, SwitcherNext, Threads
  <2>8. \A n \in Semaphores :
          /\ \A u, v \in Threads : Owns(u, n)' /\ Owns(v, n)' => u = v
          /\ IsInjective(sems'[n].waiters)
    BY <2>2, <2>3 DEF LockInv
  <2> QED
    BY <2>2, <2>5, <2>6, <2>7, <2>8 DEF LockInv
<1>6. CASE sems[m].waiters # <<>>
  <2> DEFINE q == Tail(sems[m].waiters)
  <2>0. PICK w \in Threads : w = Head(sems[m].waiters)
    BY <1>1, <1>6, TailElements DEF LockInv
  <2>1. /\ Waits(w, m)
        /\ q \in Seq(Threads) /\ IsInjective(q)
        /\ \A u : Contains(q, u) <=> Waits(u, m) /\ u # w
    BY <1>1, <1>6, <2>0, TailElements DEF Waits, LockInv
  <2>2. /\ sems' = [sems EXCEPT ![m].count = @ + 1, ![m].waiters = q]
        /\ pc' = [pc EXCEPT ![t] = to, ![w] = Granted(@)]
    BY <1>1, <1>6, <2>0 DEF sem_signal
  <2> HIDE DEF q
  <2>3. w # t /\ Wants(w, m)
    BY <1>3, <2>1 DEF LockInv
  <2>4. /\ sems'[m].count = sems[m].count + 1 /\ sems'[m].waiters = q
        /\ \A n \in Semaphores \ {m} : sems'[n] = sems[n]
        /\ sems' \in [Semaphores -> [count : Int, waiters : Seq(Threads)]]
        /\ pc'[w] = Granted(pc[w])
        /\ \A u \in Threads \ {t, w} : Steady(u)
    <3> DEFINE c == sems[m].count + 1
               r == [sems[m] EXCEPT !.count = c, !.waiters = q]
    <3>1. c \in Int
      BY <1>1
    <3>2. /\ r \in [count : Int, waiters : Seq(Threads)]
          /\ r.count = c /\ r.waiters = q
      BY <1>1, <2>1, <3>1, Changed, Zenon
    <3>3. sems' = [sems EXCEPT ![m] = r]
      BY <2>2
    <3> HIDE DEF c, r
    <3>4. c = sems[m].count + 1
      BY DEF c
    <3>5. /\ pc'[w] = Granted(pc[w])
          /\ \A u \in Threads \ {t, w} : Steady(u)
      BY <2>2, <2>3 DEF Places, Steady
    <3> QED
      BY <3>2, <3>3, <3>4, <3>5 DEF Places
  <2>5. /\ \A n : Owns(w, n)' <=> Owns(w, n) \/ n = m
        /\ \A n : ~Repairs(w, n) /\ ~Repairs(w, n)'
    <3>1. w \in Threads /\ Wants(w, m) /\ pc[w] \in Waiting
      BY <2>1, <2>3, WantsOne
    <3>2. call'[w] = call[w] /\ old'[w] = old[w]
      BY <2>3, <3>1
    <3>3. pc'[w] = Granted(pc[w])
      BY <2>4
    <3>4. \A n : ~Repairs(w, n) /\ ~Repairs(w, n)'
      BY <3>1, <3>3 DEF Repairs, Waiting, Granted
    <3> QED
      BY <3>1, <3>2, <3>3, <3>4, GrantedOwns
  <2>6. \A u \in Threads, n \in Semaphores :
          /\ Owns(u, n)' <=> (Owns(u, n) /\ n # m) \/ (u = w /\ n = m)
          /\ Repairs(u, n)' <=> Repairs(u, n)
    <3> TAKE u \in Threads, n \in Semaphores
    <3>1. CASE u = t
      BY <1>2, <2>3, <3>1
    <3>2. CASE u = w
      BY <1>4, <2>1, <2>3, <2>5, <3>2
    <3>3. CASE u \notin {t, w}
      <4>1. Steady(u)
        BY <2>4, <3>3
      <4> QED
        BY <1>4, <3>3, <4>1, SteadyOwns
    <3> QED
      BY <3>1, <3>2, <3>3
  <2>7. \A n \in Semaphores : Waits(w, n) => n = m
    BY <2>1, <2>3, WantsOne DEF LockInv
  <2>8. \A u \in Threads : \A n \in Semaphores :
          Waits(u, n)' <=> Waits(u, n) /\ u # w
    BY <1>3, <2>1, <2>4, <2>7 DEF Waits
  <2>9. \A u \in Threads : \A n \in Semaphores : Waits(u, n)' => Wants(u, n)'
    BY <1>3, <2>4, <2>8, SteadyOwns DEF LockInv
  <2>10. CountRight'
    <3>1. \A u \in Threads, n \in Semaphores : In(u, n)' <=> In(u, n) /\ ~(u = t /\ n = m)
      BY <1>2, <1>3, <1>4, <2>1, <2>3, <2>6, <2>7, <2>8 DEF In
    <3>2. t \in Inside(m)
      BY DEF Inside, In
    <3> QED
      BY <2>4, <3>1, <3>2, CountLeaves DEF LockInv
  <2>11. \A n \in Semaphores : Served(n)'
    <3>1. Owns(w, m)'
      BY <2>6
    <3> QED
      BY <2>4, <2>6, <3>1 DEF LockInv, Served
  <2>12. SwitcherNext(m)'
    <3> SUFFICES ASSUME m[2] = "cons_buffer_lock", q # <<>>, w \in Clients
                 PROVE  Head(q) \in Switchers
      BY <2>4, <2>6 DEF SwitcherNext, Threads
    <3>1. PICK u \in Threads : u = Head(q) /\ Contains(q, u)
      BY <2>1, TailElements
    <3>2. Wants(u, m) /\ u # w
      BY <2>1, <3>1 DEF LockInv
    <3>3. u \notin Clients
      BY <2>3, <3>2, OneClient
    <3> QED
      BY <3>1, <3>3 DEF Threads
  <2>13. \A n \in Semaphores : SwitcherNext(n)'
    BY <2>4, <2>6, <2>12 DEF LockInv, SwitcherNext, Threads
  <2>14. \A n \in Semaphores :
          /\ \A u, v \in Threads : Owns(u, n)' /\ Owns(v, n)' => u = v
          /\ IsInjective(sems'[n].waiters)
    BY <2>1, <2>4, <2>6 DEF LockInv
  <2> QED
    BY <2>4, <2>9, <2>10, <2>11, <2>13, <2>14 DEF LockInv
<1> QED
  BY <1>5, <1>6

\* An interrupted thread leaves the queue with what it had.
LEMMA InterruptIs ==
  ASSUME Places, LockInv, NEW t \in Threads, Interrupt(t)
  PROVE  /\ t \in Clients /\ t \notin Switchers /\ interrupts
         /\ UNCHANGED <<memory, crtc, threads, menu, calls>>
         /\ \/ pc[t] = "cons_lock" /\ pc' = [pc EXCEPT ![t] = "cons_eintr"]
            \/ pc[t] = "buffer_lock" /\ pc' = [pc EXCEPT ![t] = "buffer_eintr"]
         /\ \E m \in Semaphores : \E k \in 1..Len(sems[m].waiters) :
              /\ sems[m].waiters[k] = t /\ Wants(t, m)
              /\ sems' = [sems EXCEPT ![m].waiters = RemoveAt(@, k)]
<1>1. t \in Clients /\ t \notin Switchers /\ pc[t] \in ClientLabels
  BY TextConsoleAssumption DEF Interrupt, Places
<1>2. PICK m \in Semaphores : \E k \in DOMAIN sems[m].waiters :
        /\ sems[m].waiters[k] = t
        /\ sems' = [sems EXCEPT ![m].waiters = RemoveAt(@, k)]
  BY DEF Interrupt
<1>3. PICK k \in DOMAIN sems[m].waiters :
        /\ sems[m].waiters[k] = t
        /\ sems' = [sems EXCEPT ![m].waiters = RemoveAt(@, k)]
  BY <1>2
<1>4. k \in 1..Len(sems[m].waiters)
  <2>1. sems[m].waiters \in Seq(Threads)
    BY DEF Places
  <2> QED
    BY <1>3, <2>1, LenProperties
<1>5. Wants(t, m)
  BY <1>3, <1>4 DEF LockInv, Waits, Contains
<1>6. pc[t] \in {"cons_lock", "buffer_lock"}
  BY <1>1, <1>5, WantsOne DEF Waiting, ClientLabels, Syncing
<1> QED
  BY <1>1, <1>3, <1>4, <1>5, <1>6 DEF Interrupt

LEMMA InterruptLock ==
  ASSUME Places, LockInv, NEW t \in Threads, Interrupt(t), interrupts' = interrupts
  PROVE  /\ LockInv'
         /\ sems' \in [Semaphores -> [count : Int, waiters : Seq(Threads)]]
<1>1. PICK m \in Semaphores : \E k \in 1..Len(sems[m].waiters) :
        /\ sems[m].waiters[k] = t /\ Wants(t, m)
        /\ sems' = [sems EXCEPT ![m].waiters = RemoveAt(@, k)]
  BY InterruptIs
<1>2. PICK k \in 1..Len(sems[m].waiters) :
        /\ sems[m].waiters[k] = t /\ Wants(t, m)
        /\ sems' = [sems EXCEPT ![m].waiters = RemoveAt(@, k)]
  BY <1>1
<1> DEFINE q == RemoveAt(sems[m].waiters, k)
<1>3. /\ sems[m] \in [count : Int, waiters : Seq(Threads)]
      /\ IsInjective(sems[m].waiters)
  BY DEF Places, LockInv
<1>4. Waits(t, m)
  BY <1>2 DEF Waits, Contains
<1>5. /\ q \in Seq(Threads) /\ IsInjective(q)
      /\ \A u : Contains(q, u) <=> Waits(u, m) /\ u # t
  BY <1>2, <1>3, RemoveAtElements, RemoveElements DEF Waits
<1>6. q # <<>> => sems[m].waiters # <<>> /\ Head(q) = sems[m].waiters[IF k = 1 THEN 2 ELSE 1]
  <2>1. /\ Len(q) = Len(sems[m].waiters) - 1 /\ Len(sems[m].waiters) \in Nat
        /\ \A j \in 1..(Len(sems[m].waiters) - 1) :
             q[j] = IF j < k THEN sems[m].waiters[j] ELSE sems[m].waiters[j + 1]
    BY <1>2, <1>3, RemoveAtElements, LenProperties
  <2> QED
    BY <1>2, <1>3, <1>5, <2>1
<1> HIDE DEF q
<1>7. /\ sems'[m].count = sems[m].count /\ sems'[m].waiters = q
      /\ \A n \in Semaphores \ {m} : sems'[n] = sems[n]
      /\ sems' \in [Semaphores -> [count : Int, waiters : Seq(Threads)]]
  BY <1>2, <1>3, <1>5 DEF Places, q
<1>8. /\ t \in Clients /\ t \notin Switchers /\ interrupts
      /\ \/ pc[t] = "cons_lock" /\ pc'[t] = "cons_eintr"
         \/ pc[t] = "buffer_lock" /\ pc'[t] = "buffer_eintr"
      /\ \A u \in Threads \ {t} : Steady(u)
  <2>1. /\ t \in Clients /\ t \notin Switchers /\ interrupts
        /\ \/ pc[t] = "cons_lock" /\ pc' = [pc EXCEPT ![t] = "cons_eintr"]
           \/ pc[t] = "buffer_lock" /\ pc' = [pc EXCEPT ![t] = "buffer_eintr"]
        /\ UNCHANGED threads
    BY InterruptIs
  <2> QED
    BY <2>1 DEF Steady, Places, threads
<1>9. /\ \A n : Owns(t, n)' <=> Owns(t, n)
      /\ \A n : Repairs(t, n)' <=> n = m
      /\ \A n : ~Repairs(t, n)
  BY <1>2, <1>8
     DEF Owns, Wants, Repairs, ScreenHeld, BufferHeld, ClientLabels, Syncing
<1>10. \A u \in Threads : \A n : Owns(u, n)' <=> Owns(u, n)
  BY <1>8, <1>9, SteadyOwns
<1>11. \A u \in Threads : \A n \in Semaphores : Waits(u, n)' <=> Waits(u, n) /\ u # t
  <2>1. \A n \in Semaphores : Waits(t, n) => n = m
    BY <1>2, WantsOne DEF LockInv
  <2> QED
    BY <1>5, <1>7, <2>1 DEF Waits
<1>12. \A u \in Threads : \A n \in Semaphores : In(u, n)' <=> In(u, n)
  <2>1. \A n \in Semaphores : Waits(t, n) <=> n = m
    BY <1>2, <1>4, WantsOne DEF LockInv
  <2>2. \A n \in Semaphores : In(t, n)' <=> In(t, n)
    BY <1>9, <1>11, <2>1 DEF In
  <2>3. \A u \in Threads \ {t} : \A n \in Semaphores : In(u, n)' <=> In(u, n)
    BY <1>8, <1>10, <1>11, SteadyOwns DEF In
  <2> QED
    BY <2>2, <2>3
<1>13. CountRight'
  BY <1>7, <1>12, CountSame DEF LockInv
<1>14. \A u \in Threads : \A n \in Semaphores : Waits(u, n)' => Wants(u, n)'
  BY <1>8, <1>11, SteadyOwns DEF LockInv
<1>15. SwitcherNext(m)'
  <2> SUFFICES ASSUME m[2] = "cons_buffer_lock", q # <<>>
               PROVE  \E u \in Switchers : Owns(u, m) \/ u = Head(q)
    BY <1>7, <1>10 DEF SwitcherNext, Threads
  <2>1. PICK u \in Switchers : Owns(u, m) \/ u = Head(sems[m].waiters)
    BY <1>6 DEF LockInv, SwitcherNext
  <2>2. CASE u = Head(sems[m].waiters)
    <3>1. k # 1
      BY <1>2, <1>3, <1>8, <2>1, <2>2
    <3> QED
      BY <1>3, <1>6, <2>1, <2>2, <3>1
  <2> QED
    BY <2>1, <2>2
<1>16. \A n \in Semaphores :
         /\ Served(n)' /\ SwitcherNext(n)'
         /\ IsInjective(sems'[n].waiters)
  BY <1>5, <1>7, <1>8, <1>10, <1>15 DEF LockInv, Served, SwitcherNext, Threads
<1> QED
  BY <1>7, <1>10, <1>13, <1>14, <1>16 DEF LockInv

\* It corrects the counter later.
LEMMA FailsIs ==
  ASSUME Places, NEW t \in Threads, WaitFails(t)
  PROVE  /\ t \in Clients /\ t \notin Switchers
         /\ UNCHANGED <<memory, crtc, buf, local, old, menu, calls>>
         /\ Return(t, <<"-EINTR">>)
         /\ \/ /\ pc[t] = "cons_eintr" /\ pc' = [pc EXCEPT ![t] = "idle"]
               /\ call' = [call EXCEPT ![t] = NULL]
            \/ /\ pc[t] = "buffer_eintr" /\ pc' = [pc EXCEPT ![t] = "give_up"]
               /\ call' = call
         /\ \E m \in Semaphores : /\ Repairs(t, m)
                                  /\ sems' = [sems EXCEPT ![m].count = @ + 1]
<1>1. pc[t] \in {"cons_eintr", "buffer_eintr"}
  BY DEF WaitFails, Goto
<1>2. t \in Clients /\ t \notin Switchers /\ Home[t] \in Ids
  BY <1>1, TextConsoleAssumption DEF Places, Threads, SwitcherLabels, Syncing
<1>3. \E m \in Semaphores : Repairs(t, m) /\ sems' = [sems EXCEPT ![m].count = @ + 1]
  BY <1>2, Names DEF WaitFails, Goto, Repairs
<1> QED
  BY <1>2, <1>3 DEF WaitFails, Goto

LEMMA FailLock ==
  ASSUME Places, LockInv, NEW t \in Threads, WaitFails(t), interrupts' = interrupts
  PROVE  /\ LockInv'
         /\ sems' \in [Semaphores -> [count : Int, waiters : Seq(Threads)]]
<1>1. PICK m \in Semaphores : Repairs(t, m) /\ sems' = [sems EXCEPT ![m].count = @ + 1]
  BY FailsIs
<1>2. /\ sems'[m].count = sems[m].count + 1
      /\ \A n \in Semaphores \ {m} : sems'[n].count = sems[n].count
      /\ \A n \in Semaphores : sems'[n].waiters = sems[n].waiters
      /\ sems' \in [Semaphores -> [count : Int, waiters : Seq(Threads)]]
  <2> DEFINE c == sems[m].count + 1
             r == [sems[m] EXCEPT !.count = c]
  <2>1. sems[m] \in [count : Int, waiters : Seq(Threads)] /\ c \in Int
    BY DEF Places
  <2>2. /\ r \in [count : Int, waiters : Seq(Threads)]
        /\ r.count = c /\ r.waiters = sems[m].waiters
    BY <2>1, Counted
  <2>3. sems' = [sems EXCEPT ![m] = r]
    BY <1>1
  <2> HIDE DEF c, r
  <2>4. c = sems[m].count + 1
    BY DEF c
  <2> QED
    BY <2>2, <2>3, <2>4 DEF Places
<1>3. /\ t \in Clients /\ t \notin Switchers
      /\ \/ pc[t] = "cons_eintr" /\ pc'[t] = "idle"
         \/ pc[t] = "buffer_eintr" /\ pc'[t] = "give_up"
      /\ \A u \in Threads \ {t} : Steady(u)
  <2>1. /\ t \in Clients /\ t \notin Switchers /\ old' = old
        /\ \/ /\ pc[t] = "cons_eintr" /\ pc' = [pc EXCEPT ![t] = "idle"]
              /\ call' = [call EXCEPT ![t] = NULL]
           \/ /\ pc[t] = "buffer_eintr" /\ pc' = [pc EXCEPT ![t] = "give_up"]
              /\ call' = call
    BY FailsIs
  <2> QED
    BY <2>1 DEF Steady, Places
<1>4. /\ \A n : Owns(t, n)' <=> Owns(t, n)
      /\ \A n : Repairs(t, n) <=> n = m
      /\ \A n : ~Repairs(t, n)' /\ ~Wants(t, n)
  BY <1>1, <1>3
     DEF Owns, Wants, Repairs, ScreenHeld, BufferHeld, ClientLabels, Syncing
<1>5. ~Owns(t, m) /\ \A n \in Semaphores : ~Waits(t, n)
  BY <1>1, <1>3, <1>4, Names
     DEF LockInv, Owns, Repairs, ScreenHeld, BufferHeld, ClientLabels, Syncing
<1>6. \A u \in Threads : \A n : Owns(u, n)' <=> Owns(u, n)
  BY <1>3, <1>4, SteadyOwns
<1>7. \A u \in Threads, n \in Semaphores : Waits(u, n)' <=> Waits(u, n)
  BY <1>2 DEF Waits
<1>8. CountRight'
  <2>1. \A u \in Threads, n \in Semaphores : Repairs(u, n)' <=> Repairs(u, n) /\ u # t
    BY <1>3, <1>4, SteadyOwns
  <2>2. \A u \in Threads, n \in Semaphores : In(u, n)' <=> In(u, n) /\ ~(u = t /\ n = m)
    BY <1>4, <1>5, <1>6, <1>7, <2>1 DEF In
  <2>3. t \in Inside(m)
    BY <1>1 DEF Inside, In
  <2> QED
    BY <1>2, <2>2, <2>3, CountLeaves DEF LockInv
<1>9. \A u \in Threads : \A n \in Semaphores : Waits(u, n)' => Wants(u, n)'
  BY <1>3, <1>5, <1>7, SteadyOwns DEF LockInv
<1>10. \A n \in Semaphores : Served(n)' /\ SwitcherNext(n)'
  BY <1>2, <1>6 DEF LockInv, Served, SwitcherNext, Threads
<1> QED
  BY <1>2, <1>6, <1>8, <1>9, <1>10 DEF LockInv

-----------------------------------------------------------------------------
(* One step after the other.                                               *)

\* u stays, or gets what it waited for.
Advances(u) ==
  /\ call'[u] = call[u] /\ old'[u] = old[u]
  /\ \/ pc'[u] = pc[u]
     \/ pc[u] \in Waiting /\ pc'[u] = Granted(pc[u])

\* Where u is then, u can be.
PlaceOf(u) ==
  /\ pc[u] \in Labels
  /\ u \in Clients => /\ pc[u] \in ClientLabels
                      /\ pc[u] \in {"cons_eintr", "buffer_eintr"} => interrupts
  /\ u \in Switchers =>
       /\ pc[u] \in SwitcherLabels
       /\ pc[u] # "idle" => call[u][2] \in Ids
       /\ pc[u] \notin {"idle", "signal_new"} =>
            old[u] \in Ids /\ old[u] # call[u][2]

LEMMA AdvancesPlace ==
  ASSUME NEW u, PlaceOf(u), Advances(u), interrupts' = interrupts
  PROVE  PlaceOf(u)'
<1>1. pc'[u] = pc[u] \/ pc[u] \notin {"idle", "signal_new"}
  BY DEF Advances, Waiting
<1>2. CASE u \in Clients /\ u \notin Switchers
  BY <1>2 DEF Advances, PlaceOf, Waiting, Granted, Labels, ClientLabels, Syncing
<1>3. CASE u \notin Clients /\ u \in Switchers
  BY <1>1, <1>3 DEF Advances, PlaceOf, Waiting, Granted, Labels, SwitcherLabels, Syncing
<1>4. CASE u \notin Clients /\ u \notin Switchers
  BY <1>4 DEF Advances, PlaceOf, Waiting, Granted, Labels
<1> QED
  BY <1>2, <1>3, <1>4, TextConsoleAssumption

LEMMA PlacesOf ==
  ASSUME Places
  PROVE  \A u \in Threads : PlaceOf(u)
BY DEF Places, PlaceOf

\* Everybody has a place, if the one who moves has one.
LEMMA PlacesStep ==
  ASSUME Places, NEW t \in Threads, menu' = menu, interrupts' = interrupts,
         sems' \in [Semaphores -> [count : Int, waiters : Seq(Threads)]],
         pc' = [u \in Threads |-> pc'[u]],
         DOMAIN call' = Threads, DOMAIN old' = Threads,
         \A u \in Threads \ {t} : Advances(u),
         PlaceOf(t)'
  PROVE  Places'
<1>1. \A u \in Threads : PlaceOf(u)'
  BY PlacesOf, AdvancesPlace
<1>2. interrupts' \in BOOLEAN /\ menu' \in Menus
  BY DEF Places
<1>3. pc' \in [Threads -> Labels]
  BY <1>1 DEF PlaceOf
<1>4. \A u \in Clients : /\ pc'[u] \in ClientLabels
                         /\ pc'[u] \in {"cons_eintr", "buffer_eintr"} => interrupts'
  BY <1>1 DEF PlaceOf, Threads
<1>5. \A u \in Switchers :
        /\ pc'[u] \in SwitcherLabels
        /\ pc'[u] # "idle" => call'[u][2] \in Ids
        /\ pc'[u] \notin {"idle", "signal_new"} =>
             old'[u] \in Ids /\ old'[u] # call'[u][2]
  BY <1>1 DEF PlaceOf, Threads
<1> QED
  BY <1>2, <1>3, <1>4, <1>5 DEF Places

LEMMA SteadyAdvances ==
  ASSUME NEW u, Steady(u)
  PROVE  Advances(u)
BY DEF Steady, Advances

\* What a wait and a signal do to the places.
LEMMA WaitMoves ==
  ASSUME Places, NEW t \in Threads, NEW m, sem_wait(t, m),
         pc[t] \in Waiting, call' = call, old' = old
  PROVE  /\ pc' = [u \in Threads |-> pc'[u]]
         /\ \A u \in Threads : Advances(u)
BY DEF sem_wait, Places, Advances

LEMMA SignalMoves ==
  ASSUME Places, LockInv, NEW t \in Threads, NEW m \in Semaphores, NEW to,
         sem_signal(t, m, to), pc[t] \notin Waiting,
         \A u \in Threads \ {t} : call'[u] = call[u] /\ old'[u] = old[u]
  PROVE  /\ pc' = [u \in Threads |-> pc'[u]]
         /\ pc'[t] = to
         /\ \A u \in Threads \ {t} : Advances(u)
<1>1. CASE sems[m].waiters = <<>>
  BY <1>1 DEF sem_signal, Places, Advances
<1>2. CASE sems[m].waiters # <<>>
  <2>1. sems[m].waiters \in Seq(Threads) /\ IsInjective(sems[m].waiters)
    BY DEF Places, LockInv
  <2>2. PICK w \in Threads : w = Head(sems[m].waiters) /\ Waits(w, m)
    BY <1>2, <2>1, TailElements DEF Waits
  <2>3. pc[w] \in Waiting
    BY <2>2, WantsOne DEF LockInv
  <2>4. pc' = [pc EXCEPT ![t] = to, ![w] = Granted(@)]
    BY <1>2, <2>2 DEF sem_signal
  <2> QED
    BY <2>3, <2>4 DEF Places, Advances
<1> QED
  BY <1>1, <1>2

-----------------------------------------------------------------------------
(* What the calls of a client have in common.                              *)

Prints(t) ==
  \/ putbyte(t) \/ putbytes(t) \/ draw_char(t) \/ clear_console(t)
  \/ cons_set_term_color(t) \/ get_term_color(t) \/ set_cursor(t) \/ get_cursor(t)
  \/ hide_cursor(t) \/ show_cursor(t) \/ get_char(t)

\* t leaves its screen as s and goes on: on the console it syncs the cursor, save
\* in the middle of a putbytes and when the cursor is where it was.
PrintsOn(t, s, to) ==
  /\ IsScreen(s) /\ Write(t, s)
  /\ Goto(t, "do", to)
  /\ to \in {"do", "lsb_index", "unlock_buffer"}
  /\ to = "lsb_index" => scr_is_console(t)
  /\ to = "unlock_buffer" => ~scr_is_console(t) \/ SameCursor(console, s)
  /\ \/ to # "do" /\ call[t][1] # "putbytes" /\ local' = local
     \/ /\ to # "do" /\ local' = [local EXCEPT ![t] = 0]
        /\ scr_is_console(t) => to = "lsb_index"
     \/ to = "do" /\ call[t][1] = "putbytes" /\ local' = [local EXCEPT ![t] = @ + 1]
  /\ UNCHANGED <<sems, crtc, call, buf, old, menu>>

LEMMA ScreenIsScreen ==
  ASSUME Contents, NEW t \in Clients
  PROVE  IsScreen(Screen(t)) /\ (scr_is_console(t) => Screen(t) = console)
BY TextConsoleAssumption DEF Contents, Screen

\* A call that syncs the cursor on the console.
LEMMA SyncingCall ==
  ASSUME NEW t, NEW name, name # "putbytes", NEW s, IsScreen(s), NEW val,
         Does(t, name, s, val, SyncOrUnlock(t))
  PROVE  PrintsOn(t, s, SyncOrUnlock(t))
BY DEF Does, PrintsOn, SyncOrUnlock, Goto

\* A call that leaves the cursor where it is.
LEMMA OtherCall ==
  ASSUME NEW t, NEW name, name # "putbytes", NEW s, IsScreen(s), NEW val,
         scr_is_console(t) => SameCursor(console, s),
         Does(t, name, s, val, "unlock_buffer")
  PROVE  PrintsOn(t, s, "unlock_buffer")
BY DEF Does, PrintsOn, Goto

LEMMA PrintsEffect ==
  ASSUME Contents, NEW t \in Clients, Prints(t)
  PROVE  \E s, to : PrintsOn(t, s, to)
<1> DEFINE r == Screen(t)
           op == call[t]
<1>0. /\ IsScreen(r)
      /\ scr_is_console(t) => r = console
      /\ SameCursor(r, r)
  BY ScreenIsScreen DEF SameCursor
<1> HIDE DEF r
<1>1. CASE putbyte(t)
  <2> DEFINE s == scr_putbyte(r, op[2])
  <2>1. Does(t, "putbyte", s, <<"char", op[2]>>, SyncOrUnlock(t))
    BY <1>1 DEF putbyte, r
  <2> QED
    BY <1>0, <2>1, PutbyteKeeps, SyncingCall
<1>2. CASE putbytes(t)
  <2> DEFINE s == IF op[2] = <<>> THEN r ELSE scr_putbyte(r, op[2][local[t] + 1])
             to == IF LastByte(t) THEN SyncOrUnlock(t) ELSE "do"
  <2>1. IsScreen(s)
    BY <1>0, PutbyteKeeps
  <2>2. /\ pc[t] = "do" /\ op[1] = "putbytes"
        /\ Write(t, s)
        /\ pc' = [pc EXCEPT ![t] = to]
        /\ local' = [local EXCEPT ![t] = IF LastByte(t) THEN 0 ELSE @ + 1]
        /\ UNCHANGED <<sems, crtc, call, buf, old, menu>>
    BY <1>2 DEF putbytes, r
  <2> HIDE DEF s
  <2>3. CASE LastByte(t)
    <3>1. PrintsOn(t, s, SyncOrUnlock(t))
      BY <2>1, <2>2, <2>3 DEF PrintsOn, SyncOrUnlock, Goto
    <3> QED
      BY <3>1
  <2>4. CASE ~LastByte(t)
    <3>1. PrintsOn(t, s, "do")
      BY <2>1, <2>2, <2>4 DEF PrintsOn, Goto
    <3> QED
      BY <3>1
  <2> QED
    BY <2>3, <2>4
<1>3. CASE draw_char(t)
  <2> DEFINE s == scr_draw_char(r, op[2], op[3], op[4], op[5])
  <2>1. Does(t, "draw_char", s, <<"void">>, SyncOrUnlock(t))
    BY <1>3 DEF draw_char, r
  <2> QED
    BY <1>0, <2>1, CallsKeep, SyncingCall
<1>4. CASE clear_console(t)
  <2> DEFINE s == scr_clear_console(r)
  <2>1. Does(t, "clear_console", s, <<"void">>, "unlock_buffer")
    BY <1>4 DEF clear_console, r
  <2> QED
    BY <1>0, <2>1, CallsKeep, OtherCall
<1>5. CASE cons_set_term_color(t)
  <2> DEFINE s == scr_set_term_color(r, op[2])
  <2>1. Does(t, "set_term_color", s, <<"0">>, "unlock_buffer")
    BY <1>5 DEF cons_set_term_color, r
  <2> QED
    BY <1>0, <2>1, CallsKeep, OtherCall
<1>6. CASE get_term_color(t)
  <2>1. Does(t, "get_term_color", r, <<"0", r.cons_cur_color>>, "unlock_buffer")
    BY <1>6 DEF get_term_color, r
  <2> QED
    BY <1>0, <2>1, OtherCall
<1>7. CASE set_cursor(t)
  <2> DEFINE s == scr_set_cursor(r, op[2], op[3])
  <2>1. Does(t, "set_cursor", s,
             IF ValidPosition(op[2], op[3]) THEN <<"0">> ELSE <<"-1">>, SyncOrUnlock(t))
    BY <1>7 DEF set_cursor, r
  <2> QED
    BY <1>0, <2>1, CallsKeep, SyncingCall
<1>8. CASE get_cursor(t)
  <2>1. Does(t, "get_cursor", r, <<"0">> \o scr_get_cursor(r), "unlock_buffer")
    BY <1>8 DEF get_cursor, r
  <2> QED
    BY <1>0, <2>1, OtherCall
<1>9. CASE hide_cursor(t)
  <2>1. Does(t, "hide_cursor", scr_hide_cursor(r), <<"0">>, SyncOrUnlock(t))
    BY <1>9 DEF hide_cursor, r
  <2> QED
    BY <1>0, <2>1, CallsKeep, SyncingCall
<1>10. CASE show_cursor(t)
  <2>1. Does(t, "show_cursor", scr_show_cursor(r), <<"0">>, SyncOrUnlock(t))
    BY <1>10 DEF show_cursor, r
  <2> QED
    BY <1>0, <2>1, CallsKeep, SyncingCall
<1>11. CASE get_char(t)
  <2>1. Does(t, "get_char", r, <<"char", scr_get_char(r, op[2], op[3])>>,
             "unlock_buffer")
    BY <1>11 DEF get_char, r
  <2> QED
    BY <1>0, <2>1, OtherCall
<1> QED
  BY <1>1, <1>2, <1>3, <1>4, <1>5, <1>6, <1>7, <1>8, <1>9, <1>10, <1>11 DEF Prints

\* The thread is a client that has its screen.
LEMMA PrintsIn ==
  ASSUME Places, Contents, NEW t \in Threads, Prints(t)
  PROVE  t \in Clients /\ pc[t] = "do" /\ \E s, to : PrintsOn(t, s, to)
<1>1. pc[t] = "do"
  BY DEF Prints, Does, Goto, putbyte, putbytes, draw_char, clear_console,
         cons_set_term_color, get_term_color, set_cursor, get_cursor, hide_cursor,
         show_cursor, get_char
<1>2. t \in Clients
  BY <1>1 DEF Places, Threads, SwitcherLabels, Syncing
<1> QED
  BY <1>1, <1>2, PrintsEffect

\* What a write leaves is still a screen.
LEMMA WriteKeeps ==
  ASSUME Contents, NEW t, NEW s, IsScreen(s), Write(t, s)
  PROVE  Contents'
BY DEF Contents, Write

-----------------------------------------------------------------------------
(* Places and owners, step by step.                                        *)

\* A step of t that leaves the semaphores, and what t owns, alone.
LEMMA QuietStep ==
  ASSUME Places, LockInv, NEW t \in Threads, NEW to,
         UNCHANGED <<sems, menu, interrupts>>,
         Goto(t, pc[t], to), pc[t] \notin Waiting \cup Interrupted, to \notin Interrupted,
         DOMAIN call' = Threads, DOMAIN old' = Threads,
         \A u \in Threads \ {t} : call'[u] = call[u] /\ old'[u] = old[u],
         PlaceOf(t)',
         \A n : Owns(t, n)' <=> Owns(t, n)
  PROVE  Places' /\ LockInv'
<1>1. \A u \in Threads \ {t} : Steady(u)
  BY DEF Goto, Places, Steady
<1>2. \A u \in Threads \ {t} : Advances(u)
  BY <1>1, SteadyAdvances
<1>3. /\ pc' = [u \in Threads |-> pc'[u]]
      /\ sems' \in [Semaphores -> [count : Int, waiters : Seq(Threads)]]
  BY DEF Goto, Places
<1>4. Places'
  BY <1>2, <1>3, PlacesStep
<1>5. pc'[t] \notin Interrupted
  BY DEF Goto, Places
<1>6. LockInv'
  BY <1>1, <1>5, QuietLock
<1> QED
  BY <1>4, <1>6

\* It moves between two places where it owns the same.
LEMMA MoveStep ==
  ASSUME Places, LockInv, NEW t \in Threads, NEW to,
         UNCHANGED <<sems, menu, call, old, interrupts>>,
         Goto(t, pc[t], to),
         pc[t] \notin Waiting \cup Interrupted \cup {"idle", "signal_new"},
         to \notin Interrupted,
         t \in Clients => /\ to \in ClientLabels
                          /\ pc[t] \in ScreenHeld <=> to \in ScreenHeld
                          /\ pc[t] \in BufferHeld <=> to \in BufferHeld,
         t \in Switchers => /\ to \in SwitcherLabels
                            /\ pc[t] \in NewHeld <=> to \in NewHeld
                            /\ pc[t] \in OldHeld <=> to \in OldHeld
  PROVE  Places' /\ LockInv'
<1>1. pc'[t] = to /\ call'[t] = call[t] /\ old'[t] = old[t]
  BY DEF Goto, Places
<1>2. PlaceOf(t)
  BY PlacesOf
<1>3. to \in Labels
  BY DEF Threads, Labels, ClientLabels, SwitcherLabels, Syncing
<1>4. PlaceOf(t)'
  BY <1>1, <1>2, <1>3 DEF PlaceOf, Interrupted
<1>5. \A n : Owns(t, n)' <=> Owns(t, n)
  BY <1>1 DEF Owns
<1>6. DOMAIN call' = Threads /\ DOMAIN old' = Threads
  BY DEF Places
<1> QED
  BY <1>4, <1>5, <1>6, QuietStep

\* It begins a call, or ends one at once.
LEMMA BeginStep ==
  ASSUME Places, LockInv, NEW t \in Threads, NEW op, NEW to,
         UNCHANGED <<sems, menu, interrupts>>,
         Begin(t, op, to), DOMAIN old' = Threads,
         \A u \in Threads \ {t} : old'[u] = old[u],
         \/ to = "idle"
         \/ t \in Clients /\ to = "cons_lock"
         \/ /\ t \in Switchers /\ to = "new_lock" /\ op[2] \in Ids
            /\ old'[t] \in Ids /\ old'[t] # op[2]
  PROVE  Places' /\ LockInv'
<1>1. /\ Goto(t, pc[t], to) /\ pc[t] = "idle" /\ pc'[t] = to
      /\ DOMAIN call' = Threads
      /\ \A u \in Threads \ {t} : call'[u] = call[u]
      /\ to # "idle" => call'[t] = op
  BY DEF Begin, Goto, Places
<1>2. Clients \cap Switchers = {}
  BY TextConsoleAssumption
<1>3. PlaceOf(t)'
  BY <1>1, <1>2 DEF PlaceOf, Labels, ClientLabels, SwitcherLabels
<1>4. \A n : ~Owns(t, n) /\ ~Owns(t, n)'
  BY <1>1, <1>2
     DEF Owns, ScreenHeld, BufferHeld, NewHeld, OldHeld, ClientLabels,
         SwitcherLabels, Syncing
<1>5. pc[t] \notin Waiting \cup Interrupted /\ to \notin Interrupted
  BY <1>1 DEF Waiting, Interrupted
<1> QED
  BY <1>1, <1>3, <1>4, <1>5, QuietStep

\* It waits for a semaphore.
LEMMA WaitStep ==
  ASSUME Places, LockInv, NEW t \in Threads, NEW m, Wants(t, m),
         sem_wait(t, m), UNCHANGED <<call, old, menu, interrupts>>
  PROVE  Places' /\ LockInv'
<1>1. /\ LockInv'
      /\ sems' \in [Semaphores -> [count : Int, waiters : Seq(Threads)]]
  BY WaitLock
<1>2. /\ pc' = [u \in Threads |-> pc'[u]]
      /\ \A u \in Threads : Advances(u)
  BY WantsOne, WaitMoves
<1>3. PlaceOf(t)'
  BY <1>2, PlacesOf, AdvancesPlace
<1>4. DOMAIN call' = Threads /\ DOMAIN old' = Threads
  BY DEF Places
<1>5. Places'
  BY <1>1, <1>2, <1>3, <1>4, PlacesStep
<1> QED
  BY <1>1, <1>5

\* It gives one back.
LEMMA SignalStep ==
  ASSUME Places, LockInv, NEW t \in Threads, NEW m \in Semaphores, NEW to,
         Owns(t, m), sem_signal(t, m, to),
         pc[t] \notin Waiting \cup Interrupted, to \notin Interrupted,
         menu' = menu, interrupts' = interrupts, DOMAIN call' = Threads, DOMAIN old' = Threads,
         \A u \in Threads \ {t} : call'[u] = call[u] /\ old'[u] = old[u],
         pc'[t] = to => /\ PlaceOf(t)'
                        /\ \A n : Owns(t, n)' <=> Owns(t, n) /\ n # m
  PROVE  Places' /\ LockInv'
<1>1. /\ pc' = [u \in Threads |-> pc'[u]]
      /\ pc'[t] = to
      /\ \A u \in Threads \ {t} : Advances(u)
  BY SignalMoves
<1>2. /\ LockInv'
      /\ sems' \in [Semaphores -> [count : Int, waiters : Seq(Threads)]]
  BY <1>1, SignalLock
<1>3. Places'
  BY <1>1, <1>2, PlacesStep
<1> QED
  BY <1>2, <1>3

\* The calls that begin, or end at once.
BeginsCall(t) ==
  \/ Call(t) \/ RefuseColor(t) \/ scr_get_screen(t)
  \/ SwitchNothing(t) \/ SwitchBegin(t)

\* Clients print and switchers change the screen.
LEMMA MenuOf ==
  ASSUME Places, NEW t \in Threads, NEW op \in menu[t]
  PROVE  /\ t \in Clients => op[1] # "scr_set_screen"
         /\ t \in Switchers => op[1] \in {"scr_set_screen", "scr_get_screen"}
BY TextConsoleAssumption DEF Places

LEMMA BeginsCallLocks ==
  ASSUME Places, LockInv, screen_idx \in Ids, NEW t \in Threads, BeginsCall(t),
         interrupts' = interrupts
  PROVE  Places' /\ LockInv'
<1>0. DOMAIN old = Threads
  BY DEF Places
<1>1. CASE Call(t)
  <2>1. PICK op \in menu[t] :
          /\ op[1] \notin {"scr_set_screen", "scr_get_screen"}
          /\ Begin(t, op, "cons_lock")
    BY <1>1 DEF Call
  <2>2. t \in Clients
    BY <2>1, MenuOf DEF Threads
  <2>3. UNCHANGED <<sems, menu, old>>
    BY <1>1 DEF Call
  <2> QED
    BY <1>0, <2>1, <2>2, <2>3, BeginStep
<1>2. CASE RefuseColor(t)
  <2>1. PICK op \in menu[t] : Begin(t, op, "idle")
    BY <1>2 DEF RefuseColor
  <2>2. UNCHANGED <<sems, menu, old>>
    BY <1>2 DEF RefuseColor
  <2> QED
    BY <1>0, <2>1, <2>2, BeginStep
<1>3. CASE scr_get_screen(t)
  <2>1. Begin(t, <<"scr_get_screen">>, "idle") /\ UNCHANGED <<sems, menu, old>>
    BY <1>3 DEF scr_get_screen
  <2> QED
    BY <1>0, <2>1, BeginStep
<1>4. CASE SwitchNothing(t)
  <2>1. PICK op \in menu[t] : Begin(t, op, "idle") /\ UNCHANGED <<sems, menu, old>>
    BY <1>4 DEF SwitchNothing
  <2> QED
    BY <1>0, <2>1, BeginStep
<1>5. CASE SwitchBegin(t)
  <2>1. PICK op \in menu[t] : /\ op[1] = "scr_set_screen"
                              /\ op[2] \in Ids \ {screen_idx}
                              /\ Begin(t, op, "new_lock")
    BY <1>5 DEF SwitchBegin
  <2>2. t \in Switchers
    BY <2>1, MenuOf DEF Threads
  <2>3. /\ old' = [old EXCEPT ![t] = screen_idx]
        /\ UNCHANGED <<sems, menu>>
    BY <1>5 DEF SwitchBegin
  <2>4. /\ DOMAIN old' = Threads /\ old'[t] = screen_idx
        /\ \A u \in Threads \ {t} : old'[u] = old[u]
    BY <1>0, <2>3
  <2> QED
    BY <2>1, <2>2, <2>3, <2>4, BeginStep
<1> QED
  BY <1>1, <1>2, <1>3, <1>4, <1>5 DEF BeginsCall

\* The waits.
LEMMA WaitsLocks ==
  ASSUME Places, LockInv, NEW t \in Threads, interrupts' = interrupts,
         LockScreen(t) \/ LockBuffer(t) \/ LockNew(t) \/ LockOld(t)
  PROVE  Places' /\ LockInv'
<1>1. CASE LockScreen(t)
  <2>1. Wants(t, cons_lock(Home[t])) /\ sem_wait(t, cons_lock(Home[t]))
    BY <1>1 DEF LockScreen, Wants
  <2> QED
    BY <1>1, <2>1, WaitStep DEF LockScreen, threads
<1>2. CASE LockBuffer(t)
  <2>1. Wants(t, cons_buffer_lock(Home[t])) /\ sem_wait(t, cons_buffer_lock(Home[t]))
    BY <1>2 DEF LockBuffer, Wants
  <2> QED
    BY <1>2, <2>1, WaitStep DEF LockBuffer, threads
<1>3. CASE LockNew(t)
  <2>1. /\ Wants(t, cons_buffer_lock(call[t][2]))
        /\ sem_wait(t, cons_buffer_lock(call[t][2]))
    BY <1>3 DEF LockNew, Wants
  <2> QED
    BY <1>3, <2>1, WaitStep DEF LockNew, threads
<1>4. CASE LockOld(t)
  <2>1. Wants(t, cons_buffer_lock(old[t])) /\ sem_wait(t, cons_buffer_lock(old[t]))
    BY <1>4 DEF LockOld, Wants
  <2> QED
    BY <1>4, <2>1, WaitStep DEF LockOld, threads
<1> QED
  BY <1>1, <1>2, <1>3, <1>4

\* The signals.
LEMMA SignalsLocks ==
  ASSUME Places, LockInv, NEW t \in Threads, interrupts' = interrupts,
         \/ GiveUp(t) \/ UnlockBuffer(t) \/ UnlockScreen(t)
         \/ SignalOld(t) \/ SignalNew(t)
  PROVE  Places' /\ LockInv'
<1>0. /\ DOMAIN call = Threads /\ DOMAIN old = Threads
      /\ Clients \cap Switchers = {} /\ Home \in [Clients -> Ids]
  BY TextConsoleAssumption DEF Places
<1> USE DEF PlaceOf, Labels, ClientLabels, SwitcherLabels, Syncing, Waiting, Interrupted
<1>1. CASE GiveUp(t) \/ UnlockScreen(t)
  <2> DEFINE m == cons_lock(Home[t])
  <2>1. /\ pc[t] \in {"give_up", "unlock_cons"}
        /\ sem_signal(t, m, "idle")
        /\ call' = [call EXCEPT ![t] = NULL]
        /\ UNCHANGED <<old, menu>>
    BY <1>1 DEF GiveUp, UnlockScreen
  <2>2. t \in Clients /\ t \notin Switchers
    BY <1>0, <2>1 DEF Places, Threads
  <2>3. m \in Semaphores /\ Owns(t, m)
    BY <1>0, <2>1, <2>2, Names DEF Owns, ScreenHeld
  <2>4. pc'[t] = "idle" =>
          PlaceOf(t)' /\ \A n : Owns(t, n)' <=> Owns(t, n) /\ n # m
    BY <2>1, <2>2 DEF Owns, ScreenHeld, BufferHeld
  <2> HIDE DEF m
  <2> QED
    BY <1>0, <2>1, <2>3, <2>4, SignalStep
<1>2. CASE UnlockBuffer(t)
  <2> DEFINE m == cons_buffer_lock(Home[t])
  <2>1. /\ pc[t] = "unlock_buffer"
        /\ sem_signal(t, m, "unlock_cons")
        /\ UNCHANGED <<call, old, menu>>
    BY <1>2 DEF UnlockBuffer, threads
  <2>2. t \in Clients /\ t \notin Switchers
    BY <1>0, <2>1 DEF Places, Threads
  <2>3. m \in Semaphores /\ Owns(t, m)
    BY <1>0, <2>1, <2>2, Names DEF Owns, BufferHeld
  <2>4. pc'[t] = "unlock_cons" =>
          PlaceOf(t)' /\ \A n : Owns(t, n)' <=> Owns(t, n) /\ n # m
    BY <2>1, <2>2, Names DEF Owns, ScreenHeld, BufferHeld
  <2> HIDE DEF m
  <2> QED
    BY <1>0, <2>1, <2>3, <2>4, SignalStep
<1>3. CASE SignalOld(t)
  <2> DEFINE m == cons_buffer_lock(old[t])
  <2>1. /\ pc[t] = "signal_old"
        /\ sem_signal(t, m, "signal_new")
        /\ old' = [old EXCEPT ![t] = NULL]
        /\ UNCHANGED <<call, menu>>
    BY <1>3 DEF SignalOld
  <2>2. /\ t \in Switchers /\ t \notin Clients
        /\ call[t][2] \in Ids /\ old[t] \in Ids /\ old[t] # call[t][2]
    BY <1>0, <2>1 DEF Places, Threads
  <2>3. m \in Semaphores /\ Owns(t, m)
    BY <2>1, <2>2, Names DEF Owns, OldHeld
  <2>4. pc'[t] = "signal_new" =>
          PlaceOf(t)' /\ \A n : Owns(t, n)' <=> Owns(t, n) /\ n # m
    BY <2>1, <2>2, Names DEF Owns, NewHeld, OldHeld
  <2> HIDE DEF m
  <2> QED
    BY <1>0, <2>1, <2>3, <2>4, SignalStep
<1>4. CASE SignalNew(t)
  <2> DEFINE m == cons_buffer_lock(call[t][2])
  <2>1. /\ pc[t] = "signal_new"
        /\ sem_signal(t, m, "idle")
        /\ call' = [call EXCEPT ![t] = NULL]
        /\ UNCHANGED <<old, menu>>
    BY <1>4 DEF SignalNew
  <2>2. t \in Switchers /\ t \notin Clients /\ call[t][2] \in Ids
    BY <1>0, <2>1 DEF Places, Threads
  <2>3. m \in Semaphores /\ Owns(t, m)
    BY <2>1, <2>2, Names DEF Owns, NewHeld
  <2>4. pc'[t] = "idle" =>
          PlaceOf(t)' /\ \A n : Owns(t, n)' <=> Owns(t, n) /\ n # m
    BY <2>1, <2>2 DEF Owns, NewHeld, OldHeld
  <2> HIDE DEF m
  <2> QED
    BY <1>0, <2>1, <2>3, <2>4, SignalStep
<1> QED
  BY <1>1, <1>2, <1>3, <1>4

\* The steps between, with the same semaphores in hand.
LEMMA MovesLocks ==
  ASSUME Places, LockInv, Contents, NEW t \in Threads, interrupts' = interrupts,
         \/ PickBuffer(t) \/ Prints(t)
         \/ SelectLsb(t) \/ WriteLsb(t) \/ SelectMsb(t) \/ WriteMsb(t)
         \/ save_screen(t) \/ load_screen(t) \/ SetIndex(t)
  PROVE  Places' /\ LockInv'
<1>0. /\ Clients \cap Switchers = {}
      /\ t \in Clients \/ t \in Switchers
      /\ t \in Clients => pc[t] \in ClientLabels
      /\ t \in Switchers => pc[t] \in SwitcherLabels
  BY TextConsoleAssumption DEF Places, Threads
<1> USE DEF ClientLabels, SwitcherLabels, Syncing, Interrupted
<1>1. CASE PickBuffer(t)
  <2>1. /\ UNCHANGED <<sems, menu, call, old>>
        /\ pc[t] = "pick" /\ Goto(t, pc[t], "do")
    BY <1>1 DEF PickBuffer, Goto
  <2> QED
    BY <1>0, <2>1, MoveStep DEF ScreenHeld, BufferHeld, Waiting
<1>2. CASE Prints(t)
  <2>1. pc[t] = "do" /\ t \in Clients
    BY <1>2, PrintsIn
  <2>2. PICK s, to : PrintsOn(t, s, to)
    BY <1>2, PrintsIn
  <2>3. /\ UNCHANGED <<sems, menu, call, old>>
        /\ Goto(t, pc[t], to)
        /\ to \in {"do", "lsb_index", "unlock_buffer"}
    BY <2>2 DEF PrintsOn, Goto
  <2> QED
    BY <1>0, <2>1, <2>3, MoveStep DEF ScreenHeld, BufferHeld, Waiting
<1>3. CASE SelectLsb(t) \/ WriteLsb(t) \/ SelectMsb(t)
  <2>1. PICK to \in Syncing :
          /\ UNCHANGED <<sems, menu, call, old>>
          /\ pc[t] \in Syncing /\ Goto(t, pc[t], to)
    BY <1>3 DEF SelectLsb, WriteLsb, SelectMsb, Goto, threads
  <2>2. pc[t] \notin Waiting \cup Interrupted \cup {"idle", "signal_new"}
    BY <2>1 DEF Waiting
  <2> QED
    BY <1>0, <2>1, <2>2, MoveStep DEF ScreenHeld, BufferHeld, NewHeld, OldHeld
<1>4. CASE WriteMsb(t)
  <2> DEFINE to == IF t \in Switchers THEN "set_idx" ELSE "unlock_buffer"
  <2>1. /\ UNCHANGED <<sems, menu, call, old>>
        /\ pc[t] = "msb" /\ Goto(t, pc[t], to)
    BY <1>4 DEF WriteMsb, Goto
  <2> QED
    BY <1>0, <2>1, MoveStep DEF ScreenHeld, BufferHeld, NewHeld, OldHeld, Waiting
<1>5. CASE save_screen(t) \/ load_screen(t) \/ SetIndex(t)
  <2>1. PICK to \in {"load", "lsb_index", "signal_old"} :
          /\ UNCHANGED <<sems, menu, call, old>>
          /\ pc[t] \in {"save", "load", "set_idx"} /\ Goto(t, pc[t], to)
    BY <1>5 DEF save_screen, load_screen, SetIndex, Goto, threads
  <2> QED
    BY <1>0, <2>1, MoveStep DEF NewHeld, OldHeld, Waiting
<1> QED
  BY <1>1, <1>2, <1>3, <1>4, <1>5

LEMMA InterruptLocks ==
  ASSUME Places, LockInv, NEW t \in Threads, Interrupt(t) \/ WaitFails(t),
         interrupts' = interrupts
  PROVE  Places' /\ LockInv'
<1>1. /\ LockInv'
      /\ sems' \in [Semaphores -> [count : Int, waiters : Seq(Threads)]]
  BY InterruptLock, FailLock
<1>2. /\ t \in Clients /\ t \notin Switchers
      /\ \E to \in Interrupted \cup {"idle", "give_up"} :
           /\ pc' = [pc EXCEPT ![t] = to]
           /\ to \in Interrupted => interrupts
      /\ UNCHANGED <<old, menu>>
      /\ call' = call \/ call' = [call EXCEPT ![t] = NULL]
  <2>1. CASE Interrupt(t)
    BY <2>1, InterruptIs DEF threads, Interrupted
  <2>2. CASE WaitFails(t)
    BY <2>2, FailsIs DEF Interrupted
  <2> QED
    BY <2>1, <2>2
<1>3. /\ pc' = [u \in Threads |-> pc'[u]]
      /\ pc'[t] \in Interrupted \cup {"idle", "give_up"}
      /\ pc'[t] \in Interrupted => interrupts
      /\ \A u \in Threads \ {t} : Steady(u)
      /\ DOMAIN call' = Threads /\ DOMAIN old' = Threads
  BY <1>2 DEF Places, Steady
<1>4. PlaceOf(t)'
  BY <1>2, <1>3 DEF PlaceOf, Labels, ClientLabels, Interrupted
<1>5. Places'
  BY <1>1, <1>2, <1>3, <1>4, SteadyAdvances, PlacesStep
<1> QED
  BY <1>1, <1>5

\* Every step keeps the owners.
LEMMA LocksStep ==
  ASSUME Places, LockInv, Contents, [Next]_vars
  PROVE  Places' /\ LockInv'
<1>1. CASE UNCHANGED vars
  <2>1. Places'
    BY <1>1 DEF vars, threads, Places
  <2>2. LockInv'
    BY <1>1 DEF vars, threads, LockInv, CountRight, Inside, In, Served, SwitcherNext,
                Owns, Wants, Waits, Repairs
  <2> QED
    BY <2>1, <2>2
<1>2. CASE Next
  <2>0. interrupts' = interrupts
    BY <1>2 DEF Next
  <2>1. PICK t \in Threads : BeginsCall(t) \/ Step(t) \/ Interrupt(t)
    BY <1>2 DEF Next, BeginsCall
  <2>2. CASE BeginsCall(t)
    BY <2>0, <2>2, BeginsCallLocks DEF Contents
  <2>3. CASE Step(t)
    BY <2>0, <2>3, WaitsLocks, SignalsLocks, MovesLocks, InterruptLocks DEF Step, Prints
  <2>4. CASE Interrupt(t)
    BY <2>0, <2>4, InterruptLocks
  <2> QED
    BY <2>1, <2>2, <2>3, <2>4
<1> QED
  BY <1>1, <1>2

LEMMA LocksInit ==
  ASSUME Init
  PROVE  Places /\ LockInv
<1>1. Clients \cap Switchers = {}
  BY TextConsoleAssumption
<1>2. sems \in [Semaphores -> [count : Int, waiters : Seq(Threads)]]
  BY EmptySeq DEF Init, console_init
<1>3. Places
  BY <1>2 DEF Init, Places, Threads, Labels, ClientLabels, SwitcherLabels
<1>4. \A t \in Threads : \A m : ~Owns(t, m)
  BY DEF Init, Owns, Threads, ScreenHeld, BufferHeld, NewHeld, OldHeld,
         ClientLabels, SwitcherLabels, Syncing
<1>5. /\ \A m \in Semaphores : sems[m] = [count |-> 1, waiters |-> <<>>]
      /\ IsInjective(<<>>) /\ \A t : ~Contains(<<>>, t)
  BY DEF Init, console_init, IsInjective, Contains
<1>6. \A m \in Semaphores : Inside(m) = {}
  <2>1. \A t \in Threads : pc[t] = "idle"
    BY DEF Init
  <2>2. \A m \in Semaphores : \A t \in Threads : ~Waits(t, m) /\ ~Repairs(t, m)
    BY <1>5, <2>1 DEF Waits, Repairs
  <2> QED
    BY <1>4, <2>2 DEF Inside, In
<1>7. CountRight
  <2>1. \A m \in Semaphores : sems[m].count = 1 /\ Cardinality(Inside(m)) = 0
    BY <1>5, <1>6, FS_EmptySet
  <2> QED
    BY <2>1 DEF CountRight
<1>8. LockInv
  BY <1>4, <1>5, <1>7 DEF LockInv, Waits, Served, SwitcherNext
<1> QED
  BY <1>3, <1>8

-----------------------------------------------------------------------------
(* Screens and registers, step by step.                                    *)

LEMMA CursorIndexType ==
  ASSUME NEW s, IsScreen(s)
  PROVE  CursorIndex(s) \in Nat
<1>1. /\ s.cons_cur_x \in Nat /\ s.cons_cur_y \in Nat
      /\ CONSOLE_WIDTH \in Nat /\ CONSOLE_HEIGHT \in Nat
  BY ScreenAssumption DEF IsScreen, InRange
<1> QED
  BY <1>1 DEF CursorIndex

LEMMA WriteCrtcType ==
  ASSUME Registers, NEW val \in 0..(Radix - 1), WriteCrtc(val)
  PROVE  crtc' \in [index : {"lsb", "msb", NULL},
                    lsb : (0..(Radix - 1)) \cup {NULL},
                    msb : (0..(Radix - 1)) \cup {NULL}]
BY DEF Registers, WriteCrtc

LEMMA DigitType ==
  ASSUME NEW n \in Nat
  PROVE  n % Radix \in 0..(Radix - 1) /\ n \div Radix \in Nat
BY TextConsoleAssumption

\* The steps that touch neither the screens nor the registers.
LEMMA ControlContents ==
  ASSUME Contents, Registers, NEW t \in Threads,
         \/ BeginsCall(t) \/ Interrupt(t) \/ WaitFails(t) \/ PickBuffer(t)
         \/ LockScreen(t) \/ LockBuffer(t) \/ LockNew(t) \/ LockOld(t)
         \/ GiveUp(t) \/ UnlockBuffer(t) \/ UnlockScreen(t)
         \/ SignalOld(t) \/ SignalNew(t)
  PROVE  /\ UNCHANGED <<memory, crtc, local>>
         /\ \/ UNCHANGED buf
            \/ PickBuffer(t)
            \/ UnlockScreen(t) /\ buf' = [buf EXCEPT ![t] = NULL]
<1>1. CASE BeginsCall(t) \/ Interrupt(t) \/ WaitFails(t)
  BY <1>1 DEF BeginsCall, Call, RefuseColor, scr_get_screen, SwitchNothing,
              SwitchBegin, Interrupt, WaitFails, threads
<1>2. CASE LockScreen(t) \/ LockBuffer(t) \/ LockNew(t) \/ LockOld(t)
  BY <1>2 DEF LockScreen, LockBuffer, LockNew, LockOld, threads
<1>3. CASE GiveUp(t) \/ UnlockBuffer(t) \/ SignalOld(t) \/ SignalNew(t)
  BY <1>3 DEF GiveUp, UnlockBuffer, SignalOld, SignalNew, threads
<1>4. CASE UnlockScreen(t)
  BY <1>4 DEF UnlockScreen
<1>5. CASE PickBuffer(t)
  BY <1>5 DEF PickBuffer
<1> QED
  BY <1>1, <1>2, <1>3, <1>4, <1>5

LEMMA ContentsStep ==
  ASSUME Places, Contents, Registers, [Next]_vars
  PROVE  Contents' /\ Registers'
<1>1. ASSUME UNCHANGED <<memory, crtc, local>>,
             buf' \in [Threads -> {"console", "screen", NULL}]
      PROVE  Contents' /\ Registers'
  BY <1>1 DEF memory, Contents, Registers
<1>2. CASE UNCHANGED vars
  BY <1>1, <1>2 DEF vars, threads, Registers
<1>3. ASSUME NEW t \in Threads,
             \/ BeginsCall(t) \/ Interrupt(t) \/ WaitFails(t) \/ PickBuffer(t)
             \/ LockScreen(t) \/ LockBuffer(t) \/ LockNew(t) \/ LockOld(t)
             \/ GiveUp(t) \/ UnlockBuffer(t) \/ UnlockScreen(t)
             \/ SignalOld(t) \/ SignalNew(t)
      PROVE  Contents' /\ Registers'
  <2>1. /\ UNCHANGED <<memory, crtc, local>>
        /\ \/ UNCHANGED buf
           \/ PickBuffer(t)
           \/ buf' = [buf EXCEPT ![t] = NULL]
    BY <1>3, ControlContents
  <2>2. buf' \in [Threads -> {"console", "screen", NULL}]
    BY <2>1 DEF Registers, PickBuffer
  <2> QED
    BY <1>1, <2>1, <2>2
<1>4. ASSUME NEW t \in Threads, Prints(t)
      PROVE  Contents' /\ Registers'
  <2>1. PICK s, to : PrintsOn(t, s, to)
    BY <1>4, PrintsIn
  <2>2. Contents'
    BY <2>1, WriteKeeps DEF PrintsOn
  <2>3. UNCHANGED <<crtc, buf>> /\ local' \in [Threads -> Nat]
    BY <2>1 DEF PrintsOn, Registers
  <2> QED
    BY <2>2, <2>3 DEF Registers
<1>5. ASSUME NEW t \in Threads, SelectLsb(t)
      PROVE  Contents' /\ Registers'
  <2>1. local' \in [Threads -> Nat]
    BY <1>5, CursorIndexType DEF SelectLsb, Contents, Registers
  <2>2. crtc' = [crtc EXCEPT !.index = "lsb"] /\ UNCHANGED <<memory, buf>>
    BY <1>5 DEF SelectLsb
  <2> QED
    BY <2>1, <2>2 DEF Contents, Registers, memory
<1>6. ASSUME NEW t \in Threads, WriteLsb(t)
      PROVE  Contents' /\ Registers'
  <2>1. local[t] % Radix \in 0..(Radix - 1)
    BY DigitType DEF Registers
  <2> QED
    BY <1>6, <2>1, WriteCrtcType DEF WriteLsb, threads, Contents, Registers, memory
<1>7. ASSUME NEW t \in Threads, SelectMsb(t)
      PROVE  Contents' /\ Registers'
  <2>1. crtc' = [crtc EXCEPT !.index = "msb"] /\ UNCHANGED <<memory, threads>>
    BY <1>7 DEF SelectMsb
  <2> QED
    BY <2>1 DEF Contents, Registers, memory, threads
<1>8. ASSUME NEW t \in Threads, WriteMsb(t)
      PROVE  Contents' /\ Registers'
  <2>1. (local[t] \div Radix) % Radix \in 0..(Radix - 1)
    BY DigitType DEF Registers
  <2>2. local' \in [Threads -> Nat]
    BY <1>8 DEF WriteMsb, Registers
  <2>3. /\ WriteCrtc((local[t] \div Radix) % Radix)
        /\ UNCHANGED <<memory, buf>>
    BY <1>8 DEF WriteMsb
  <2> QED
    BY <2>1, <2>2, <2>3, WriteCrtcType DEF Contents, Registers, memory
<1>9. ASSUME NEW t \in Threads, save_screen(t) \/ load_screen(t) \/ SetIndex(t)
      PROVE  Contents' /\ Registers'
  <2>1. t \in Switchers /\ call[t][2] \in Ids
    <3>1. pc[t] \in {"save", "load", "set_idx"}
      BY <1>9 DEF save_screen, load_screen, SetIndex, Goto
    <3> QED
      BY <3>1 DEF Places, Threads, ClientLabels, Syncing
  <2>2. UNCHANGED <<crtc, local, buf>>
    BY <1>9 DEF save_screen, load_screen, SetIndex, threads
  <2>3. Contents'
    BY <1>9, <2>1 DEF save_screen, load_screen, SetIndex, Contents
  <2> QED
    BY <2>2, <2>3 DEF Registers
<1>10. CASE Next
  <2>1. PICK t \in Threads : BeginsCall(t) \/ Step(t) \/ Interrupt(t)
    BY <1>10 DEF Next, BeginsCall
  <2> QED
    BY <1>3, <1>4, <1>5, <1>6, <1>7, <1>8, <1>9, <2>1 DEF Step, Prints
<1> QED
  BY <1>2, <1>10

LEMMA ContentsInit ==
  ASSUME Init
  PROVE  Contents /\ Registers
BY NewIsScreen, TextConsoleAssumption
   DEF Init, console_init, Contents, Registers, Ids

\* What holds whatever the number of threads that change the screen.
Inv == Places /\ LockInv /\ Contents /\ Registers

LEMMA Invariance == Spec => []Inv
<1>1. Init => Inv
  BY LocksInit, ContentsInit DEF Inv
<1>2. Inv /\ [Next]_vars => Inv'
  BY LocksStep, ContentsStep DEF Inv
<1> QED
  BY <1>1, <1>2, PTL DEF Spec

-----------------------------------------------------------------------------
\* Every variable keeps its type.  In particular both registers of the cursor
\* only ever get a value they can hold (lines 97-126).
THEOREM TypeCorrect == Spec => []TypeOK
<1>1. Inv => TypeOK
  BY DEF Inv, Places, Contents, Registers, TypeOK, IsScreen, Shape
<1> QED
  BY <1>1, Invariance, PTL

\* No sequence of calls, by however many threads, leaves the cursor of a screen
\* outside of it, save at the start of the line below (check_cursor, lines
\* 152-179): not even a copy that a change of screen has made stale.
THEOREM CursorCorrect == Spec => []CursorInRange
<1>1. Inv => CursorInRange
  BY DEF Inv, Contents, CursorInRange, Logical, IsScreen, InRange
<1> QED
  BY <1>1, Invariance, PTL

\* The owners of a semaphore are its holders.
LEMMA OwnersHold ==
  ASSUME Inv, NEW m \in Semaphores
  PROVE  Holders(m) = {t \in Threads : Owns(t, m)}
<1>1. ASSUME NEW t \in Threads, NEW i \in Ids
      PROVE  /\ Owns(t, cons_lock(i)) <=> HoldsScreen(t, i)
             /\ Owns(t, cons_buffer_lock(i)) <=> HoldsBuffer(t, i)
  <2>1. CASE t \in Clients /\ t \notin Switchers
    <3>1. pc[t] \in ClientLabels
      BY <2>1 DEF Inv, Places
    <3> QED
      BY <2>1, <3>1, Names
         DEF Owns, HoldsScreen, HoldsBuffer, InBuffer, ScreenHeld, BufferHeld,
             ClientLabels, Syncing
  <2>2. CASE t \in Switchers /\ t \notin Clients
    <3>1. pc[t] \in SwitcherLabels
      BY <2>2 DEF Inv, Places
    <3> QED
      BY <2>2, <3>1, Names
         DEF Owns, HoldsScreen, HoldsBuffer, HoldsBoth, InSwitch, InBuffer, NewHeld,
             OldHeld, SwitcherLabels, Syncing
  <2> QED
    BY <2>1, <2>2, TextConsoleAssumption DEF Threads
<1>2. PICK i \in Ids : m = cons_lock(i) \/ m = cons_buffer_lock(i)
  BY DEF Semaphores, cons_lock, cons_buffer_lock
<1>3. CASE m = cons_lock(i)
  <2>1. m[1] = i /\ m[2] = "cons_lock"
    BY <1>3 DEF cons_lock
  <2> QED
    BY <1>1, <1>3, <2>1 DEF Holders
<1>4. CASE m = cons_buffer_lock(i)
  <2>1. m[1] = i /\ m[2] = "cons_buffer_lock"
    BY <1>4 DEF cons_buffer_lock
  <2> QED
    BY <1>1, <1>4, <2>1 DEF Holders
<1> QED
  BY <1>2, <1>3, <1>4

\* Those who have a counter to correct are Late.
LEMMA LateRepairs ==
  ASSUME Inv, NEW m \in Semaphores
  PROVE  Late(m) = {t \in Threads : Repairs(t, m)}
<1>1. ASSUME NEW t \in Threads, Repairs(t, m)
      PROVE  t \in Late(m)
  <2>1. t \in Clients
    BY <1>1 DEF Inv, Places, Repairs, Threads, SwitcherLabels, Syncing
  <2>2. CASE pc[t] = "cons_eintr"
    <3>1. m = cons_lock(Home[t])
      BY <1>1, <2>2 DEF Repairs
    <3> QED
      BY <2>1, <2>2, <3>1 DEF Late, cons_lock
  <2>3. CASE pc[t] = "buffer_eintr"
    <3>1. m = cons_buffer_lock(Home[t])
      BY <1>1, <2>3 DEF Repairs
    <3> QED
      BY <2>1, <2>3, <3>1 DEF Late, cons_buffer_lock
  <2> QED
    BY <1>1, <2>2, <2>3 DEF Repairs
<1>2. ASSUME NEW t \in Late(m)
      PROVE  t \in Threads /\ Repairs(t, m)
  <2>1. PICK i \in Ids : m = cons_lock(i) \/ m = cons_buffer_lock(i)
    BY DEF Semaphores, cons_lock, cons_buffer_lock
  <2>2. t \in Threads /\ Home[t] = i
    BY <2>1 DEF Late, Threads, cons_lock, cons_buffer_lock
  <2>3. CASE m = cons_lock(i)
    BY <2>2, <2>3 DEF Late, Repairs, cons_lock
  <2>4. CASE m = cons_buffer_lock(i)
    BY <2>2, <2>4 DEF Late, Repairs, cons_buffer_lock
  <2> QED
    BY <2>1, <2>2, <2>3, <2>4
<1> QED
  BY <1>1, <1>2

\* A queue is as long as there are threads in it.
LEMMA QueueCount ==
  ASSUME NEW S, NEW s \in Seq(S), IsInjective(s)
  PROVE  Cardinality({x \in S : Contains(s, x)}) = Len(s)
<1> DEFINE W == {x \in S : Contains(s, x)}
<1>1. /\ Len(s) \in Nat /\ DOMAIN s = 1..Len(s)
      /\ s \in [1..Len(s) -> S]
  BY LenProperties
<1>2. s \in [1..Len(s) -> W]
  BY <1>1 DEF Contains
<1>3. \A a, b \in 1..Len(s) : s[a] = s[b] => a = b
  BY <1>1 DEF IsInjective
<1>4. \A x \in W : \E a \in 1..Len(s) : s[a] = x
  BY <1>1 DEF Contains
<1>5. ExistsBijection(1..Len(s), W)
  BY <1>1, <1>2, <1>3, <1>4 DEF ExistsBijection, Bijection, Injection, Surjection, IsInjective
<1> QED
  BY <1>1, <1>5, FS_CountingElements

LEMMA ThreeCount ==
  ASSUME NEW A \in SUBSET Threads, NEW B \in SUBSET Threads, NEW C \in SUBSET Threads,
         A \cap B = {}, A \cap C = {}, B \cap C = {}
  PROVE  Cardinality(A \cup B \cup C) = Cardinality(A) + Cardinality(B) + Cardinality(C)
<1>1. IsFiniteSet(A) /\ IsFiniteSet(B) /\ IsFiniteSet(C) /\ IsFiniteSet(A \cup B)
  BY FS_Subset, TextConsoleAssumption
<1>2. /\ Cardinality(A) \in Nat /\ Cardinality(B) \in Nat /\ Cardinality(C) \in Nat
      /\ Cardinality({}) = 0
  BY <1>1, FS_CardinalityType, FS_EmptySet
<1> DEFINE D == A \cup B
<1>3. Cardinality(D) = Cardinality(A) + Cardinality(B)
  <2>1. Cardinality(D) = Cardinality(A) + Cardinality(B) - Cardinality(A \cap B)
    BY <1>1, FS_Union
  <2>2. Cardinality(A \cap B) = 0
    BY <1>2
  <2> HIDE DEF D
  <2> QED
    BY <1>2, <2>1, <2>2
<1>4. Cardinality(D \cup C) = Cardinality(D) + Cardinality(C)
  <2>1. Cardinality(D \cup C) = Cardinality(D) + Cardinality(C) - Cardinality(D \cap C)
    BY <1>1, FS_Union
  <2>2. D \cap C = {}
    OBVIOUS
  <2>3. Cardinality(D \cap C) = 0
    BY <1>2, <2>2
  <2> HIDE DEF D
  <2> QED
    BY <1>2, <1>3, <2>1, <2>3
<1> QED
  BY <1>3, <1>4

\* The counter of every semaphore of every screen stands for its one holder at
\* most, for the sleepers and for the interrupted threads that have not corrected
\* it: no call, interrupted between the two semaphores of its screen or not, and
\* no change of screen makes up or loses a place for good (line 413).  Without
\* interrupts who sleeps has a holder to wait for.
THEOREM PermitsCorrect == Spec => []PermitsMatchHolders
<1>1. ASSUME Inv, NEW m \in Semaphores
      PROVE  /\ Cardinality(Holders(m)) <= 1
             /\ sems[m].count = 1 - (Cardinality(Holders(m)) + Len(sems[m].waiters)
                                       + Cardinality(Late(m)))
             /\ ~interrupts /\ sems[m].waiters # <<>> => Holders(m) # {}
  <2> DEFINE W == {t \in Threads : Contains(sems[m].waiters, t)}
  <2>1. /\ Holders(m) = {t \in Threads : Owns(t, m)}
        /\ Late(m) = {t \in Threads : Repairs(t, m)}
    BY <1>1, OwnersHold, LateRepairs
  <2>2. \A t \in W : Wants(t, m) /\ ~Owns(t, m) /\ ~Repairs(t, m)
    <3> TAKE t \in W
    <3>1. t \in Threads /\ Wants(t, m)
      BY <1>1 DEF Inv, LockInv, Waits
    <3> QED
      BY <1>1, <3>1, WantsOne DEF Inv, Repairs, Waiting
  <2>3. \A t \in Threads : Repairs(t, m) => ~Owns(t, m)
    <3> SUFFICES ASSUME NEW t \in Threads, Repairs(t, m)
                 PROVE  ~Owns(t, m)
      OBVIOUS
    <3>1. t \in Clients /\ t \notin Switchers
      BY <1>1, TextConsoleAssumption
         DEF Inv, Places, Repairs, Threads, SwitcherLabels, Syncing
    <3> QED
      BY <3>1, Names DEF Owns, Repairs, ScreenHeld, BufferHeld, ClientLabels, Syncing
  <2>4. Inside(m) = Holders(m) \cup W \cup Late(m)
    BY <2>1 DEF Inside, In, Waits
  <2>5. Cardinality(Inside(m)) = Cardinality(Holders(m)) + Cardinality(W) + Cardinality(Late(m))
    <3>1. /\ Holders(m) \cap W = {} /\ Holders(m) \cap Late(m) = {}
          /\ W \cap Late(m) = {}
          /\ Holders(m) \in SUBSET Threads /\ W \in SUBSET Threads
          /\ Late(m) \in SUBSET Threads
      BY <2>1, <2>2, <2>3
    <3> QED
      BY <2>4, <3>1, ThreeCount
  <2>6. Cardinality(W) = Len(sems[m].waiters)
    BY <1>1, QueueCount DEF Inv, Places, LockInv
  <2>7. sems[m].count = 1 - Cardinality(Inside(m))
    BY <1>1 DEF Inv, LockInv, CountRight
  <2>8. Cardinality(Holders(m)) <= 1
    <3>1. CASE Holders(m) = {}
      BY <3>1, FS_EmptySet
    <3>2. CASE Holders(m) # {}
      <4>1. PICK t \in Threads : Owns(t, m)
        BY <2>1, <3>2
      <4>2. Holders(m) = {t}
        BY <1>1, <2>1, <4>1 DEF Inv, LockInv
      <4>3. Cardinality({t}) = 1
        BY FS_Singleton
      <4> QED
        BY <4>2, <4>3
    <3> QED
      BY <3>1, <3>2
  <2>9. ~interrupts /\ sems[m].waiters # <<>> => Holders(m) # {}
    BY <1>1, <2>1 DEF Inv, LockInv, Served
  <2> QED
    BY <2>5, <2>6, <2>7, <2>8, <2>9
<1>2. Inv => PermitsMatchHolders
  BY <1>1 DEF PermitsMatchHolders
<1> QED
  BY <1>2, Invariance, PTL

-----------------------------------------------------------------------------
(* With one thread that changes the screen, as scr_set_screen supports     *)
(* (lines 239-240).                                                        *)

OneSwitcher == \A t, u \in Switchers : t = u

\* A switcher that waits for a semaphore is the first in the queue: a client that
\* waits there first would have both semaphores of its screen to wait for, and the
\* client it waits for has the other one.
LEMMA FirstInQueue ==
  ASSUME OneSwitcher, Inv, NEW m \in Semaphores, NEW t \in Switchers, Waits(t, m)
  PROVE  m[2] = "cons_buffer_lock" /\ Head(sems[m].waiters) = t
<1>1. t \in Threads
  BY DEF Threads
<1>2. Wants(t, m) /\ ~Owns(t, m)
  BY <1>1, WantsOne DEF Inv, LockInv
<1>3. m[2] = "cons_buffer_lock"
  <2>1. pc[t] \in SwitcherLabels
    BY DEF Inv, Places
  <2> QED
    BY <1>2, <2>1 DEF Wants, SwitcherLabels, Syncing, cons_buffer_lock
<1>4. sems[m].waiters # <<>>
  BY DEF Waits, Contains
<1>5. PICK u \in Switchers : Owns(u, m) \/ u = Head(sems[m].waiters)
  BY <1>3, <1>4 DEF Inv, LockInv, SwitcherNext
<1> QED
  BY <1>2, <1>3, <1>5 DEF OneSwitcher

\* A change of screen never waits for the queue of a screen: in whichever of its
\* two semaphores it sleeps, it is the next in the queue, whoever came before it
\* and was interrupted (the comment at lines 233-235).
THEOREM SwitchCorrect ==
  ASSUME OneSwitcher
  PROVE  Spec => []SwitchWaitsForOnePrint
<1>1. Inv => SwitchWaitsForOnePrint
  BY FirstInQueue DEF SwitchWaitsForOnePrint
<1> QED
  BY <1>1, Invariance, PTL

\* Where a thread goes with a signal.
AfterSignal(label) ==
  CASE label = "unlock_buffer" -> "unlock_cons"
    [] label = "signal_old"    -> "signal_new"
    [] OTHER                   -> "idle"

LEMMA SignalsWhere ==
  ASSUME Places, LockInv, NEW t \in Threads,
         \/ GiveUp(t) \/ UnlockBuffer(t) \/ UnlockScreen(t)
         \/ SignalOld(t) \/ SignalNew(t)
  PROVE  /\ \/ t \in Clients /\ pc[t] \in {"give_up", "unlock_buffer", "unlock_cons"}
            \/ t \in Switchers /\ pc[t] \in {"signal_old", "signal_new"}
         /\ pc'[t] = AfterSignal(pc[t])
         /\ \A u \in Threads \ {t} : Advances(u)
<1>1. /\ t \in Clients => pc[t] \in ClientLabels /\ Home[t] \in Ids
      /\ t \in Switchers => /\ pc[t] \in SwitcherLabels
                            /\ pc[t] # "idle" => call[t][2] \in Ids
                            /\ pc[t] = "signal_old" => old[t] \in Ids
  BY TextConsoleAssumption DEF Places
<1>2. \/ t \in Clients /\ pc[t] \in {"give_up", "unlock_buffer", "unlock_cons"}
      \/ t \in Switchers /\ pc[t] \in {"signal_old", "signal_new"}
  BY <1>1 DEF GiveUp, UnlockBuffer, UnlockScreen, SignalOld, SignalNew, Threads,
              ClientLabels, SwitcherLabels, Syncing
<1>3. PICK m \in Semaphores : sem_signal(t, m, AfterSignal(pc[t]))
  <2>1. CASE GiveUp(t) \/ UnlockScreen(t)
    BY <1>1, <1>2, <2>1, Names DEF GiveUp, UnlockScreen, AfterSignal
  <2>2. CASE UnlockBuffer(t)
    BY <1>1, <1>2, <2>2, Names DEF UnlockBuffer, AfterSignal
  <2>3. CASE SignalOld(t)
    BY <1>1, <1>2, <2>3, Names DEF SignalOld, AfterSignal
  <2>4. CASE SignalNew(t)
    BY <1>1, <1>2, <2>4, Names DEF SignalNew, AfterSignal
  <2> QED
    BY <2>1, <2>2, <2>3, <2>4
<1>4. \A u \in Threads \ {t} : call'[u] = call[u] /\ old'[u] = old[u]
  BY DEF GiveUp, UnlockBuffer, UnlockScreen, SignalOld, SignalNew, threads, Places
<1>5. pc[t] \notin Waiting
  BY <1>2 DEF Waiting
<1> QED
  BY <1>2, <1>3, <1>4, <1>5, SignalMoves

\* The others go on where they are, or get what they waited for.
LEMMA OthersAdvance ==
  ASSUME Inv, NEW t \in Threads, BeginsCall(t) \/ Step(t) \/ Interrupt(t)
  PROVE  \A u \in Threads \ {t} :
           Advances(u) /\ buf'[u] = buf[u] /\ local'[u] = local[u]
<1> USE DEF Inv
<1>1. ASSUME \E op, to : Begin(t, op, to), DOMAIN old' = Threads,
             \A u \in Threads \ {t} : old'[u] = old[u]
      PROVE  \A u \in Threads \ {t} : Advances(u)
  BY <1>1 DEF Begin, Goto, Places, Advances
<1>2. ASSUME \E from, to : Goto(t, from, to), call' = call, old' = old
      PROVE  \A u \in Threads \ {t} : Advances(u)
  BY <1>2 DEF Goto, Places, Advances
<1>3. CASE BeginsCall(t)
  <2>1. \E op, to : Begin(t, op, to)
    BY <1>3 DEF BeginsCall, Call, RefuseColor, scr_get_screen, SwitchNothing,
                SwitchBegin
  <2>2. DOMAIN old' = Threads /\ \A u \in Threads \ {t} : old'[u] = old[u]
    BY <1>3 DEF BeginsCall, Call, RefuseColor, scr_get_screen, SwitchNothing,
                SwitchBegin, Places
  <2>3. UNCHANGED <<buf, local>>
    BY <1>3 DEF BeginsCall, Call, RefuseColor, scr_get_screen, SwitchNothing,
                SwitchBegin
  <2> QED
    BY <1>1, <2>1, <2>2, <2>3
<1>4. CASE LockScreen(t) \/ LockBuffer(t) \/ LockNew(t) \/ LockOld(t)
  <2>1. /\ pc[t] \in Waiting /\ UNCHANGED <<call, old, buf, local>>
        /\ \E m : sem_wait(t, m)
    BY <1>4 DEF LockScreen, LockBuffer, LockNew, LockOld, threads, Waiting
  <2> QED
    BY <2>1, WaitMoves
<1>5. CASE \/ GiveUp(t) \/ UnlockBuffer(t) \/ UnlockScreen(t)
           \/ SignalOld(t) \/ SignalNew(t)
  <2>1. \A u \in Threads \ {t} : buf'[u] = buf[u] /\ local'[u] = local[u]
    BY <1>5 DEF GiveUp, UnlockBuffer, UnlockScreen, SignalOld, SignalNew, threads,
                Registers
  <2> QED
    BY <1>5, <2>1, SignalsWhere
<1>6. CASE PickBuffer(t)
  <2>1. /\ Goto(t, "pick", "do") /\ call' = call /\ old' = old /\ local' = local
        /\ \A u \in Threads \ {t} : buf'[u] = buf[u]
    BY <1>6 DEF PickBuffer, Registers
  <2> QED
    BY <1>2, <2>1
<1>7. CASE Prints(t)
  <2>1. PICK s, to : PrintsOn(t, s, to)
    BY <1>7, PrintsIn
  <2>2. /\ Goto(t, "do", to) /\ UNCHANGED <<call, old, buf>>
        /\ \A u \in Threads \ {t} : local'[u] = local[u]
    BY <2>1 DEF PrintsOn, Registers
  <2> QED
    BY <1>2, <2>2
<1>8. CASE SelectLsb(t) \/ WriteLsb(t) \/ SelectMsb(t) \/ WriteMsb(t)
  <2>1. /\ \E from, to : Goto(t, from, to)
        /\ UNCHANGED <<call, old, buf>>
    BY <1>8 DEF SelectLsb, WriteLsb, SelectMsb, WriteMsb, threads
  <2>2. \A u \in Threads \ {t} : local'[u] = local[u]
    BY <1>8 DEF SelectLsb, WriteLsb, SelectMsb, WriteMsb, threads, Registers
  <2> QED
    BY <1>2, <2>1, <2>2
<1>9. CASE save_screen(t) \/ load_screen(t) \/ SetIndex(t)
  <2>1. /\ \E from, to : Goto(t, from, to)
        /\ UNCHANGED <<call, old, buf, local>>
    BY <1>9 DEF save_screen, load_screen, SetIndex, threads
  <2> QED
    BY <1>2, <2>1
<1>10. CASE Interrupt(t) \/ WaitFails(t)
  <2>1. /\ \E to : pc' = [pc EXCEPT ![t] = to]
        /\ UNCHANGED <<old, buf, local>>
        /\ \A u \in Threads \ {t} : call'[u] = call[u]
    BY <1>10 DEF Interrupt, WaitFails, Goto, threads, Places
  <2> QED
    BY <2>1 DEF Advances, Places
<1> QED
  BY <1>3, <1>4, <1>5, <1>6, <1>7, <1>8, <1>9, <1>10 DEF Step, Prints

LEMMA AdvancesFront ==
  ASSUME NEW u, FrontOf(u), Advances(u), buf'[u] = buf[u], screen_idx' = screen_idx
  PROVE  FrontOf(u)'
<1>1. CASE pc'[u] = pc[u]
  BY <1>1 DEF Advances, FrontOf, InBuffer, scr_is_console
<1>2. CASE pc[u] \in Waiting /\ pc'[u] = Granted(pc[u])
  <2>1. /\ pc[u] \notin {"idle", "signal_old", "signal_new"}
        /\ pc'[u] \notin {"idle", "signal_old", "signal_new"}
        /\ ~InBuffer(u)'
    BY <1>2 DEF Waiting, Granted, InBuffer
  <2> QED
    BY <2>1 DEF Advances, FrontOf
<1> QED
  BY <1>1, <1>2 DEF Advances

\* The thread that moves.
LEMMA MoverFront ==
  ASSUME Inv, NEW t \in Threads, FrontOf(t), screen_idx' = screen_idx,
         BeginsCall(t) \/ Step(t) \/ Interrupt(t)
  PROVE  FrontOf(t)'
<1> USE DEF FrontOf, InBuffer, scr_is_console
<1>0. /\ pc \in [Threads -> Labels]
      /\ DOMAIN old = Threads
      /\ buf \in [Threads -> {"console", "screen", NULL}]
      /\ t \in Clients => pc[t] \in ClientLabels /\ t \notin Switchers
      /\ t \in Switchers => pc[t] \in SwitcherLabels
  BY TextConsoleAssumption DEF Inv, Places, Registers
<1>1. CASE BeginsCall(t)
  <2>1. CASE SwitchBegin(t)
    BY <1>0, <2>1 DEF SwitchBegin, Begin, Goto
  <2>2. CASE Call(t)
    <3>1. t \in Clients /\ pc'[t] = "cons_lock"
      BY <1>0, <2>2, MenuOf DEF Inv, Call, Begin, Goto, Threads
    <3> QED
      BY <1>0, <3>1
  <2>3. CASE RefuseColor(t) \/ scr_get_screen(t) \/ SwitchNothing(t)
    <3>1. pc'[t] = "idle"
      BY <1>0, <2>3 DEF RefuseColor, scr_get_screen, SwitchNothing, Begin, Goto
    <3> QED
      BY <3>1
  <2> QED
    BY <1>1, <2>1, <2>2, <2>3 DEF BeginsCall
<1>2. CASE LockScreen(t) \/ LockBuffer(t) \/ LockNew(t) \/ LockOld(t)
  <2>1. /\ pc[t] \in Waiting /\ UNCHANGED <<call, old, buf>>
        /\ \E m : sem_wait(t, m)
    BY <1>2 DEF LockScreen, LockBuffer, LockNew, LockOld, threads, Waiting
  <2>2. Advances(t)
    BY <2>1, WaitMoves DEF Inv
  <2> QED
    BY <2>1, <2>2, AdvancesFront
<1>3. CASE GiveUp(t) \/ UnlockBuffer(t) \/ UnlockScreen(t)
  <2>1. t \in Clients /\ pc'[t] \in {"idle", "unlock_cons"}
    BY <1>3, SignalsWhere
       DEF Inv, AfterSignal, GiveUp, UnlockBuffer, UnlockScreen
  <2> QED
    BY <1>0, <2>1
<1>4. CASE SignalOld(t) \/ SignalNew(t)
  <2>1. /\ pc[t] \in {"signal_old", "signal_new"}
        /\ t \in Switchers /\ t \notin Clients
        /\ pc'[t] = IF pc[t] = "signal_old" THEN "signal_new" ELSE "idle"
    BY <1>0, <1>4, SignalsWhere DEF Inv, AfterSignal, SignalOld, SignalNew
  <2>2. pc[t] = "signal_old" => call'[t] = call[t]
    BY <1>4 DEF SignalOld, SignalNew
  <2> QED
    BY <2>1, <2>2
<1>5. CASE PickBuffer(t)
  BY <1>0, <1>5 DEF PickBuffer, Goto, Inv, Places, SwitcherLabels, Syncing, Threads
<1>6. CASE Prints(t)
  <2>1. t \in Clients /\ pc[t] = "do" /\ \E s, to : PrintsOn(t, s, to)
    BY <1>6, PrintsIn DEF Inv
  <2>2. UNCHANGED buf
    BY <2>1 DEF PrintsOn
  <2> QED
    BY <1>0, <2>1, <2>2
<1>7. CASE SelectLsb(t) \/ WriteLsb(t) \/ SelectMsb(t) \/ WriteMsb(t)
  <2>1. /\ UNCHANGED <<call, old, buf>>
        /\ pc[t] \in Syncing
        /\ pc'[t] \in Syncing \cup {"set_idx", "unlock_buffer"}
        /\ t \in Clients => pc'[t] # "set_idx"
    BY <1>0, <1>7
       DEF SelectLsb, WriteLsb, SelectMsb, WriteMsb, threads, Goto, Syncing
  <2> QED
    BY <1>0, <2>1 DEF Syncing
<1>8. CASE save_screen(t) \/ load_screen(t)
  <2>1. /\ UNCHANGED <<call, old, buf>>
        /\ pc[t] \in {"save", "load"} /\ pc'[t] \in {"load", "lsb_index"}
    BY <1>0, <1>8 DEF save_screen, load_screen, threads, Goto
  <2>2. t \in Switchers /\ t \notin Clients
    BY <1>0, <2>1 DEF Threads, ClientLabels, Syncing
  <2> QED
    BY <2>1, <2>2
<1>9. CASE SetIndex(t)
  <2>1. pc[t] = "set_idx" /\ screen_idx' = call[t][2]
    BY <1>9 DEF SetIndex, Goto
  <2>2. t \in Switchers
    BY <1>0, <2>1 DEF Threads, ClientLabels, Syncing
  <2>3. FALSE
    BY <2>1, <2>2 DEF Inv, Places
  <2> QED
    BY <2>3
<1>10. CASE Interrupt(t) \/ WaitFails(t)
  <2>1. t \in Clients /\ pc'[t] \in Interrupted \cup {"idle", "give_up"}
    BY <1>0, <1>10, InterruptIs, FailsIs DEF Inv, Interrupted
  <2> QED
    BY <1>0, <2>1 DEF Interrupted
<1> QED
  BY <1>1, <1>2, <1>3, <1>4, <1>5, <1>6, <1>7, <1>8, <1>9, <1>10 DEF Step, Prints

LEMMA ForegroundStep ==
  ASSUME OneSwitcher, Inv, Foreground, [Next]_vars
  PROVE  Foreground'
<1>1. CASE UNCHANGED vars
  BY <1>1 DEF vars, memory, threads, Foreground, FrontOf, InBuffer, scr_is_console
<1>2. ASSUME NEW t \in Threads, BeginsCall(t) \/ Step(t) \/ Interrupt(t),
             screen_idx' = screen_idx
      PROVE  Foreground'
  BY <1>2, OthersAdvance, AdvancesFront, MoverFront DEF Foreground
<1>3. ASSUME NEW t \in Threads, SetIndex(t)
      PROVE  Foreground'
  <2>1. /\ pc[t] = "set_idx" /\ screen_idx' = call[t][2]
        /\ UNCHANGED <<call, buf>>
        /\ pc' = [pc EXCEPT ![t] = "signal_old"]
    BY <1>3 DEF SetIndex, Goto, threads
  <2>2. t \in Switchers /\ t \notin Clients
    BY <2>1, TextConsoleAssumption DEF Threads, Inv, Places, ClientLabels, Syncing
  <2>3. /\ call[t][2] \in Ids /\ old[t] = screen_idx /\ screen_idx \in Ids
    BY <2>1, <2>2 DEF Inv, Places, Foreground, FrontOf, Contents
  <2>4. /\ Owns(t, cons_buffer_lock(call[t][2]))
        /\ Owns(t, cons_buffer_lock(screen_idx))
    BY <2>1, <2>2, <2>3 DEF Owns, NewHeld, OldHeld, SwitcherLabels
  <2>5. ASSUME NEW u \in Clients, InBuffer(u)'
        PROVE  ~scr_is_console(u)' /\ Home[u] # call[t][2]
    <3>1. u \in Threads /\ u # t /\ Home[u] \in Ids
      BY <2>2, TextConsoleAssumption DEF Threads
    <3>2. InBuffer(u) /\ (scr_is_console(u)' <=> scr_is_console(u))
      BY <2>1, <2>5, <3>1 DEF InBuffer, scr_is_console, Inv, Places
    <3>3. Owns(u, cons_buffer_lock(Home[u]))
      BY <3>2 DEF InBuffer, Owns, BufferHeld, Syncing
    <3>4. Home[u] \notin {call[t][2], screen_idx}
      BY <2>3, <2>4, <3>1, <3>3, Names DEF Inv, LockInv
    <3> QED
      BY <3>1, <3>2, <3>4 DEF Foreground, FrontOf
  <2>6. ASSUME NEW u \in Threads
        PROVE  FrontOf(u)'
    <3>1. u \in Switchers => u = t
      BY <2>2 DEF OneSwitcher
    <3>2. pc'[t] = "signal_old" /\ call'[t][2] = screen_idx'
      BY <2>1 DEF Inv, Places
    <3> QED
      BY <2>1, <2>2, <2>5, <3>1, <3>2 DEF FrontOf
  <2> QED
    BY <2>6 DEF Foreground
<1>4. ASSUME NEW t \in Threads, BeginsCall(t) \/ Step(t) \/ Interrupt(t), ~SetIndex(t)
      PROVE  screen_idx' = screen_idx
  <2>1. CASE Prints(t)
    <3>1. PICK s, to : PrintsOn(t, s, to)
      BY <2>1, PrintsIn DEF Inv
    <3> QED
      BY <3>1 DEF PrintsOn, Write
  <2>2. CASE \/ SelectLsb(t) \/ WriteLsb(t) \/ SelectMsb(t) \/ WriteMsb(t)
             \/ save_screen(t) \/ load_screen(t)
    BY <2>2 DEF SelectLsb, WriteLsb, SelectMsb, WriteMsb, save_screen, load_screen,
                memory
  <2> QED
    BY <1>4, <2>1, <2>2, ControlContents DEF Step, Prints, memory, Inv
<1>5. CASE Next
  <2>1. PICK t \in Threads : BeginsCall(t) \/ Step(t) \/ Interrupt(t)
    BY <1>5 DEF Next, BeginsCall
  <2> QED
    BY <1>2, <1>3, <1>4, <2>1
<1> QED
  BY <1>1, <1>5

LEMMA ForegroundInit == Init => Inv /\ Foreground
<1>1. Init => Inv
  BY LocksInit, ContentsInit DEF Inv
<1>2. Init => Foreground
  BY DEF Init, Foreground, FrontOf, InBuffer
<1> QED
  BY <1>1, <1>2

LEMMA ForegroundInvariance ==
  ASSUME OneSwitcher
  PROVE  Spec => [](Inv /\ Foreground)
<1>1. Init => Inv /\ Foreground
  BY ForegroundInit
<1>2. Inv /\ Foreground /\ [Next]_vars => (Inv /\ Foreground)'
  BY LocksStep, ContentsStep, ForegroundStep DEF Inv
<1> QED
  BY <1>1, <1>2, PTL DEF Spec

\* Who is in the console has the second semaphore of the screen in the foreground.
LEMMA UserOwns ==
  ASSUME Inv, Foreground, NEW t \in Threads, UsesConsole(t)
  PROVE  /\ Owns(t, cons_buffer_lock(screen_idx))
         /\ cons_buffer_lock(screen_idx) \in Semaphores
<1>1. cons_buffer_lock(screen_idx) \in Semaphores
  BY Names DEF Inv, Contents
<1>2. CASE t \in Clients
  <2>1. pc[t] \in ClientLabels /\ t \notin Switchers
    BY <1>2, TextConsoleAssumption DEF Inv, Places
  <2>2. InBuffer(t) /\ scr_is_console(t)
    BY <2>1 DEF UsesConsole, InSwitch, ClientLabels, Syncing
  <2>3. Home[t] = screen_idx
    BY <1>2, <2>2 DEF Foreground, FrontOf
  <2> QED
    BY <1>1, <1>2, <2>2, <2>3 DEF Owns, InBuffer, BufferHeld, Syncing
<1>3. CASE t \in Switchers
  <2>1. pc[t] \in SwitcherLabels
    BY <1>3 DEF Inv, Places
  <2>2. pc[t] \in OldHeld \ {"signal_old"}
    BY <2>1 DEF UsesConsole, InSwitch, InBuffer, OldHeld, SwitcherLabels, Syncing
  <2>3. old[t] = screen_idx
    BY <1>3, <2>2 DEF Foreground, FrontOf, OldHeld, Syncing
  <2> QED
    BY <1>1, <1>3, <2>2, <2>3 DEF Owns
<1> QED
  BY <1>2, <1>3 DEF Threads

\* The video memory and the registers of the cursor have one user at a time,
\* a client whose screen is in the foreground or the thread that changes it, by
\* the semaphores of the screens alone (lines 236-242 and 417-420).
THEOREM ExclusionCorrect ==
  ASSUME OneSwitcher
  PROVE  Spec => []ConsoleExclusive
<1>1. Inv /\ Foreground => ConsoleExclusive
  BY UserOwns DEF ConsoleExclusive, Inv, LockInv
<1> QED
  BY <1>1, ForegroundInvariance, PTL

-----------------------------------------------------------------------------
(* The hardware cursor.                                                    *)

\* Both bytes of the index, put together again.
LEMMA TwoDigits ==
  ASSUME NEW n \in Nat
  PROVE  (n % Radix) + Radix * ((n \div Radix) % Radix) = n % (Radix * Radix)
<1>1. Radix \in Nat \ {0}
  BY TextConsoleAssumption
<1> QED
  BY <1>1

LEMMA SameIndex ==
  ASSUME NEW s, NEW r, SameCursor(s, r)
  PROVE  CursorIndex(r) = CursorIndex(s)
BY DEF SameCursor, CursorIndex

\* While a thread is in the console no other one is about to sync the cursor.
LEMMA NoOtherSyncs ==
  ASSUME Inv, Foreground, Cursor, NEW t \in Threads, UsesConsole(t),
         NEW u \in Threads \ {t}
  PROVE  pc[u] \notin Syncing /\ ~Unsynced(u)
<1>1. ~UsesConsole(u)
  BY UserOwns DEF Inv, LockInv
<1> QED
  BY <1>1 DEF Cursor, SyncOf, Unsynced, UsesConsole, InBuffer, Syncing

\* A thread that stays, or gets what it waited for, keeps its part.
LEMMA AdvancesSync ==
  ASSUME Registers, NEW u \in Threads, SyncOf(u), Advances(u),
         buf'[u] = buf[u], local'[u] = local[u],
         \/ UNCHANGED crtc /\ CursorIndex(console)' = CursorIndex(console)
         \/ pc[u] \notin Syncing
  PROVE  /\ SyncOf(u)'
         /\ Unsynced(u)' <=> Unsynced(u)
<1>1. CASE pc'[u] = pc[u]
  BY <1>1 DEF Advances, SyncOf, Unsynced, scr_is_console, Syncing
<1>2. CASE pc[u] \in Waiting /\ pc'[u] = Granted(pc[u])
  <2>1. /\ pc[u] \notin Syncing \cup {"do"}
        /\ pc'[u] \notin Syncing \cup {"do"}
    BY <1>2 DEF Waiting, Granted, Syncing
  <2> QED
    BY <2>1 DEF SyncOf, Unsynced, Syncing
<1> QED
  BY <1>1, <1>2 DEF Advances

\* The steps that touch neither the cursor of the console nor its registers.
LEMMA QuietSync ==
  ASSUME Inv, Foreground, Cursor, NEW t \in Threads,
         BeginsCall(t) \/ Step(t) \/ Interrupt(t),
         UNCHANGED crtc, CursorIndex(console)' = CursorIndex(console),
         SyncOf(t)', Unsynced(t) => Unsynced(t)'
  PROVE  Cursor'
<1>1. ASSUME NEW u \in Threads
      PROVE  SyncOf(u)' /\ (Unsynced(u) => Unsynced(u)')
  BY OthersAdvance, AdvancesSync DEF Cursor, Inv
<1>2. Shown => Shown'
  BY DEF Shown
<1> QED
  BY <1>1, <1>2 DEF Cursor

\* The steps in the console.
LEMMA ConsoleSync ==
  ASSUME Inv, Foreground, Cursor, NEW t \in Threads,
         BeginsCall(t) \/ Step(t) \/ Interrupt(t),
         UsesConsole(t), SyncOf(t)', Unsynced(t)' \/ Shown'
  PROVE  Cursor'
<1>1. ASSUME NEW u \in Threads \ {t}
      PROVE  SyncOf(u)'
  BY OthersAdvance, NoOtherSyncs, AdvancesSync DEF Cursor, Inv
<1> QED
  BY <1>1 DEF Cursor

\* A step of t in or out of the console's way.
LEMMA IdleSync ==
  ASSUME NEW t \in Threads, SyncOf(t), local'[t] = local[t],
         pc[t] \notin Syncing \cup {"do"}, pc'[t] \notin Syncing
  PROVE  SyncOf(t)' /\ ~Unsynced(t)
BY DEF SyncOf, Unsynced, Syncing

LEMMA CursorStepControl ==
  ASSUME Inv, Foreground, Cursor, NEW t \in Threads,
         \/ BeginsCall(t) \/ Interrupt(t) \/ WaitFails(t) \/ PickBuffer(t)
         \/ LockScreen(t) \/ LockBuffer(t) \/ LockNew(t) \/ LockOld(t)
         \/ GiveUp(t) \/ UnlockBuffer(t) \/ UnlockScreen(t)
         \/ SignalOld(t) \/ SignalNew(t)
         \/ save_screen(t) \/ SetIndex(t)
  PROVE  Cursor'
<1>0. pc \in [Threads -> Labels]
  BY DEF Inv, Places
<1>1. UNCHANGED <<console, crtc, local>>
  <2>1. CASE save_screen(t) \/ SetIndex(t)
    BY <2>1 DEF save_screen, SetIndex, threads
  <2> QED
    BY <2>1, ControlContents DEF memory, Inv
<1>2. pc[t] \notin Syncing \cup {"do"} /\ pc'[t] \notin Syncing
  <2>1. CASE BeginsCall(t)
    BY <1>0, <2>1 DEF BeginsCall, Call, RefuseColor, scr_get_screen, SwitchNothing,
                      SwitchBegin, Begin, Goto, Syncing
  <2>2. CASE Interrupt(t) \/ WaitFails(t)
    BY <1>0, <2>2, InterruptIs, FailsIs DEF Inv, Syncing
  <2>3. CASE LockScreen(t) \/ LockBuffer(t) \/ LockNew(t) \/ LockOld(t)
    <3>1. /\ pc[t] \in Waiting /\ UNCHANGED <<call, old>>
          /\ \E m : sem_wait(t, m)
      BY <2>3 DEF LockScreen, LockBuffer, LockNew, LockOld, threads, Waiting
    <3>2. Advances(t)
      BY <3>1, WaitMoves DEF Inv
    <3> QED
      BY <3>1, <3>2 DEF Advances, Waiting, Granted, Syncing
  <2>4. CASE \/ GiveUp(t) \/ UnlockBuffer(t) \/ UnlockScreen(t)
             \/ SignalOld(t) \/ SignalNew(t)
    BY <2>4, SignalsWhere DEF Inv, AfterSignal, Syncing
  <2>5. CASE PickBuffer(t) \/ save_screen(t) \/ SetIndex(t)
    BY <1>0, <2>5 DEF PickBuffer, save_screen, SetIndex, Goto, Syncing
  <2> QED
    BY <2>1, <2>2, <2>3, <2>4, <2>5
<1>3. SyncOf(t)' /\ ~Unsynced(t)
  BY <1>1, <1>2, IdleSync DEF Cursor
<1>4. CursorIndex(console)' = CursorIndex(console)
  BY <1>1 DEF CursorIndex
<1> QED
  BY <1>1, <1>3, <1>4, QuietSync DEF Step

LEMMA CursorStepPrints ==
  ASSUME Inv, Foreground, Cursor, NEW t \in Threads, Prints(t)
  PROVE  Cursor'
<1>1. t \in Clients /\ pc[t] = "do"
  BY PrintsIn DEF Inv
<1>2. PICK s, to : PrintsOn(t, s, to)
  BY PrintsIn DEF Inv
<1>3. SyncOf(t)
  BY DEF Cursor
<1>4. /\ pc'[t] = to /\ to \in {"do", "lsb_index", "unlock_buffer"}
      /\ UNCHANGED <<crtc, call, buf>>
      /\ \/ to # "do" /\ call[t][1] # "putbytes" /\ local'[t] = local[t]
         \/ to # "do" /\ local'[t] = 0
         \/ to = "do" /\ call[t][1] = "putbytes" /\ local'[t] = local[t] + 1
      /\ local[t] \in Nat
  BY <1>2 DEF PrintsOn, Goto, Inv, Places, Registers
<1>5. SyncOf(t)'
  BY <1>2, <1>3, <1>4, <1>1 DEF PrintsOn, SyncOf, Syncing, scr_is_console
<1>6. CASE ~scr_is_console(t)
  <2>1. console' = console
    BY <1>2, <1>6 DEF PrintsOn, Write
  <2>2. CursorIndex(console)' = CursorIndex(console)
    BY <2>1 DEF CursorIndex
  <2>3. ~Unsynced(t)
    BY <1>1, <1>6 DEF Unsynced, Syncing
  <2> QED
    BY <1>4, <1>5, <2>2, <2>3, QuietSync DEF Step, Prints
<1>7. CASE scr_is_console(t) /\ to = "unlock_buffer"
  <2>1. console' = s /\ SameCursor(console, s)
    BY <1>2, <1>7 DEF PrintsOn, Write
  <2>2. CursorIndex(console)' = CursorIndex(console)
    BY <2>1, SameIndex
  <2>3. call[t][1] # "putbytes"
    BY <1>2, <1>7 DEF PrintsOn
  <2>4. ~Unsynced(t)
    BY <1>1, <1>3, <2>3 DEF Unsynced, SyncOf, Syncing
  <2> QED
    BY <1>4, <1>5, <2>2, <2>4, QuietSync DEF Step, Prints
<1>8. CASE scr_is_console(t) /\ to # "unlock_buffer"
  <2>1. UsesConsole(t)
    BY <1>1, <1>8 DEF UsesConsole, InBuffer
  <2>2. Unsynced(t)'
    <3>1. CASE to = "lsb_index"
      BY <1>4, <3>1 DEF Unsynced, Syncing
    <3>2. CASE to = "do"
      BY <1>1, <1>4, <1>8, <3>2 DEF Unsynced, scr_is_console
    <3> QED
      BY <1>4, <1>8, <3>1, <3>2
  <2> QED
    BY <1>5, <2>1, <2>2, ConsoleSync DEF Step, Prints
<1> QED
  BY <1>6, <1>7, <1>8

LEMMA CursorStepRegisters ==
  ASSUME Inv, Foreground, Cursor, NEW t \in Threads,
         \/ SelectLsb(t) \/ WriteLsb(t) \/ SelectMsb(t) \/ WriteMsb(t)
         \/ load_screen(t)
  PROVE  Cursor'
<1>0. /\ pc \in [Threads -> Labels]
      /\ local \in [Threads -> Nat]
      /\ crtc \in [index : {"lsb", "msb", NULL},
                   lsb : (0..(Radix - 1)) \cup {NULL},
                   msb : (0..(Radix - 1)) \cup {NULL}]
      /\ SyncOf(t)
  BY DEF Inv, Places, Registers, Cursor
<1>1. pc[t] \in Syncing \/ (t \in Switchers /\ pc[t] = "load")
  <2>1. pc[t] \in Syncing \cup {"load"}
    BY DEF SelectLsb, WriteLsb, SelectMsb, WriteMsb, load_screen, Goto, Syncing
  <2> QED
    BY <2>1 DEF Inv, Places, Threads, ClientLabels, Syncing
<1>2. UsesConsole(t)
  BY <1>0, <1>1 DEF SyncOf, UsesConsole, InBuffer, InSwitch, Syncing
<1>3. SyncOf(t)' /\ (Unsynced(t)' \/ Shown')
  <2>1. CASE SelectLsb(t)
    <3>1. /\ pc'[t] = "lsb" /\ pc[t] = "lsb_index" /\ UNCHANGED <<console, buf>>
          /\ local'[t] = CursorIndex(console) /\ crtc'.index = "lsb"
      BY <1>0, <2>1 DEF SelectLsb, Goto, memory
    <3> QED
      BY <1>0, <3>1 DEF SyncOf, Unsynced, Syncing, CursorIndex, scr_is_console
  <2>2. CASE WriteLsb(t)
    <3>1. /\ pc'[t] = "msb_index" /\ pc[t] = "lsb"
          /\ UNCHANGED <<console, buf, local>>
          /\ crtc' = [crtc EXCEPT !.lsb = local[t] % Radix]
      BY <1>0, <2>2 DEF WriteLsb, WriteCrtc, Goto, memory, threads, SyncOf
    <3>2. crtc'.lsb = local[t] % Radix
      BY <1>0, <3>1
    <3> QED
      BY <1>0, <3>1, <3>2 DEF SyncOf, Unsynced, Syncing, CursorIndex, scr_is_console
  <2>3. CASE SelectMsb(t)
    <3>1. /\ pc'[t] = "msb" /\ pc[t] = "msb_index"
          /\ UNCHANGED <<console, buf, local>>
          /\ crtc'.lsb = crtc.lsb /\ crtc'.index = "msb"
      BY <1>0, <2>3 DEF SelectMsb, Goto, memory, threads
    <3> QED
      BY <1>0, <3>1 DEF SyncOf, Unsynced, Syncing, CursorIndex, scr_is_console
  <2>4. CASE WriteMsb(t)
    <3>1. /\ pc'[t] \in {"set_idx", "unlock_buffer"} /\ pc[t] = "msb"
          /\ console' = console
          /\ local'[t] = 0
          /\ crtc' = [crtc EXCEPT !.msb = (local[t] \div Radix) % Radix]
      BY <1>0, <2>4 DEF WriteMsb, WriteCrtc, Goto, memory, SyncOf
    <3>2. /\ crtc'.lsb = local[t] % Radix
          /\ crtc'.msb = (local[t] \div Radix) % Radix
          /\ local[t] = CursorIndex(console)
      BY <1>0, <3>1 DEF SyncOf, Syncing
    <3>3. crtc'.lsb + Radix * crtc'.msb = local[t] % (Radix * Radix)
      BY <1>0, <3>2, TwoDigits
    <3>4. CursorIndex(console)' = CursorIndex(console)
      BY <3>1 DEF CursorIndex
    <3>5. Shown'
      BY <3>2, <3>3, <3>4 DEF Shown
    <3>6. SyncOf(t)'
      BY <3>1 DEF SyncOf, Syncing
    <3> QED
      BY <3>5, <3>6
  <2>5. CASE load_screen(t)
    <3>1. /\ pc'[t] = "lsb_index" /\ pc[t] = "load" /\ t \in Switchers
          /\ local' = local
      BY <1>0, <1>1, <2>5 DEF load_screen, Goto, threads, Syncing
    <3> QED
      BY <1>0, <3>1 DEF SyncOf, Unsynced, Syncing
  <2> QED
    BY <2>1, <2>2, <2>3, <2>4, <2>5
<1> QED
  BY <1>2, <1>3, ConsoleSync DEF Step

LEMMA CursorStep ==
  ASSUME Inv, Foreground, Cursor, [Next]_vars
  PROVE  Cursor'
<1>1. CASE UNCHANGED vars
  BY <1>1 DEF vars, memory, threads, Cursor, SyncOf, Unsynced, Shown, CursorIndex,
              scr_is_console
<1>2. CASE Next
  <2>1. PICK t \in Threads : BeginsCall(t) \/ Step(t) \/ Interrupt(t)
    BY <1>2 DEF Next, BeginsCall
  <2> QED
    BY <2>1, CursorStepControl, CursorStepPrints, CursorStepRegisters DEF Step, Prints
<1> QED
  BY <1>1, <1>2

LEMMA CursorInit == Init => Inv /\ Foreground /\ Cursor
<1>1. Init => Cursor
  BY DEF Init, Cursor, SyncOf, Shown, Syncing
<1> QED
  BY <1>1, ForegroundInit

\* While nobody has the screen in the foreground, the hardware shows its cursor:
\* however the calls and the changes of screen interleave, both bytes belong to
\* one index, and it is the index of the cursor as it is (cursor_sync, lines
\* 97-126).
THEOREM HardwareCursorCorrect ==
  ASSUME OneSwitcher
  PROVE  Spec => []HardwareCursor
<1> DEFINE I == Inv /\ Foreground /\ Cursor
<1>1. Init => I
  BY CursorInit
<1>2. I /\ [Next]_vars => I'
  BY LocksStep, ContentsStep, ForegroundStep, CursorStep DEF Inv
<1>3. I => HardwareCursor
  <2> SUFFICES ASSUME Inv, Foreground, Cursor,
                      Holders(cons_buffer_lock(screen_idx)) = {}
               PROVE  Shown
    BY DEF HardwareCursor, Shown
  <2>1. ASSUME NEW t \in Threads, Unsynced(t)
        PROVE  FALSE
    <3>1. UsesConsole(t)
      BY <2>1 DEF Cursor, SyncOf, Unsynced, UsesConsole, InBuffer, Syncing
    <3>2. cons_buffer_lock(screen_idx) \in Semaphores
      BY Names DEF Inv, Contents
    <3> QED
      BY <2>1, <3>1, <3>2, UserOwns, OwnersHold
  <2> QED
    BY <2>1 DEF Cursor
<1> HIDE DEF I
<1> QED
  BY <1>1, <1>2, <1>3, PTL DEF Spec

-----------------------------------------------------------------------------
(* Each screen is a console of its own.                                    *)

\* A client makes the calls of its menu, and stops a putbytes where its string
\* ends.
Offers(t) ==
  /\ pc[t] # "idle" => call[t] \in menu[t]
  /\ pc[t] = "do" => \/ local[t] = 0
                     \/ call[t][1] = "putbytes" /\ local[t] < Len(call[t][2])

\* The console has what the next screen had, until it is that screen.
Loaded(t) == pc[t] \in Syncing \cup {"set_idx"} => console = screens[call[t][2]]

Separate ==
  /\ \A t \in Clients : Offers(t)
  /\ \A t \in Switchers : Loaded(t)

\* The strings of putbytes end.
LEMMA StringOf ==
  ASSUME Inv, NEW t \in Clients, Offers(t), pc[t] = "do", call[t][1] = "putbytes"
  PROVE  /\ call[t] \in Offered
         /\ call[t][2] \in Seq(Range(call[t][2]))
         /\ Len(call[t][2]) \in Nat
         /\ DOMAIN call[t][2] = 1..Len(call[t][2])
         /\ \A i \in 1..Len(call[t][2]) : call[t][2][i] \in Range(call[t][2])
<1>1. call[t] \in menu[t] /\ menu \in Menus
  BY DEF Offers, Inv, Places
<1>2. call[t] \in Offered
  BY <1>1 DEF Offered
<1>3. call[t][2] \in Seq(Range(call[t][2]))
  BY <1>1, TextConsoleAssumption
<1>4. /\ Len(call[t][2]) \in Nat
      /\ DOMAIN call[t][2] = 1..Len(call[t][2])
  BY <1>3, LenProperties
<1> QED
  BY <1>2, <1>3, <1>4 DEF Range

LEMMA AdvancesOffers ==
  ASSUME NEW u, Offers(u), Advances(u), local'[u] = local[u], menu' = menu
  PROVE  Offers(u)'
<1>1. CASE pc'[u] = pc[u]
  BY <1>1 DEF Advances, Offers
<1>2. CASE pc[u] \in Waiting /\ pc'[u] = Granted(pc[u])
  BY <1>2 DEF Advances, Offers, Waiting, Granted
<1> QED
  BY <1>1, <1>2 DEF Advances

LEMMA MenuSame == [Next]_vars => menu' = menu
<1> SUFFICES ASSUME Next PROVE menu' = menu
  BY DEF vars
<1>1. PICK t \in Threads : BeginsCall(t) \/ Step(t) \/ Interrupt(t)
  BY DEF Next, BeginsCall
<1>2. CASE BeginsCall(t) \/ Interrupt(t) \/ WaitFails(t)
  BY <1>2 DEF BeginsCall, Call, RefuseColor, scr_get_screen, SwitchNothing, SwitchBegin,
              Interrupt, WaitFails
<1>3. CASE \/ LockScreen(t) \/ LockBuffer(t) \/ PickBuffer(t) \/ GiveUp(t)
           \/ UnlockBuffer(t) \/ UnlockScreen(t) \/ LockNew(t) \/ LockOld(t)
           \/ SignalOld(t) \/ SignalNew(t)
  BY <1>3 DEF LockScreen, LockBuffer, PickBuffer, GiveUp, UnlockBuffer, UnlockScreen,
              LockNew, LockOld, SignalOld, SignalNew
<1>4. CASE \/ SelectLsb(t) \/ WriteLsb(t) \/ SelectMsb(t) \/ WriteMsb(t)
           \/ save_screen(t) \/ load_screen(t) \/ SetIndex(t)
  BY <1>4 DEF SelectLsb, WriteLsb, SelectMsb, WriteMsb, save_screen, load_screen, SetIndex
<1>5. CASE Prints(t)
  BY <1>5 DEF Prints, Does, putbyte, putbytes, draw_char, clear_console,
              cons_set_term_color, get_term_color, set_cursor, get_cursor, hide_cursor,
              show_cursor, get_char
<1> QED
  BY <1>1, <1>2, <1>3, <1>4, <1>5 DEF Step, Prints

LEMMA MoverOffers ==
  ASSUME Inv, Cursor, NEW t \in Clients, Offers(t), menu' = menu,
         BeginsCall(t) \/ Step(t) \/ Interrupt(t)
  PROVE  Offers(t)'
<1>0. /\ t \in Threads /\ t \notin Switchers
      /\ pc \in [Threads -> Labels]
      /\ DOMAIN call = Threads
      /\ local \in [Threads -> Nat]
      /\ pc[t] \in ClientLabels
  BY TextConsoleAssumption DEF Inv, Places, Registers, Threads
<1>1. CASE BeginsCall(t)
  <2>1. PICK op \in menu[t] : \E to : Begin(t, op, to)
    BY <1>1 DEF BeginsCall, Call, RefuseColor, scr_get_screen, SwitchNothing,
                SwitchBegin, Begin
  <2>2. PICK to : Begin(t, op, to)
    BY <2>1
  <2>3. to # "do"
    BY <1>0, <1>1, <2>2 DEF BeginsCall, Call, RefuseColor, scr_get_screen, SwitchNothing,
                      SwitchBegin, Begin, Goto
  <2> QED
    BY <1>0, <2>2, <2>3 DEF Begin, Goto, Offers
<1>2. CASE LockScreen(t) \/ LockBuffer(t) \/ LockNew(t) \/ LockOld(t)
  <2>1. /\ pc[t] \in Waiting /\ UNCHANGED <<call, old, local>>
        /\ \E m : sem_wait(t, m)
    BY <1>2 DEF LockScreen, LockBuffer, LockNew, LockOld, threads, Waiting
  <2>2. Advances(t)
    BY <1>0, <2>1, WaitMoves DEF Inv
  <2> QED
    BY <2>1, <2>2, AdvancesOffers
<1>3. CASE \/ GiveUp(t) \/ UnlockBuffer(t) \/ UnlockScreen(t)
           \/ SignalOld(t) \/ SignalNew(t)
  <2>1. pc'[t] \in {"unlock_cons", "signal_new", "idle"}
    BY <1>0, <1>3, SignalsWhere DEF AfterSignal, Inv
  <2>2. pc'[t] # "idle" => pc[t] # "idle" /\ call' = call
    BY <1>0, <1>3, SignalsWhere
       DEF AfterSignal, Inv, GiveUp, UnlockBuffer, UnlockScreen, SignalOld, SignalNew,
           threads
  <2> QED
    BY <2>1, <2>2 DEF Offers
<1>4. CASE PickBuffer(t)
  <2>1. local[t] = 0 /\ pc[t] # "idle" /\ call' = call /\ local' = local
    BY <1>0, <1>4 DEF PickBuffer, Goto, Cursor, SyncOf, Syncing
  <2> QED
    BY <2>1 DEF Offers
<1>5. CASE Prints(t)
  <2>1. PICK s, to : PrintsOn(t, s, to)
    BY <1>5, PrintsEffect DEF Inv
  <2>2. pc[t] = "do" /\ pc'[t] = to /\ call' = call
    BY <1>0, <2>1 DEF PrintsOn, Goto
  <2>3. CASE to # "do"
    BY <2>2, <2>3 DEF Offers
  <2>4. CASE to = "do"
    <3>1. call[t][1] = "putbytes" /\ local'[t] = local[t] + 1
      BY <1>0, <2>1, <2>4 DEF PrintsOn
    <3>2. putbytes(t)
      BY <1>5, <3>1 DEF Prints, Does, putbyte, draw_char, clear_console,
         cons_set_term_color, get_term_color, set_cursor, get_cursor, hide_cursor,
         show_cursor, get_char
    <3>3. ~LastByte(t)
      BY <1>0, <2>2, <2>4, <3>2 DEF putbytes, SyncOrUnlock
    <3>4. local[t] + 1 < Len(call[t][2])
      BY <1>0, <2>2, <3>1, <3>3, StringOf DEF LastByte
    <3> QED
      BY <2>2, <3>1, <3>4 DEF Offers
  <2> QED
    BY <2>3, <2>4
<1>6. CASE SelectLsb(t) \/ WriteLsb(t) \/ SelectMsb(t) \/ WriteMsb(t)
  <2>1. pc[t] # "idle" /\ pc'[t] # "do" /\ call' = call
    BY <1>0, <1>6 DEF SelectLsb, WriteLsb, SelectMsb, WriteMsb, threads, Goto
  <2> QED
    BY <2>1 DEF Offers
<1>7. CASE save_screen(t) \/ load_screen(t) \/ SetIndex(t)
  BY <1>0, <1>7 DEF save_screen, load_screen, SetIndex, Goto, ClientLabels, Syncing
<1>8. CASE Interrupt(t) \/ WaitFails(t)
  <2>1. \/ pc'[t] = "idle"
        \/ pc'[t] \in Interrupted \cup {"give_up"} /\ pc[t] # "idle" /\ call' = call
    BY <1>0, <1>8, InterruptIs, FailsIs DEF Inv, Interrupted, threads
  <2> QED
    BY <2>1 DEF Offers, Interrupted
<1> QED
  BY <1>1, <1>2, <1>3, <1>4, <1>5, <1>6, <1>7, <1>8 DEF Step, Prints

\* A switcher that has loaded a screen keeps everybody away from both copies.
LEMMA LoadedStep ==
  ASSUME OneSwitcher, Inv, Foreground, NEW u \in Switchers, Loaded(u), [Next]_vars
  PROVE  Loaded(u)'
<1>0. /\ u \in Threads /\ u \notin Clients
      /\ pc \in [Threads -> Labels] /\ pc[u] \in SwitcherLabels
      /\ pc[u] \in Syncing \cup {"set_idx"} =>
           /\ UsesConsole(u) /\ call[u][2] \in Ids
           /\ Owns(u, cons_buffer_lock(call[u][2]))
  BY TextConsoleAssumption
     DEF Inv, Places, Threads, UsesConsole, InBuffer, InSwitch, Syncing, Owns, NewHeld,
         SwitcherLabels
<1>1. CASE UNCHANGED vars
  BY <1>1 DEF vars, memory, threads, Loaded
<1>2. ASSUME NEW t \in Threads, BeginsCall(t) \/ Step(t) \/ Interrupt(t),
             pc'[u] \in Syncing \cup {"set_idx"} =>
               pc[u] \in Syncing \cup {"set_idx"} /\ call'[u] = call[u],
             pc[u] \in Syncing \cup {"set_idx"} =>
               console' = console /\ screens'[call[u][2]] = screens[call[u][2]]
      PROVE  Loaded(u)'
  BY <1>2 DEF Loaded
<1>3. ASSUME NEW t \in Threads, t # u, BeginsCall(t) \/ Step(t) \/ Interrupt(t)
      PROVE  Loaded(u)'
  <2>1. t \in Clients
    BY <1>3 DEF OneSwitcher, Threads
  <2>2. Advances(u)
    BY <1>0, <1>3, OthersAdvance
  <2>3. pc'[u] \in Syncing \cup {"set_idx"} =>
          pc[u] \in Syncing \cup {"set_idx"} /\ call'[u] = call[u]
    BY <2>2 DEF Advances, Waiting, Granted, Syncing
  <2>4. CASE Prints(t)
    <3>1. pc[t] = "do" /\ \E s, to : PrintsOn(t, s, to)
      BY <2>4, PrintsIn DEF Inv
    <3>2. PICK s : Write(t, s)
      BY <3>1 DEF PrintsOn
    <3>3. ASSUME pc[u] \in Syncing \cup {"set_idx"}
          PROVE  console' = console /\ screens'[call[u][2]] = screens[call[u][2]]
      <4>1. ~scr_is_console(t)
        <5>1. scr_is_console(t) => UsesConsole(t)
          BY <3>1 DEF UsesConsole, InBuffer
        <5> QED
          BY <1>0, <1>3, <3>3, <5>1, UserOwns DEF Inv, LockInv
      <4>2. Home[t] # call[u][2]
        <5>1. Owns(t, cons_buffer_lock(Home[t]))
          BY <2>1, <3>1 DEF Owns, BufferHeld
        <5> QED
          BY <1>0, <1>3, <3>3, <5>1, Names DEF Inv, LockInv
      <4> QED
        BY <1>0, <3>2, <3>3, <4>1, <4>2 DEF Write, Inv, Contents
    <3> QED
      BY <1>2, <1>3, <2>3, <3>3
  <2>5. CASE \/ SelectLsb(t) \/ WriteLsb(t) \/ SelectMsb(t) \/ WriteMsb(t)
    BY <1>2, <1>3, <2>3, <2>5 DEF SelectLsb, WriteLsb, SelectMsb, WriteMsb, memory
  <2>6. CASE save_screen(t) \/ load_screen(t) \/ SetIndex(t)
    BY <2>1, <2>6
       DEF save_screen, load_screen, SetIndex, Goto, Inv, Places, ClientLabels, Syncing
  <2>7. CASE ~Prints(t) /\ ~(\/ SelectLsb(t) \/ WriteLsb(t) \/ SelectMsb(t) \/ WriteMsb(t)
                             \/ save_screen(t) \/ load_screen(t) \/ SetIndex(t))
    BY <1>2, <1>3, <2>3, <2>7, ControlContents DEF Step, Prints, memory, Inv
  <2> QED
    BY <2>4, <2>5, <2>6, <2>7
<1>4. ASSUME BeginsCall(u) \/ Step(u) \/ Interrupt(u)
      PROVE  Loaded(u)'
  <2>1. CASE BeginsCall(u)
    <3>1. pc'[u] \in {"idle", "cons_lock", "new_lock"}
      BY <1>0, <2>1 DEF BeginsCall, Call, RefuseColor, scr_get_screen, SwitchNothing,
                        SwitchBegin, Begin, Goto
    <3> QED
      BY <3>1 DEF Loaded, Syncing
  <2>2. CASE LockScreen(u) \/ LockBuffer(u) \/ LockNew(u) \/ LockOld(u)
    <3>1. /\ pc[u] \in Waiting /\ UNCHANGED <<call, old>>
          /\ \E m : sem_wait(u, m)
      BY <2>2 DEF LockScreen, LockBuffer, LockNew, LockOld, threads, Waiting
    <3>2. Advances(u)
      BY <1>0, <3>1, WaitMoves DEF Inv
    <3> QED
      BY <3>1, <3>2 DEF Loaded, Advances, Waiting, Granted, Syncing
  <2>3. CASE \/ GiveUp(u) \/ UnlockBuffer(u) \/ UnlockScreen(u)
             \/ SignalOld(u) \/ SignalNew(u)
    <3>1. pc'[u] \in {"unlock_cons", "signal_new", "idle"}
      BY <1>0, <2>3, SignalsWhere DEF AfterSignal, Inv
    <3> QED
      BY <3>1 DEF Loaded, Syncing
  <2>4. CASE Prints(u) \/ PickBuffer(u) \/ Interrupt(u) \/ WaitFails(u)
    BY <1>0, <2>4, PrintsIn, FailsIs
       DEF Inv, PickBuffer, Interrupt, Goto, SwitcherLabels, Syncing
  <2>5. CASE WriteLsb(u) \/ SelectMsb(u) \/ SelectLsb(u) \/ WriteMsb(u)
    <3>1. UNCHANGED <<console, screens, call>> /\ pc[u] \in Syncing
      BY <2>5 DEF SelectLsb, WriteLsb, SelectMsb, WriteMsb, memory, threads, Goto, Syncing
    <3> QED
      BY <3>1 DEF Loaded
  <2>6. CASE save_screen(u) \/ SetIndex(u)
    <3>1. pc'[u] \in {"load", "signal_old"}
      BY <1>0, <2>6 DEF save_screen, SetIndex, Goto
    <3> QED
      BY <3>1 DEF Loaded, Syncing
  <2>7. CASE load_screen(u)
    BY <2>7 DEF load_screen, Loaded, threads
  <2> QED
    BY <1>4, <2>1, <2>2, <2>3, <2>4, <2>5, <2>6, <2>7 DEF Step, Prints
<1>5. CASE Next
  <2>1. PICK t \in Threads : BeginsCall(t) \/ Step(t) \/ Interrupt(t)
    BY <1>5 DEF Next, BeginsCall
  <2> QED
    BY <1>3, <1>4, <2>1
<1> QED
  BY <1>1, <1>5

ScreensInv == Inv /\ Foreground /\ Cursor /\ Separate

LEMMA SeparateStep ==
  ASSUME OneSwitcher, ScreensInv, [Next]_vars
  PROVE  ScreensInv'
<1>1. ASSUME NEW u \in Clients
      PROVE  Offers(u)'
  <2>1. menu' = menu /\ Offers(u) /\ u \in Threads
    BY MenuSame DEF ScreensInv, Separate, Threads
  <2>2. CASE UNCHANGED vars
    BY <2>1, <2>2 DEF vars, threads, Offers
  <2>3. CASE Next
    <3>1. PICK t \in Threads : BeginsCall(t) \/ Step(t) \/ Interrupt(t)
      BY <2>3 DEF Next, BeginsCall
    <3>2. CASE t = u
      BY <2>1, <3>1, <3>2, MoverOffers DEF ScreensInv
    <3>3. CASE t # u
      BY <2>1, <3>1, <3>3, OthersAdvance, AdvancesOffers DEF ScreensInv
    <3> QED
      BY <3>2, <3>3
  <2> QED
    BY <2>2, <2>3
<1>2. Separate'
  BY <1>1, LoadedStep DEF ScreensInv, Separate
<1> QED
  BY <1>2, LocksStep, ContentsStep, ForegroundStep, CursorStep DEF ScreensInv, Inv

LEMMA SeparateInit == Init => Separate
BY DEF Init, Separate, Offers, Loaded, Syncing, Threads

\* The functions of Screen are those of ScreensSpec.
LEMMA SameScreens ==
  /\ Abstract!NewScreen = NewScreen
  /\ \A s, c : Abstract!scr_putbyte(s, c) = scr_putbyte(s, c)
  /\ \A s, op : Abstract!Effect(s, op) = Effect(s, op)
  /\ \A s, op : Abstract!Answer(s, op) = Answer(s, op)
<1> USE DEF TERM_CHAR_INDEX, Abstract!TERM_CHAR_INDEX, Cells, Abstract!Cells,
            CONSOLE_CHAR_COUNT, Abstract!CONSOLE_CHAR_COUNT, Blank, Abstract!Blank,
            CURSOR_STATE_HIDDEN, Abstract!CURSOR_STATE_HIDDEN,
            CURSOR_STATE_VISIBLE, Abstract!CURSOR_STATE_VISIBLE
<1>1. Abstract!NewScreen = NewScreen
  BY DEF NewScreen, Abstract!NewScreen
<1>2. /\ \A s, row, col, ch, color :
           Abstract!scr_draw_char(s, row, col, ch, color)
             = scr_draw_char(s, row, col, ch, color)
      /\ \A s, n : Abstract!scrollback(s, n) = scrollback(s, n)
      /\ \A s : Abstract!WrapForward(s) = WrapForward(s)
      /\ \A s : Abstract!WrapBack(s) = WrapBack(s)
  BY DEF scr_draw_char, Abstract!scr_draw_char, scrollback, Abstract!scrollback,
         WrapForward, Abstract!WrapForward, WrapBack, Abstract!WrapBack
<1>3. /\ \A s : Abstract!check_cursor(s) = check_cursor(s)
      /\ \A s, c : Abstract!TypeByte(s, c) = TypeByte(s, c)
  BY <1>2 DEF check_cursor, Abstract!check_cursor, TypeByte, Abstract!TypeByte
<1>4. \A s, c : Abstract!scr_putbyte(s, c) = scr_putbyte(s, c)
  BY <1>2, <1>3 DEF scr_putbyte, Abstract!scr_putbyte
<1>5. /\ \A row, col : Abstract!ValidPosition(row, col) = ValidPosition(row, col)
      /\ \A s, row, col :
           Abstract!scr_set_cursor(s, row, col) = scr_set_cursor(s, row, col)
      /\ \A s : Abstract!scr_get_cursor(s) = scr_get_cursor(s)
      /\ \A s, row, col : Abstract!scr_get_char(s, row, col) = scr_get_char(s, row, col)
  BY DEF ValidPosition, Abstract!ValidPosition, scr_set_cursor, Abstract!scr_set_cursor,
         scr_get_cursor, Abstract!scr_get_cursor, scr_get_char, Abstract!scr_get_char
<1>6. /\ \A s : Abstract!scr_clear_console(s) = scr_clear_console(s)
      /\ \A s, color : Abstract!scr_set_term_color(s, color) = scr_set_term_color(s, color)
      /\ \A s : Abstract!scr_hide_cursor(s) = scr_hide_cursor(s)
      /\ \A s : Abstract!scr_show_cursor(s) = scr_show_cursor(s)
  BY DEF scr_clear_console, Abstract!scr_clear_console, scr_set_term_color,
         Abstract!scr_set_term_color, scr_hide_cursor, Abstract!scr_hide_cursor,
         scr_show_cursor, Abstract!scr_show_cursor
<1>7. \A s, op : Abstract!Effect(s, op) = Effect(s, op)
  BY <1>2, <1>4, <1>5, <1>6 DEF Effect, Abstract!Effect
<1>8. \A s, op : Abstract!Answer(s, op) = Answer(s, op)
  BY <1>5 DEF Answer, Abstract!Answer
<1> QED
  BY <1>1, <1>4, <1>7, <1>8

\* Who is in the middle of a putbytes has its screen.
PrintingRight ==
  /\ Printing = [i \in Ids |-> Printing[i]]
  /\ \A i \in Ids : /\ Printing[i] \in Clients \cup {NULL}
                    /\ \A t \in Clients : Printing[i] = t <=> InPutbytes(t, i)

LEMMA PrintingIs == Inv => PrintingRight
<1> SUFFICES ASSUME Inv PROVE PrintingRight
  OBVIOUS
<1>1. ASSUME NEW i \in Ids, NEW t \in Clients, InPutbytes(t, i),
             NEW u \in Clients, InPutbytes(u, i)
      PROVE  t = u
  <2>1. Owns(t, cons_buffer_lock(i)) /\ Owns(u, cons_buffer_lock(i))
    BY <1>1 DEF InPutbytes, Owns, BufferHeld
  <2> QED
    BY <2>1, Names DEF Inv, LockInv, Threads
<1>2. NULL \notin Clients
  BY TextConsoleAssumption DEF Threads
<1>3. ASSUME NEW i \in Ids
      PROVE  /\ Printing[i] \in Clients \cup {NULL}
             /\ \A t \in Clients : Printing[i] = t <=> InPutbytes(t, i)
  <2> DEFINE P(t) == InPutbytes(t, i)
  <2>1. Printing[i] = IF \E t \in Clients : P(t) THEN CHOOSE t \in Clients : P(t) ELSE NULL
    BY DEF Printing
  <2>2. \A t, u \in Clients : P(t) /\ P(u) => t = u
    BY <1>1
  <2> HIDE DEF P
  <2>3. CASE \E t \in Clients : P(t)
    <3> DEFINE c == CHOOSE t \in Clients : P(t)
    <3>1. c \in Clients /\ P(c)
      BY <2>3
    <3>2. Printing[i] = c
      BY <2>1, <2>3
    <3> HIDE DEF c
    <3> QED
      BY <2>2, <3>1, <3>2 DEF P
  <2>4. CASE ~\E t \in Clients : P(t)
    BY <1>2, <2>1, <2>4 DEF P
  <2> QED
    BY <2>3, <2>4
<1>4. Printing = [i \in Ids |-> Printing[i]]
  BY DEF Printing
<1> QED
  BY <1>3, <1>4 DEF PrintingRight

\* Until a thread begins or ends a putbytes, or a screen is saved or entered, all
\* screens stay as they are.
Leaving == Syncing \cup {"load", "set_idx"}

LEMMA LogicalIs ==
  ASSUME Inv
  PROVE  /\ Logical = [i \in Ids |-> Logical[i]]
         /\ \A i \in Ids :
              Logical[i] = IF i = screen_idx /\ ~Saved THEN console ELSE screens[i]
BY DEF Logical

LEMMA SavedIs == Saved <=> \E t \in Switchers : pc[t] \in Leaving
BY DEF Saved, Leaving, Syncing

LEMMA PutbytesStay ==
  ASSUME NEW u, Advances(u), local'[u] = local[u]
  PROVE  /\ pc'[u] \in Leaving <=> pc[u] \in Leaving
         /\ \A i : InPutbytes(u, i)' <=> InPutbytes(u, i)
<1>1. CASE pc'[u] = pc[u]
  BY <1>1 DEF InPutbytes
<1>2. CASE pc[u] \in Waiting /\ pc'[u] = Granted(pc[u])
  BY <1>2 DEF InPutbytes, Waiting, Granted, Leaving, Syncing
<1> QED
  BY <1>1, <1>2 DEF Advances

LEMMA PrintingStays ==
  ASSUME Inv, Inv', \A u \in Clients : \A i : InPutbytes(u, i)' <=> InPutbytes(u, i)
  PROVE  Printing' = Printing
<1> DEFINE p == Printing
           q == Printing'
<1>0. PrintingRight /\ PrintingRight'
  BY PrintingIs, PTL
<1>1. p = [i \in Ids |-> p[i]] /\ q = [i \in Ids |-> q[i]]
  BY <1>0 DEF PrintingRight
<1>2. ASSUME NEW i \in Ids
      PROVE  p[i] = q[i]
  <2>1. p[i] \in Clients \cup {NULL} /\ q[i] \in Clients \cup {NULL}
    BY <1>0 DEF PrintingRight
  <2>2. \A t \in Clients : p[i] = t <=> q[i] = t
    BY <1>0 DEF PrintingRight
  <2> HIDE DEF p, q
  <2> QED
    BY <2>1, <2>2
<1> HIDE DEF p, q
<1>3. p = q
  BY <1>1, <1>2
<1> QED
  BY <1>3 DEF p, q

Silent == UNCHANGED <<Logical, screen_idx, Printing>>

LEMMA LogicalStays ==
  ASSUME UNCHANGED memory, Saved' <=> Saved
  PROVE  Logical' = Logical
BY DEF Logical, memory

LEMMA SavedStays ==
  ASSUME \A u \in Switchers : pc'[u] \in Leaving <=> pc[u] \in Leaving
  PROVE  Saved' <=> Saved
<1>1. Saved' <=> \E t \in Switchers : pc'[t] \in Leaving
  BY DEF Saved, Leaving, Syncing
<1> QED
  BY <1>1, SavedIs

LEMMA QuietScreens ==
  ASSUME Inv, Inv', NEW t \in Threads,
         \A u \in Threads \ {t} : Advances(u) /\ local'[u] = local[u],
         UNCHANGED memory,
         t \in Switchers => (pc'[t] \in Leaving <=> pc[t] \in Leaving),
         pc[t] # "do", pc'[t] = "do" => local'[t] = 0
  PROVE  Silent
<1>1. \A u \in Switchers : pc'[u] \in Leaving <=> pc[u] \in Leaving
  BY PutbytesStay DEF Threads
<1>2. \A u \in Clients : \A i : InPutbytes(u, i)' <=> InPutbytes(u, i)
  <2>1. \A i : ~InPutbytes(t, i) /\ ~InPutbytes(t, i)'
    <3>1. 0 \in Nat /\ ~(0 > 0)
      OBVIOUS
    <3> QED
      BY <3>1 DEF InPutbytes
  <2> QED
    BY <2>1, PutbytesStay DEF Threads
<1>3. Logical' = Logical /\ Printing' = Printing
  BY <1>1, <1>2, SavedStays, LogicalStays, PrintingStays
<1> QED
  BY <1>3 DEF Silent, memory

\* What is written to the screen of a client changes this one.
LEMMA WriteScreen ==
  ASSUME Inv, Foreground, NEW t \in Clients, pc[t] = "do", NEW s, Write(t, s),
         Saved' <=> Saved
  PROVE  /\ Home[t] \in Ids
         /\ Screen(t) = Logical[Home[t]]
         /\ Logical' = [Logical EXCEPT ![Home[t]] = s]
         /\ screen_idx' = screen_idx
<1>0. /\ t \in Threads /\ t \notin Switchers /\ Home[t] \in Ids
      /\ DOMAIN screens = Ids
      /\ scr_is_console(t) <=> Home[t] = screen_idx
  BY TextConsoleAssumption DEF Threads, Inv, Contents, Foreground, FrontOf, InBuffer
<1>1. CASE scr_is_console(t)
  <2>1. ~Saved
    <3>1. UsesConsole(t)
      BY <1>1 DEF UsesConsole, InBuffer
    <3>2. ASSUME NEW u \in Switchers, pc[u] \in Leaving
          PROVE  UsesConsole(u) /\ u \in Threads /\ u # t
      BY <1>0, <3>2 DEF UsesConsole, InBuffer, InSwitch, Leaving, Syncing, Threads
    <3> QED
      BY <1>0, <3>1, <3>2, UserOwns, SavedIs DEF Inv, LockInv
  <2> QED
    BY <1>0, <1>1, <2>1 DEF Write, Logical, Screen
<1>2. CASE ~scr_is_console(t)
  BY <1>0, <1>2 DEF Write, Logical, Screen
<1> QED
  BY <1>0, <1>1, <1>2

\* The other clients of the screen are not in the middle of a putbytes.
LEMMA AloneOnScreen ==
  ASSUME Inv, NEW t \in Clients, pc[t] = "do"
  PROVE  /\ Home[t] \in Ids
         /\ Printing[Home[t]] \in {NULL, t}
         /\ ~(local[t] > 0) => Printing[Home[t]] = NULL
<1>1. t \in Threads /\ Home[t] \in Ids /\ NULL \notin Clients
  BY TextConsoleAssumption DEF Threads
<1>2. PrintingRight
  BY PrintingIs
<1>3. ASSUME NEW u \in Clients, InPutbytes(u, Home[t])
      PROVE  u = t
  <2>1. /\ u \in Threads
        /\ Owns(t, cons_buffer_lock(Home[t])) /\ Owns(u, cons_buffer_lock(Home[t]))
    BY <1>3 DEF InPutbytes, Owns, BufferHeld, Threads
  <2> QED
    BY <1>1, <2>1, Names DEF Inv, LockInv
<1>4. ~(local[t] > 0) => ~InPutbytes(t, Home[t])
  BY DEF InPutbytes
<1> QED
  BY <1>1, <1>2, <1>3, <1>4 DEF PrintingRight

\* The calls but putbytes act on the screen of the caller, at once.
Operates(t) ==
  \E to \in {"lsb_index", "unlock_buffer"} :
    Does(t, call[t][1], Effect(Screen(t), call[t]), Answer(Screen(t), call[t]), to)

LEMMA PrintsOperate ==
  ASSUME NEW t, Prints(t), ~putbytes(t)
  PROVE  Operates(t) /\ call[t][1] # "putbytes"
<1> DEFINE r == Screen(t)
           op == call[t]
<1>0. SyncOrUnlock(t) \in {"lsb_index", "unlock_buffer"}
  BY DEF SyncOrUnlock
<1>1. ASSUME NEW name, name # "putbytes", NEW s, NEW val,
             op[1] = name => s = Effect(r, op) /\ val = Answer(r, op),
             \/ Does(t, name, s, val, SyncOrUnlock(t))
             \/ Does(t, name, s, val, "unlock_buffer")
      PROVE  Operates(t) /\ op[1] # "putbytes"
  <2>1. op[1] = name
    BY <1>1 DEF Does
  <2> QED
    BY <1>0, <1>1, <2>1 DEF Operates
<1> HIDE DEF r
<1>2. CASE putbyte(t)
  <2>1. Does(t, "putbyte", scr_putbyte(r, op[2]), <<"char", op[2]>>, SyncOrUnlock(t))
    BY <1>2 DEF putbyte, r
  <2>2. op[1] = "putbyte" => /\ scr_putbyte(r, op[2]) = Effect(r, op)
                             /\ <<"char", op[2]>> = Answer(r, op)
    BY DEF Effect, Answer
  <2> QED
    BY <1>1, <2>1, <2>2
<1>3. CASE draw_char(t)
  <2> DEFINE s == scr_draw_char(r, op[2], op[3], op[4], op[5])
  <2>1. Does(t, "draw_char", s, <<"void">>, SyncOrUnlock(t))
    BY <1>3 DEF draw_char, r
  <2>2. op[1] = "draw_char" => s = Effect(r, op) /\ <<"void">> = Answer(r, op)
    BY DEF Effect, Answer
  <2> QED
    BY <1>1, <2>1, <2>2
<1>4. CASE clear_console(t)
  <2>1. Does(t, "clear_console", scr_clear_console(r), <<"void">>, "unlock_buffer")
    BY <1>4 DEF clear_console, r
  <2>2. op[1] = "clear_console" => /\ scr_clear_console(r) = Effect(r, op)
                                   /\ <<"void">> = Answer(r, op)
    BY DEF Effect, Answer
  <2> QED
    BY <1>1, <2>1, <2>2
<1>5. CASE cons_set_term_color(t)
  <2>1. Does(t, "set_term_color", scr_set_term_color(r, op[2]), <<"0">>, "unlock_buffer")
    BY <1>5 DEF cons_set_term_color, r
  <2>2. op[1] = "set_term_color" => /\ scr_set_term_color(r, op[2]) = Effect(r, op)
                                    /\ <<"0">> = Answer(r, op)
    BY DEF Effect, Answer
  <2> QED
    BY <1>1, <2>1, <2>2
<1>6. CASE get_term_color(t)
  <2>1. Does(t, "get_term_color", r, <<"0", r.cons_cur_color>>, "unlock_buffer")
    BY <1>6 DEF get_term_color, r
  <2>2. op[1] = "get_term_color" => /\ r = Effect(r, op)
                                    /\ <<"0", r.cons_cur_color>> = Answer(r, op)
    BY DEF Effect, Answer
  <2> QED
    BY <1>1, <2>1, <2>2
<1>7. CASE set_cursor(t)
  <2> DEFINE val == IF ValidPosition(op[2], op[3]) THEN <<"0">> ELSE <<"-1">>
  <2>1. Does(t, "set_cursor", scr_set_cursor(r, op[2], op[3]), val, SyncOrUnlock(t))
    BY <1>7 DEF set_cursor, r
  <2>2. op[1] = "set_cursor" => /\ scr_set_cursor(r, op[2], op[3]) = Effect(r, op)
                                /\ val = Answer(r, op)
    BY DEF Effect, Answer
  <2> QED
    BY <1>1, <2>1, <2>2
<1>8. CASE get_cursor(t)
  <2>1. Does(t, "get_cursor", r, <<"0">> \o scr_get_cursor(r), "unlock_buffer")
    BY <1>8 DEF get_cursor, r
  <2>2. op[1] = "get_cursor" => /\ r = Effect(r, op)
                                /\ <<"0">> \o scr_get_cursor(r) = Answer(r, op)
    BY DEF Effect, Answer
  <2> QED
    BY <1>1, <2>1, <2>2
<1>9. CASE hide_cursor(t)
  <2>1. Does(t, "hide_cursor", scr_hide_cursor(r), <<"0">>, SyncOrUnlock(t))
    BY <1>9 DEF hide_cursor, r
  <2>2. op[1] = "hide_cursor" => /\ scr_hide_cursor(r) = Effect(r, op)
                                 /\ <<"0">> = Answer(r, op)
    BY DEF Effect, Answer
  <2> QED
    BY <1>1, <2>1, <2>2
<1>10. CASE show_cursor(t)
  <2>1. Does(t, "show_cursor", scr_show_cursor(r), <<"0">>, SyncOrUnlock(t))
    BY <1>10 DEF show_cursor, r
  <2>2. op[1] = "show_cursor" => /\ scr_show_cursor(r) = Effect(r, op)
                                 /\ <<"0">> = Answer(r, op)
    BY DEF Effect, Answer
  <2> QED
    BY <1>1, <2>1, <2>2
<1>11. CASE get_char(t)
  <2>1. Does(t, "get_char", r, <<"char", scr_get_char(r, op[2], op[3])>>, "unlock_buffer")
    BY <1>11 DEF get_char, r
  <2>2. op[1] = "get_char" => /\ r = Effect(r, op)
                              /\ <<"char", scr_get_char(r, op[2], op[3])>> = Answer(r, op)
    BY DEF Effect, Answer
  <2> QED
    BY <1>1, <2>1, <2>2
<1> QED
  BY <1>2, <1>3, <1>4, <1>5, <1>6, <1>7, <1>8, <1>9, <1>10, <1>11 DEF Prints

LEMMA OthersStay ==
  ASSUME Inv, NEW t \in Threads, BeginsCall(t) \/ Step(t) \/ Interrupt(t)
  PROVE  \A u \in Threads \ {t} :
           /\ pc'[u] \in Leaving <=> pc[u] \in Leaving
           /\ \A i : InPutbytes(u, i)' <=> InPutbytes(u, i)
BY OthersAdvance, PutbytesStay

LEMMA OperateStep ==
  ASSUME ScreensInv, ScreensInv', NEW t \in Clients, Step(t), Operates(t),
         call[t][1] # "putbytes"
  PROVE  Abstract!Next
<1> DEFINE op == call[t]
           s == Effect(Screen(t), op)
           val == Answer(Screen(t), op)
<1>0. /\ t \in Threads /\ t \notin Switchers /\ DOMAIN Home = Clients
      /\ pc \in [Threads -> Labels] /\ local \in [Threads -> Nat]
      /\ Inv /\ Inv' /\ Foreground /\ Offers(t)
  BY TextConsoleAssumption
     DEF ScreensInv, Separate, Inv, Places, Registers, Threads
<1>1. /\ pc[t] = "do" /\ pc'[t] # "do" /\ Write(t, s) /\ Return(t, val)
      /\ local' = local
  BY <1>0 DEF Operates, Does, Goto
<1>2. local[t] = 0
  BY <1>0, <1>1 DEF Offers
<1>3. Saved' <=> Saved
  BY <1>0, OthersStay, SavedStays DEF Threads
<1>4. Printing' = Printing
  <2>1. \A i : ~InPutbytes(t, i) /\ ~InPutbytes(t, i)'
    BY <1>1, <1>2 DEF InPutbytes
  <2> QED
    BY <1>0, <2>1, OthersStay, PrintingStays DEF Threads
<1>5. /\ Home[t] \in Ids
      /\ Screen(t) = Logical[Home[t]]
      /\ Logical' = [Logical EXCEPT ![Home[t]] = s]
      /\ screen_idx' = screen_idx
  BY <1>0, <1>1, <1>3, WriteScreen
<1>6. Printing[Home[t]] = NULL
  BY <1>0, <1>1, <1>2, AloneOnScreen
<1>7. op \in Offered
  <2>1. op \in menu[t] /\ menu \in Menus
    BY <1>0, <1>1 DEF Offers, Inv, Places
  <2> QED
    BY <2>1 DEF Offered
<1>8. /\ Abstract!Effect(Logical[Home[t]], op) = s
      /\ Abstract!Answer(Logical[Home[t]], op) = val
  BY <1>5, SameScreens
<1> HIDE DEF s, val, op
<1>9. Abstract!Operate(t, op)
  BY <1>1, <1>4, <1>5, <1>6, <1>8 DEF Abstract!Operate, Abstract!Answers, Return
<1> QED
  BY <1>0, <1>7, <1>9 DEF Abstract!Next

LEMMA PutbytesStep ==
  ASSUME ScreensInv, ScreensInv', NEW t \in Clients, putbytes(t)
  PROVE  Abstract!Next
<1> DEFINE str == call[t][2]
           r == Screen(t)
           c == str[local[t] + 1]
           s == IF str = <<>> THEN r ELSE scr_putbyte(r, c)
           i == Home[t]
<1>0. /\ t \in Threads /\ t \notin Switchers /\ DOMAIN Home = Clients
      /\ pc \in [Threads -> Labels] /\ local \in [Threads -> Nat]
      /\ Inv /\ Inv' /\ Foreground /\ Offers(t)
      /\ Step(t)
  BY TextConsoleAssumption
     DEF ScreensInv, Separate, Inv, Places, Registers, Threads, Step
<1>1. /\ pc[t] = "do" /\ call[t][1] = "putbytes" /\ Write(t, s)
      /\ pc' = [pc EXCEPT ![t] = IF LastByte(t) THEN SyncOrUnlock(t) ELSE "do"]
      /\ local' = [local EXCEPT ![t] = IF LastByte(t) THEN 0 ELSE @ + 1]
      /\ IF LastByte(t) THEN Return(t, <<"0">>) ELSE UNCHANGED ret
  BY DEF putbytes
<1>2. /\ call[t] \in Offered
      /\ str \in Seq(Range(str)) /\ Len(str) \in Nat
      /\ \A k \in 1..Len(str) : str[k] \in Range(str)
  BY <1>0, <1>1, StringOf
<1>3. Saved' <=> Saved
  BY <1>0, OthersStay, SavedStays DEF Threads
<1>4. /\ i \in Ids /\ r = Logical[i]
      /\ Logical' = [Logical EXCEPT ![i] = s]
      /\ screen_idx' = screen_idx
  BY <1>0, <1>1, <1>3, WriteScreen
<1>5. /\ Printing[i] \in {NULL, t}
      /\ ~(local[t] > 0) => Printing[i] = NULL
  BY <1>0, <1>1, AloneOnScreen
<1>6. pc'[t] = "do" <=> ~LastByte(t)
  BY <1>0, <1>1 DEF SyncOrUnlock
<1>7. PrintingRight /\ PrintingRight'
  BY <1>0, PrintingIs, PTL
<1>8. Printing' = [Printing EXCEPT ![i] = IF LastByte(t) THEN NULL ELSE t]
  <2> DEFINE p == Printing
             q == Printing'
  <2>1. ASSUME NEW j \in Ids
        PROVE  q[j] = IF j = i THEN IF LastByte(t) THEN NULL ELSE t ELSE p[j]
    <3>1. \A u \in Clients \ {t} : q[j] = u <=> p[j] = u
      <4>1. \A u \in Clients \ {t} : InPutbytes(u, j)' <=> InPutbytes(u, j)
        BY <1>0, OthersStay DEF Threads
      <4> QED
        BY <1>7, <4>1 DEF PrintingRight
    <3>2. q[j] \in Clients \cup {NULL} /\ p[j] \in Clients \cup {NULL}
      BY <1>7 DEF PrintingRight
    <3>3. j # i => q[j] # t /\ p[j] # t
      BY <1>7 DEF PrintingRight, InPutbytes
    <3>4. q[i] = t <=> ~LastByte(t)
      <4>1. InPutbytes(t, i)' <=> ~LastByte(t)
        <5>1. ~LastByte(t) => local'[t] > 0
          BY <1>0, <1>1
        <5> QED
          BY <1>6, <5>1 DEF InPutbytes
      <4> QED
        BY <1>4, <1>7, <4>1 DEF PrintingRight
    <3> HIDE DEF p, q, i
    <3>5. CASE j = i
      BY <1>5, <3>1, <3>2, <3>4, <3>5 DEF p
    <3>6. CASE j # i
      BY <3>1, <3>2, <3>3, <3>6
    <3> QED
      BY <3>5, <3>6
  <2>2. p = [j \in Ids |-> p[j]] /\ q = [j \in Ids |-> q[j]]
    BY <1>7 DEF PrintingRight
  <2> HIDE DEF p, q, i
  <2>3. q = [p EXCEPT ![i] = IF LastByte(t) THEN NULL ELSE t]
    BY <2>1, <2>2
  <2> QED
    BY <2>3 DEF p, q
<1>9. CASE str = <<>>
  <2>1. Len(str) = 0 /\ local[t] = 0
    BY <1>0, <1>1, <1>9 DEF Offers
  <2>2. LastByte(t)
    BY <2>1 DEF LastByte
  <2>3. Logical' = Logical /\ Printing' = Printing
    <3>1. Logical' = Logical
      BY <1>0, <1>4, <1>9, LogicalIs
    <3>2. Printing[i] = NULL
      BY <1>5, <2>1
    <3> QED
      BY <1>7, <1>8, <2>2, <3>1, <3>2 DEF PrintingRight
  <2>4. Abstract!Nothing(t)
    BY <1>1, <1>4, <2>2, <2>3 DEF Abstract!Nothing, Abstract!Answers, Return
  <2> QED
    BY <1>0, <2>4 DEF Abstract!Next
<1>10. CASE str # <<>>
  <2>1. Len(str) \in Nat \ {0}
    BY <1>2, <1>10, EmptySeq
  <2>2. c \in Range(str)
    <3>1. local[t] + 1 \in 1..Len(str)
      BY <1>0, <1>1, <2>1 DEF Offers
    <3> QED
      BY <1>2, <3>1
  <2>3. s = Abstract!scr_putbyte(Logical[i], c)
    BY <1>4, <1>10, SameScreens
  <2> HIDE DEF s, c
  <2>4. Abstract!PrintByte(t, c)
    BY <1>1, <1>4, <1>5, <1>8, <2>3 DEF Abstract!PrintByte, Abstract!Answers, Return
  <2>5. c \in UNION {Range(op[2]) : op \in {o \in Offered : o[1] = "putbytes"}}
    BY <1>1, <1>2, <2>2
  <2> QED
    BY <1>0, <2>4, <2>5 DEF Abstract!Next
<1> QED
  BY <1>9, <1>10

\* A thread that changes the screen keeps every putbytes out of both screens.
LEMMA SwitchSteps ==
  ASSUME OneSwitcher, ScreensInv, ScreensInv', NEW t \in Threads,
         save_screen(t) \/ load_screen(t) \/ SetIndex(t)
  PROVE  [Abstract!Next]_(Abstract!vars)
<1>0. /\ pc \in [Threads -> Labels] /\ Inv /\ Inv' /\ Foreground /\ Step(t)
      /\ screen_idx \in Ids
      /\ UNCHANGED <<ret, call>>
  BY DEF ScreensInv, Inv, Places, Contents, Step, save_screen, load_screen, SetIndex,
         threads
<1>1. /\ t \in Switchers /\ t \notin Clients /\ pc[t] \in OldHeld
      /\ call[t][2] \in Ids /\ old[t] = screen_idx /\ old[t] # call[t][2]
  <2>1. pc[t] \in {"save", "load", "set_idx"}
    BY DEF save_screen, load_screen, SetIndex, Goto
  <2>2. t \in Switchers /\ t \notin Clients
    BY <1>0, <2>1 DEF Inv, Places, ClientLabels, Syncing, Threads
  <2> QED
    BY <1>0, <2>1, <2>2 DEF OldHeld, Inv, Places, Foreground, FrontOf
<1>2. Printing' = Printing
  <2>1. \A u \in Clients : u \in Threads \ {t}
    BY <1>1 DEF Threads
  <2> QED
    BY <1>0, <2>1, OthersStay, PrintingStays
<1>3. \A u \in Switchers : u = t
  BY <1>1 DEF OneSwitcher
<1>4. /\ Saved <=> pc[t] \in Leaving
      /\ Saved' <=> pc'[t] \in Leaving
  <2>1. Saved' <=> \E u \in Switchers : pc'[u] \in Leaving
    BY DEF Saved, Leaving, Syncing
  <2> QED
    BY <1>1, <1>3, <2>1, SavedIs
<1>5. DOMAIN screens = Ids
  BY <1>0 DEF Inv, Contents
<1>6. CASE save_screen(t)
  <2>1. ~Saved /\ Saved'
    BY <1>0, <1>4, <1>6 DEF save_screen, Goto, Leaving, Syncing
  <2>2. Logical' = Logical /\ screen_idx' = screen_idx
    BY <1>0, <1>5, <1>6, <2>1 DEF save_screen, Logical
  <2> QED
    BY <1>0, <1>2, <2>2 DEF Abstract!vars
<1>7. CASE load_screen(t)
  <2>1. Saved /\ Saved'
    BY <1>0, <1>4, <1>7 DEF load_screen, Goto, Leaving, Syncing
  <2>2. Logical' = Logical /\ screen_idx' = screen_idx
    BY <1>7, <2>1 DEF load_screen, Logical
  <2> QED
    BY <1>0, <1>2, <2>2 DEF Abstract!vars
<1>8. CASE SetIndex(t)
  <2>1. Saved /\ ~Saved' /\ pc[t] = "set_idx"
    BY <1>0, <1>4, <1>8 DEF SetIndex, Goto, Leaving, Syncing
  <2>2. console = screens[call[t][2]]
    BY <1>1, <2>1 DEF ScreensInv, Separate, Loaded
  <2>3. Logical' = Logical
    BY <1>1, <1>8, <2>1, <2>2 DEF SetIndex, Logical
  <2>4. ASSUME NEW i \in {screen_idx, call[t][2]}
        PROVE  Printing[i] = NULL
    <3>1. i \in Ids /\ Owns(t, cons_buffer_lock(i))
      BY <1>0, <1>1, <2>1 DEF Owns, NewHeld, OldHeld, SwitcherLabels
    <3>2. ASSUME NEW u \in Clients, InPutbytes(u, i)
          PROVE  FALSE
      <4>1. u \in Threads /\ Owns(u, cons_buffer_lock(i))
        BY <3>2 DEF InPutbytes, Owns, BufferHeld, Threads
      <4> QED
        BY <1>0, <1>1, <3>1, <4>1, Names DEF Inv, LockInv
    <3>3. PrintingRight
      BY <1>0, PrintingIs
    <3> QED
      BY <3>1, <3>2, <3>3 DEF PrintingRight
  <2>5. Abstract!Switch(call[t][2])
    BY <1>0, <1>2, <1>8, <2>3, <2>4 DEF Abstract!Switch, SetIndex
  <2> QED
    BY <1>1, <2>5 DEF Abstract!Next
<1> QED
  BY <1>6, <1>7, <1>8

\* The rest of the code is about locks: it begins and ends calls, or does not show.
LEMMA QuietSteps ==
  ASSUME ScreensInv, ScreensInv', NEW t \in Threads,
         \/ BeginsCall(t) \/ Interrupt(t) \/ WaitFails(t) \/ PickBuffer(t)
         \/ LockScreen(t) \/ LockBuffer(t) \/ LockNew(t) \/ LockOld(t)
         \/ GiveUp(t) \/ UnlockBuffer(t) \/ UnlockScreen(t)
         \/ SignalOld(t) \/ SignalNew(t)
         \/ SelectLsb(t) \/ WriteLsb(t) \/ SelectMsb(t) \/ WriteMsb(t)
  PROVE  [Abstract!Next]_(Abstract!vars)
<1>0. /\ pc \in [Threads -> Labels] /\ Inv /\ Inv'
      /\ local \in [Threads -> Nat]
      /\ t \in Clients => pc[t] \in ClientLabels /\ t \notin Switchers
      /\ t \in Switchers => pc[t] \in SwitcherLabels
      /\ BeginsCall(t) \/ Step(t) \/ Interrupt(t)
  BY TextConsoleAssumption DEF ScreensInv, Inv, Places, Registers, Step
<1>1. \A u \in Threads \ {t} : Advances(u) /\ local'[u] = local[u]
  BY <1>0, OthersAdvance
<1>2. UNCHANGED memory
  <2>1. CASE SelectLsb(t) \/ WriteLsb(t) \/ SelectMsb(t) \/ WriteMsb(t)
    BY <2>1 DEF SelectLsb, WriteLsb, SelectMsb, WriteMsb
  <2> QED
    BY <2>1, ControlContents DEF ScreensInv, Inv, memory
<1>3. CASE BeginsCall(t)
  <2>1. /\ pc[t] = "idle" /\ pc'[t] \in {"idle", "cons_lock", "new_lock"}
    BY <1>0, <1>3 DEF BeginsCall, Call, RefuseColor, scr_get_screen, SwitchNothing,
                      SwitchBegin, Begin, Goto
  <2>2. Silent
    BY <1>0, <1>1, <1>2, <2>1, QuietScreens DEF Leaving, Syncing
  <2>3. \/ Return(t, <<"none">>)
        \/ \E val \in {<<"0">>, <<"-EINTR">>, <<"-EINVAL">>} : Return(t, val)
        \/ Return(t, <<"screen", screen_idx>>)
    BY <1>3 DEF BeginsCall, Call, RefuseColor, scr_get_screen, SwitchNothing,
                SwitchBegin
  <2>4. Abstract!Begin(t) \/ Abstract!Nothing(t) \/ Abstract!Look(t)
    BY <2>2, <2>3 DEF Silent, Return, Abstract!Begin, Abstract!Nothing, Abstract!Look,
                      Abstract!Answers
  <2> QED
    BY <2>4 DEF Abstract!Next
<1>4. CASE Interrupt(t) \/ WaitFails(t)
  <2>1. /\ pc[t] \in Interrupted \cup {"cons_lock", "buffer_lock"}
        /\ pc'[t] \in Interrupted \cup {"idle", "give_up"}
        /\ t \notin Switchers
        /\ ret' = ret \/ Return(t, <<"-EINTR">>)
    BY <1>0, <1>4, InterruptIs, FailsIs DEF Inv, Interrupted, threads
  <2>2. Silent
    BY <1>0, <1>1, <1>2, <2>1, QuietScreens DEF Interrupted
  <2>3. CASE ret' = ret
    BY <2>2, <2>3 DEF Silent, Abstract!vars
  <2>4. CASE Return(t, <<"-EINTR">>)
    <3>1. Abstract!Nothing(t)
      BY <2>2, <2>4 DEF Silent, Return, Abstract!Nothing, Abstract!Answers
    <3> QED
      BY <3>1 DEF Abstract!Next
  <2> QED
    BY <2>1, <2>3, <2>4
<1>5. CASE \/ PickBuffer(t) \/ SelectLsb(t) \/ WriteLsb(t) \/ SelectMsb(t) \/ WriteMsb(t)
  <2>1. /\ pc[t] # "do"
        /\ t \in Switchers => (pc'[t] \in Leaving <=> pc[t] \in Leaving)
        /\ pc'[t] = "do" => PickBuffer(t)
        /\ ret' = ret
    BY <1>0, <1>5 DEF PickBuffer, SelectLsb, WriteLsb, SelectMsb, WriteMsb, Goto, Leaving,
                      Syncing, SwitcherLabels, threads
  <2>2. PickBuffer(t) => local'[t] = 0
    BY DEF PickBuffer, Goto, ScreensInv, Cursor, SyncOf, Syncing
  <2>3. Silent
    BY <1>0, <1>1, <1>2, <2>1, <2>2, QuietScreens
  <2> QED
    BY <2>1, <2>3 DEF Silent, Abstract!vars
<1>6. CASE LockScreen(t) \/ LockBuffer(t) \/ LockNew(t) \/ LockOld(t)
  <2>1. /\ pc[t] \in Waiting /\ UNCHANGED <<call, old, local, ret>>
        /\ \E m : sem_wait(t, m)
    BY <1>6 DEF LockScreen, LockBuffer, LockNew, LockOld, threads, Waiting
  <2>2. Advances(t)
    BY <1>0, <2>1, WaitMoves DEF Inv
  <2>3. pc[t] # "do" /\ pc'[t] # "do" /\ (pc'[t] \in Leaving <=> pc[t] \in Leaving)
    BY <2>1, <2>2 DEF Advances, Waiting, Granted, Leaving, Syncing
  <2>4. Silent
    BY <1>0, <1>1, <1>2, <2>3, QuietScreens
  <2> QED
    BY <2>1, <2>4 DEF Silent, Abstract!vars
<1>7. CASE \/ GiveUp(t) \/ UnlockBuffer(t) \/ UnlockScreen(t)
           \/ SignalOld(t) \/ SignalNew(t)
  <2>1. /\ pc[t] \in {"give_up", "unlock_buffer", "unlock_cons", "signal_old", "signal_new"}
        /\ pc'[t] = AfterSignal(pc[t])
    BY <1>0, <1>7, SignalsWhere DEF Inv
  <2>2. /\ pc[t] # "do" /\ pc'[t] # "do"
        /\ pc[t] \notin Leaving /\ pc'[t] \notin Leaving
    BY <2>1 DEF AfterSignal, Leaving, Syncing
  <2>3. Silent
    BY <1>0, <1>1, <1>2, <2>2, QuietScreens
  <2>4. ret' = ret \/ Return(t, <<"0">>)
    BY <1>7 DEF GiveUp, UnlockBuffer, UnlockScreen, SignalOld, SignalNew, threads
  <2>5. CASE ret' = ret
    BY <2>3, <2>5 DEF Silent, Abstract!vars
  <2>6. CASE Return(t, <<"0">>)
    <3>1. Abstract!Nothing(t)
      BY <2>3, <2>6 DEF Silent, Return, Abstract!Nothing, Abstract!Answers
    <3> QED
      BY <3>1 DEF Abstract!Next
  <2> QED
    BY <2>4, <2>5, <2>6
<1> QED
  BY <1>3, <1>4, <1>5, <1>6, <1>7

LEMMA ScreensStep ==
  ASSUME OneSwitcher, ScreensInv, ScreensInv', [Next]_vars
  PROVE  [Abstract!Next]_(Abstract!vars)
<1>1. CASE UNCHANGED vars
  <2>1. UNCHANGED <<pc, local, memory, ret>>
    BY <1>1 DEF vars, threads
  <2>2. Saved' <=> Saved
    BY <2>1 DEF Saved
  <2>3. Logical' = Logical /\ screen_idx' = screen_idx
    BY <2>1, <2>2, LogicalStays DEF memory
  <2>4. Printing' = Printing
    BY <2>1, PrintingStays DEF ScreensInv, InPutbytes
  <2> QED
    BY <2>1, <2>3, <2>4 DEF Abstract!vars
<1>2. CASE Next
  <2>1. PICK t \in Threads : BeginsCall(t) \/ Step(t) \/ Interrupt(t)
    BY <1>2 DEF Next, BeginsCall
  <2>2. CASE putbytes(t)
    <3>1. t \in Clients
      BY <2>2, PrintsIn DEF Prints, ScreensInv, Inv
    <3> QED
      BY <2>2, <3>1, PutbytesStep
  <2>3. CASE Prints(t) /\ ~putbytes(t)
    <3>1. t \in Clients /\ Step(t)
      BY <2>3, PrintsIn DEF Prints, ScreensInv, Inv, Step
    <3> QED
      BY <2>3, <3>1, PrintsOperate, OperateStep
  <2>4. CASE save_screen(t) \/ load_screen(t) \/ SetIndex(t)
    BY <2>4, SwitchSteps
  <2> QED
    BY <2>1, <2>2, <2>3, <2>4, QuietSteps DEF Step, Prints
<1> QED
  BY <1>1, <1>2

LEMMA ScreensInit == Init => Abstract!Init
<1> SUFFICES ASSUME Init PROVE Abstract!Init
  OBVIOUS
<1>1. ~Saved
  BY DEF Saved, Init, Threads
<1>2. Logical = [i \in Ids |-> NewScreen]
  BY <1>1 DEF Logical, Init, console_init
<1>3. Printing = [i \in Ids |-> NULL]
  <2>1. \A t \in Clients : \A i : ~InPutbytes(t, i)
    BY DEF InPutbytes, Init, Threads
  <2> QED
    BY <2>1 DEF Printing
<1> QED
  BY <1>2, <1>3, SameScreens DEF Abstract!Init, Init, console_init

\* The virtual screens are consoles of their own: the calls of a client act on its
\* screen at once (putbytes byte by byte, with nobody in between), whether it is in
\* the video memory or in the array, and a change of screen moves it without a
\* change (lines 187-252 and 399-428).
THEOREM ScreensCorrect ==
  ASSUME OneSwitcher
  PROVE  Spec => ImplementsScreens
<1>1. Init => ScreensInv /\ Abstract!Init
  BY CursorInit, SeparateInit, ScreensInit DEF ScreensInv
<1>2. ScreensInv /\ [Next]_vars => ScreensInv'
  BY SeparateStep
<1>3. ScreensInv /\ ScreensInv' /\ [Next]_vars => [Abstract!Next]_(Abstract!vars)
  BY ScreensStep
<1> QED
  BY <1>1, <1>2, <1>3, PTL DEF Spec, ImplementsScreens, Abstract!Spec

-----------------------------------------------------------------------------
(* What is printed shows up.                                               *)

LEMMA CellOf ==
  ASSUME NEW row \in 0..(CONSOLE_HEIGHT - 1), NEW col \in 0..(CONSOLE_WIDTH - 1)
  PROVE  /\ TERM_CHAR_INDEX(row, col) \in Cells
         /\ TERM_CHAR_INDEX(row, col) \in Nat
         /\ Cells = 0..(CONSOLE_HEIGHT * CONSOLE_WIDTH - 1)
         /\ CONSOLE_HEIGHT * CONSOLE_WIDTH \in Nat
<1> DEFINE w == CONSOLE_WIDTH
           h == CONSOLE_HEIGHT
<1>1. w \in Nat \ {0} /\ h \in Nat \ {0, 1} /\ row \in 0..(h - 1) /\ col \in 0..(w - 1)
  BY ScreenAssumption
<1>2. Cells = 0..(w * h - 1) /\ TERM_CHAR_INDEX(row, col) = row * w + col
  BY DEF Cells, CONSOLE_CHAR_COUNT, TERM_CHAR_INDEX
<1> HIDE DEF w, h
<1>3. w * h = h * w /\ h * w \in Nat /\ row * w \in Nat
  BY <1>1
<1>4. row * w + w <= h * w
  <2>1. row * w + w = (row + 1) * w /\ h - (row + 1) \in Nat
    BY <1>1
  <2>2. (h - (row + 1)) * w \in Nat /\ (h - (row + 1)) * w = h * w - (row + 1) * w
    BY <1>1, <2>1
  <2> QED
    BY <1>1, <1>3, <2>1, <2>2
<1>5. row * w + col \in 0..(h * w - 1)
  BY <1>1, <1>3, <1>4
<1> QED
  BY <1>1, <1>2, <1>3, <1>5 DEF w, h

LEMMA PositionsOf ==
  ASSUME NEW x \in 0..(CONSOLE_WIDTH - 1), NEW y \in Nat
  PROVE  /\ TERM_CHAR_INDEX(y, x) + 1 = TERM_CHAR_INDEX(y, x + 1)
         /\ TERM_CHAR_INDEX(y, CONSOLE_WIDTH) = TERM_CHAR_INDEX(y + 1, 0)
         /\ TERM_CHAR_INDEX(CONSOLE_HEIGHT - 1, 0)
              = TERM_CHAR_INDEX(CONSOLE_HEIGHT, 0) - CONSOLE_WIDTH
         /\ TERM_CHAR_INDEX(CONSOLE_HEIGHT - 1, 0) - 1 \in Nat
         /\ TERM_CHAR_INDEX(CONSOLE_HEIGHT, 0) = CONSOLE_HEIGHT * CONSOLE_WIDTH
<1> DEFINE w == CONSOLE_WIDTH
           h == CONSOLE_HEIGHT
<1>1. w \in Nat \ {0} /\ h \in Nat \ {0, 1} /\ x \in 0..(w - 1)
  BY ScreenAssumption
<1>2. \A row, col : TERM_CHAR_INDEX(row, col) = row * w + col
  BY DEF TERM_CHAR_INDEX
<1> HIDE DEF w, h
<1>3. TERM_CHAR_INDEX(y, x) + 1 = TERM_CHAR_INDEX(y, x + 1)
  <2>1. y * w \in Nat
    BY <1>1
  <2> QED
    BY <1>1, <1>2, <2>1
<1>4. TERM_CHAR_INDEX(y, w) = TERM_CHAR_INDEX(y + 1, 0)
  <2>1. y * w + w = (y + 1) * w + 0
    BY <1>1
  <2> QED
    BY <1>2, <2>1
<1>5. TERM_CHAR_INDEX(h, 0) = h * w
  <2>1. h * w + 0 = h * w
    BY <1>1
  <2> QED
    BY <1>2, <2>1
<1>6. TERM_CHAR_INDEX(h - 1, 0) = TERM_CHAR_INDEX(h, 0) - w
  <2>1. (h - 1) * w + 0 = (h * w + 0) - w
    BY <1>1
  <2> QED
    BY <1>2, <2>1
<1>7. TERM_CHAR_INDEX(h - 1, 0) - 1 \in Nat
  <2>1. (h - 1) * w = (h - 2) * w + w /\ (h - 2) * w \in Nat
    BY <1>1
  <2> DEFINE z == (h - 1) * w + 0
  <2>2. z - 1 \in Nat
    BY <1>1, <2>1
  <2>3. TERM_CHAR_INDEX(h - 1, 0) = z
    BY <1>2
  <2> HIDE DEF z
  <2> QED
    BY <2>2, <2>3
<1> QED
  BY <1>3, <1>4, <1>5, <1>6, <1>7 DEF w, h

\* A character is drawn at the cursor, which moves on by one cell.
LEMMA TypedByte ==
  ASSUME NEW s, IsScreen(s), s.cons_cur_y < CONSOLE_HEIGHT, NEW c, c \notin Control
  PROVE  LET r == TypeByte(s, c)
             p == Position(s)
         IN /\ Shape(r) /\ InRange(r)
            /\ p \in Cells /\ Position(r) = p + 1
            /\ r.cons_buf = [s.cons_buf EXCEPT ![p] = <<c, s.cons_cur_color>>]
<1> DEFINE x == s.cons_cur_x
           y == s.cons_cur_y
           p == Position(s)
           d == scr_draw_char(s, y, x, c, s.cons_cur_color)
           e == MoveX(d, d.cons_cur_x + 1)
           r == MoveTo(e, 0, e.cons_cur_y + 1)
           b == [s.cons_buf EXCEPT ![p] = <<c, s.cons_cur_color>>]
<1>0. CONSOLE_WIDTH \in Nat \ {0} /\ CONSOLE_HEIGHT \in Nat \ {0, 1}
  BY ScreenAssumption
<1>1. /\ Shape(s) /\ x \in 0..(CONSOLE_WIDTH - 1) /\ y \in 0..(CONSOLE_HEIGHT - 1)
      /\ p = TERM_CHAR_INDEX(y, x) /\ p \in Cells /\ p \in Nat
  <2>1. Shape(s) /\ x \in 0..(CONSOLE_WIDTH - 1) /\ y \in 0..(CONSOLE_HEIGHT - 1)
    BY <1>0 DEF IsScreen, InRange
  <2> QED
    BY <2>1, CellOf DEF Position
<1>2. Shape(d) /\ SameCursor(s, d) /\ d.cons_buf = b
  <2>1. d = [s EXCEPT !.cons_buf[p] = <<c, s.cons_cur_color>>]
    BY <1>0, <1>1 DEF scr_draw_char
  <2>2. d.cons_buf = b
    BY <1>1, <2>1 DEF Shape
  <2> QED
    BY <1>1, <2>2, DrawKeeps
<1> HIDE DEF d
<1>3. /\ Shape(e) /\ e.cons_cur_x = x + 1 /\ e.cons_cur_y = y /\ e.cons_buf = b
  <2>1. e.cons_buf = d.cons_buf
    BY <1>2 DEF MoveX, Shape
  <2> QED
    BY <1>2, <2>1, MoveXKeeps DEF SameCursor
<1>4. TypeByte(s, c) = WrapForward(e)
  BY DEF TypeByte, d, MoveX, Control
<1> HIDE DEF e
<1>5. Shape(r) /\ r.cons_cur_x = 0 /\ r.cons_cur_y = y + 1 /\ r.cons_buf = b
  <2>1. r.cons_buf = e.cons_buf
    BY <1>3 DEF MoveTo, Shape
  <2> QED
    BY <1>3, <2>1, MoveToKeeps
<1>6. TypeByte(s, c) = IF x + 1 >= CONSOLE_WIDTH THEN r ELSE e
  BY <1>3, <1>4 DEF WrapForward, MoveTo
<1>7. /\ InRange(r)
      /\ ~(x + 1 >= CONSOLE_WIDTH) => InRange(e)
  BY <1>0, <1>1, <1>3, <1>5 DEF InRange
<1>8. /\ x + 1 >= CONSOLE_WIDTH => Position(r) = p + 1
      /\ Position(e) = p + 1
  <2>1. x + 1 >= CONSOLE_WIDTH => x + 1 = CONSOLE_WIDTH
    BY <1>0, <1>1
  <2> QED
    BY <1>1, <1>3, <1>5, <2>1, PositionsOf DEF Position
<1> HIDE DEF r, p, b, x
<1>9. /\ Shape(TypeByte(s, c)) /\ InRange(TypeByte(s, c))
      /\ Position(TypeByte(s, c)) = p + 1
      /\ TypeByte(s, c).cons_buf = b
  BY <1>3, <1>5, <1>6, <1>7, <1>8
<1> QED
  BY <1>1, <1>9 DEF p, b

\* A cursor below the last line has the screen scrolled by a line, unless it is
\* hidden.
LEMMA Scrolled ==
  ASSUME NEW s, IsScreen(s)
  PROVE  check_cursor(s) \in {s, scrollback(s, 1)}
         /\ (check_cursor(s) # s => s.cons_cur_y = CONSOLE_HEIGHT)
<1>1. /\ s.cons_cur_x \in 0..(CONSOLE_WIDTH - 1)
      /\ s.cons_cur_y \in 0..CONSOLE_HEIGHT
      /\ CONSOLE_WIDTH \in Nat \ {0} /\ CONSOLE_HEIGHT \in Nat
  BY ScreenAssumption DEF IsScreen, InRange
<1>2. WrapForward(s) = s
  BY <1>1 DEF WrapForward
<1>3. WrapBack(s) = s
  BY <1>1 DEF WrapBack
<1>4. s.cons_cur_y >= CONSOLE_HEIGHT =>
        s.cons_cur_y = CONSOLE_HEIGHT /\ (s.cons_cur_y - CONSOLE_HEIGHT) + 1 = 1
  BY <1>1
<1> QED
  BY <1>2, <1>3, <1>4 DEF check_cursor

LEMMA PutbyteShows ==
  ASSUME NEW s, IsScreen(s), s.cons_cur_y < CONSOLE_HEIGHT, NEW c, c \notin Control
  PROVE  Shows(s, scr_putbyte(s, c), c)
<1> DEFINE p == Position(s)
           f == TypeByte(s, c)
           g == check_cursor(f)
           r == scr_draw_char(g, g.cons_cur_y, g.cons_cur_x, " ", g.cons_cur_color)
           q == Position(r)
           b == s.cons_buf
           v == <<c, s.cons_cur_color>>
           w == CONSOLE_WIDTH
           size == CONSOLE_HEIGHT * CONSOLE_WIDTH
           o == Position(g)
           k == p + 1 - o
<1>0. /\ w \in Nat \ {0} /\ size \in Nat
      /\ DOMAIN b = Cells /\ Cells = 0..(size - 1)
  <2>1. w \in Nat \ {0} /\ CONSOLE_HEIGHT \in Nat \ {0, 1}
    BY ScreenAssumption
  <2>2. 0 \in 0..(CONSOLE_HEIGHT - 1) /\ 0 \in 0..(CONSOLE_WIDTH - 1)
    BY <2>1
  <2> QED
    BY <2>1, <2>2, CellOf DEF IsScreen, Shape
<1>1. /\ IsScreen(f) /\ p \in Cells /\ Position(f) = p + 1
      /\ f.cons_buf = [b EXCEPT ![p] = v]
  BY TypedByte DEF IsScreen
<1>2. scr_putbyte(s, c) = r
  BY DEF scr_putbyte
<1> HIDE DEF f, p, size
<1>3. g \in {f, scrollback(f, 1)} /\ (g # f => f.cons_cur_y = CONSOLE_HEIGHT)
  BY <1>1, Scrolled
<1>4. /\ IsScreen(g)
      /\ DOMAIN g.cons_buf = Cells
  <2>1. f.cons_cur_x \in -1..CONSOLE_WIDTH /\ f.cons_cur_y \in Nat
    BY <1>1, ScreenAssumption DEF IsScreen, InRange
  <2> QED
    BY <1>1, <2>1, CheckBrings DEF IsScreen, Shape
<1> HIDE DEF g, o
<1>5. \/ g = f /\ o = p + 1
      \/ /\ g = scrollback(f, 1)
         /\ o = (p + 1) - w /\ o - 1 \in Nat /\ p + 1 = size
  <2>1. CASE g = f
    BY <1>1, <2>1 DEF o
  <2>2. CASE g # f
    <3>1. f.cons_cur_y = CONSOLE_HEIGHT /\ f.cons_cur_x = 0 /\ g = scrollback(f, 1)
      BY <1>1, <1>3, <2>2 DEF IsScreen, InRange
    <3>2. g.cons_cur_x = 0 /\ g.cons_cur_y = CONSOLE_HEIGHT - 1
      BY <1>1, <3>1, ScrollKeeps DEF IsScreen
    <3>3. 0 \in 0..(CONSOLE_WIDTH - 1) /\ 0 \in Nat
      BY <1>0
    <3>4. /\ Position(f) = TERM_CHAR_INDEX(CONSOLE_HEIGHT, 0)
          /\ o = TERM_CHAR_INDEX(CONSOLE_HEIGHT - 1, 0)
      BY <3>1, <3>2 DEF Position, o
    <3>5. o = Position(f) - w /\ o - 1 \in Nat /\ Position(f) = size
      BY <3>3, <3>4, PositionsOf DEF size
    <3>6. Position(f) = p + 1
      BY <1>1
    <3>7. o = (p + 1) - w /\ p + 1 = size
      BY <3>5, <3>6
    <3> QED
      BY <3>1, <3>5, <3>7
  <2> QED
    BY <2>1, <2>2
<1>6. p \in Nat /\ p <= size - 1
  BY <1>0, <1>1
<1> HIDE DEF k, w
<1>7. /\ k \in Nat /\ o \in Nat /\ o - 1 \in 0..(o - 1) /\ (o - 1) + k = p
      /\ \A i \in 0..(o - 1) :
           i + k \in Cells /\ i \in Cells /\ g.cons_buf[i] = f.cons_buf[i + k]
  <2>1. CASE g = f /\ o = p + 1
    <3>1. k = 0
      BY <1>6, <2>1 DEF k
    <3>2. o \in Nat /\ o - 1 \in 0..(o - 1) /\ (o - 1) + k = p
      BY <1>6, <2>1, <3>1
    <3>3. \A i \in 0..(o - 1) : i + k = i /\ i \in Cells
      BY <1>0, <1>6, <2>1, <3>1
    <3> QED
      BY <2>1, <3>1, <3>2, <3>3
  <2>2. CASE /\ g = scrollback(f, 1)
             /\ o = (p + 1) - w /\ o - 1 \in Nat /\ p + 1 = size
    <3>1. k = w
      BY <1>0, <1>6, <2>2 DEF k
    <3>2. g.cons_buf = [i \in Cells |->
                          IF i + w \in Cells THEN f.cons_buf[i + w] ELSE Blank]
      <4>1. 1 * CONSOLE_WIDTH = w
        BY <1>0 DEF w
      <4>2. "cons_buf" \in DOMAIN f
        BY <1>1 DEF IsScreen, Shape
      <4> QED
        BY <2>2, <4>1, <4>2 DEF scrollback
    <3>3. \A i \in 0..(o - 1) : i + w \in Cells /\ i \in Cells
      BY <1>0, <1>6, <2>2
    <3>4. \A i \in 0..(o - 1) : g.cons_buf[i] = f.cons_buf[i + k]
      BY <3>1, <3>2, <3>3
    <3>5. o \in Nat /\ o - 1 \in 0..(o - 1) /\ (o - 1) + k = p
      BY <1>0, <1>6, <2>2, <3>1
    <3> QED
      BY <1>0, <3>1, <3>3, <3>4, <3>5
  <2> QED
    BY <1>5, <2>1, <2>2
<1>8. /\ q = o
      /\ \A i \in Cells : i # q => r.cons_buf[i] = g.cons_buf[i]
  <2>1. SameCursor(g, r)
    BY <1>4, DrawKeeps DEF IsScreen
  <2>2. q = o
    BY <2>1 DEF SameCursor, Position, o
  <2>3. r.cons_buf = g.cons_buf
        \/ r.cons_buf = [g.cons_buf EXCEPT ![o] = <<" ", g.cons_cur_color>>]
    BY <1>4 DEF scr_draw_char, Position, IsScreen, Shape, o
  <2> QED
    BY <1>4, <2>2, <2>3
<1> HIDE DEF r, q, b, v
<1>9. \A i \in 0..(q - 1) :
        /\ r.cons_buf[i] = f.cons_buf[i + k]
        /\ i + k \in Cells /\ i \in Cells
  <2> SUFFICES ASSUME NEW i \in 0..(q - 1)
               PROVE  /\ r.cons_buf[i] = f.cons_buf[i + k]
                      /\ i + k \in Cells /\ i \in Cells
    OBVIOUS
  <2>1. i # q
    BY <1>7, <1>8
  <2> QED
    BY <1>7, <1>8, <2>1
<1>10. r.cons_buf[q - 1] = v
  <2>1. q - 1 \in 0..(q - 1) /\ (q - 1) + k = p
    BY <1>7, <1>8
  <2> QED
    BY <1>0, <1>1, <1>9, <2>1
<1>11. \A i \in 0..(q - 2) : r.cons_buf[i] = b[i + k]
  <2> SUFFICES ASSUME NEW i \in 0..(q - 2)
               PROVE  r.cons_buf[i] = b[i + k]
    OBVIOUS
  <2>1. i \in 0..(q - 1) /\ i + k # p
    BY <1>7, <1>8
  <2> QED
    BY <1>0, <1>1, <1>9, <2>1
<1>12. k = p + 1 - q
  BY <1>8 DEF k
<1> QED
  BY <1>2, <1>10, <1>11, <1>12 DEF Shows, p, q, b, v

\* A printable byte is drawn by its own thread, in a putbyte or a putbytes.
LEMMA DrawnByPutbyte ==
  ASSUME Inv, [Next]_vars, NEW t \in Clients, NEW c \in Drawn(t)
  PROVE  c \notin Control /\ Screen(t)' = scr_putbyte(Screen(t), c)
<1>0. /\ Places /\ LockInv /\ Contents /\ Registers
      /\ t \in Threads /\ t \notin Switchers /\ Home[t] \in Ids
  BY TextConsoleAssumption DEF Inv, Threads
<1>1. /\ pc[t] = "do" /\ (pc'[t] # pc[t] \/ local'[t] # local[t])
      /\ c \notin Control
      /\ \/ call[t][1] = "putbyte" /\ c = call[t][2]
         \/ /\ call[t][1] = "putbytes" /\ call[t][2] # <<>>
            /\ c = call[t][2][local[t] + 1]
  BY DEF Drawn
<1>2. PICK u \in Threads : BeginsCall(u) \/ Step(u) \/ Interrupt(u)
  BY <1>1 DEF vars, threads, Next, BeginsCall
<1>3. u = t
  <2> SUFFICES ASSUME u # t PROVE FALSE
    OBVIOUS
  <2>1. Advances(t) /\ local'[t] = local[t]
    BY <1>0, <1>2, OthersAdvance
  <2> QED
    BY <1>1, <2>1 DEF Advances, Waiting
<1>4. ~BeginsCall(t)
  BY <1>1 DEF BeginsCall, Call, RefuseColor, scr_get_screen, SwitchNothing, SwitchBegin,
              Begin, Goto
<1>5. ~Interrupt(t) /\ ~WaitFails(t)
  BY <1>0, <1>1, InterruptIs, FailsIs
<1>6. Prints(t)
  <2>1. ~(LockScreen(t) \/ LockBuffer(t) \/ LockNew(t) \/ LockOld(t) \/ PickBuffer(t))
    BY <1>1 DEF LockScreen, LockBuffer, LockNew, LockOld, PickBuffer, Goto
  <2>2. ~(GiveUp(t) \/ UnlockBuffer(t) \/ UnlockScreen(t) \/ SignalOld(t) \/ SignalNew(t))
    BY <1>1 DEF GiveUp, UnlockBuffer, UnlockScreen, SignalOld, SignalNew
  <2>3. ~(SelectLsb(t) \/ WriteLsb(t) \/ SelectMsb(t) \/ WriteMsb(t))
    BY <1>1 DEF SelectLsb, WriteLsb, SelectMsb, WriteMsb, Goto
  <2>4. ~(save_screen(t) \/ load_screen(t) \/ SetIndex(t))
    BY <1>1 DEF save_screen, load_screen, SetIndex, Goto
  <2> QED
    BY <1>2, <1>3, <1>4, <1>5, <2>1, <2>2, <2>3, <2>4 DEF Step, Prints
<1>7. putbyte(t) \/ putbytes(t)
  <2>1. call[t][1] \in {"putbyte", "putbytes"}
    BY <1>1
  <2> QED
    BY <1>6, <2>1 DEF Prints, Does, draw_char, clear_console, cons_set_term_color,
                      get_term_color, set_cursor, get_cursor, hide_cursor,
                      show_cursor, get_char
<1>8. Write(t, scr_putbyte(Screen(t), c)) /\ buf' = buf
  <2>1. CASE putbyte(t)
    <3>1. call[t][1] = "putbyte"
      BY <2>1 DEF putbyte, Does
    <3>2. c = call[t][2]
      BY <1>1, <3>1
    <3> QED
      BY <2>1, <3>2 DEF putbyte, Does
  <2>2. CASE putbytes(t)
    <3>1. call[t][2] # <<>> /\ c = call[t][2][local[t] + 1]
      BY <1>1, <2>2 DEF putbytes
    <3> QED
      BY <2>2, <3>1 DEF putbytes
  <2> QED
    BY <1>7, <2>1, <2>2
<1>9. Screen(t)' = scr_putbyte(Screen(t), c)
  BY <1>0, <1>8 DEF Write, Screen, scr_is_console, Contents
<1> QED
  BY <1>1, <1>9

\* A byte printed with the cursor on the screen is in the cell before the cursor
\* afterwards, at the end of a line and on the last line too, and the text before
\* it is kept (lines 273-300), whatever the other threads do.
THEOREM PrintedCorrect == Spec => PrintedIsShown
<1>1. ASSUME Inv, [Next]_vars, NEW t \in Clients,
             Screen(t).cons_cur_y < CONSOLE_HEIGHT, NEW c \in Drawn(t)
      PROVE  Shows(Screen(t), Screen(t)', c)
  <2>1. c \notin Control /\ Screen(t)' = scr_putbyte(Screen(t), c)
    BY <1>1, DrawnByPutbyte
  <2>2. IsScreen(Screen(t))
    BY <1>1, ScreenIsScreen DEF Inv
  <2>3. PICK s : s = Screen(t)
    OBVIOUS
  <2>4. Shows(s, scr_putbyte(s, c), c)
    BY <1>1, <2>1, <2>2, <2>3, PutbyteShows
  <2> QED
    BY <2>1, <2>3, <2>4
<1>2. Inv /\ [Next]_vars =>
        [\A t \in Clients : Screen(t).cons_cur_y < CONSOLE_HEIGHT =>
           \A c \in Drawn(t) : Shows(Screen(t), Screen(t)', c)]_vars
  BY <1>1
<1> QED
  BY <1>2, Invariance, PTL DEF Spec, PrintedIsShown

=============================================================================
