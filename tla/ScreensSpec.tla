----------------------------- MODULE ScreensSpec ----------------------------
(***************************************************************************)
(* What the virtual screens of drivers/text_console.h promise: each screen *)
(* is a console of its own, whichever one is in the foreground.            *)
(***************************************************************************)
EXTENDS Screen

CONSTANTS
  Threads, Ids, NULL,
  Home,  \* the screen of each thread that prints
  Calls, \* the calls made, apart from putbytes
  Bytes  \* the bytes in the strings printed by putbytes

VARIABLES
  logical,    \* the state of each screen
  foreground, \* the screen on display
  printing,   \* who is in the middle of a putbytes on each screen, or NULL
  ret         \* what each thread's last call answered

vars == <<logical, foreground, printing, ret>>

Init ==
  /\ logical    = [i \in Ids |-> NewScreen]
  /\ foreground = 0
  /\ printing   = [i \in Ids |-> NULL]
  /\ ret        = [t \in Threads |-> <<"none">>]

Answers(t, val) == ret' = [ret EXCEPT ![t] = val]

\* A new call forgets the answer of the last.
Begin(t) == Answers(t, <<"none">>) /\ UNCHANGED <<logical, foreground, printing>>

\* A call acts at once, on its own thread's screen, and not inside of a putbytes.
Operate(t, op) ==
  /\ printing[Home[t]] = NULL
  /\ logical' = [logical EXCEPT ![Home[t]] = Effect(@, op)]
  /\ Answers(t, Answer(logical[Home[t]], op))
  /\ UNCHANGED <<foreground, printing>>

\* One byte of a putbytes: after the last the screen is free.
PrintByte(t, c) ==
  /\ printing[Home[t]] \in {NULL, t}
  /\ logical' = [logical EXCEPT ![Home[t]] = scr_putbyte(@, c)]
  /\ \/ printing' = [printing EXCEPT ![Home[t]] = t] /\ UNCHANGED ret
     \/ printing' = [printing EXCEPT ![Home[t]] = NULL] /\ Answers(t, <<"0">>)
  /\ UNCHANGED foreground

\* A putbytes of no bytes, a refused argument and an interrupted call do nothing.
Nothing(t) ==
  /\ \E val \in {<<"0">>, <<"-EINTR">>, <<"-EINVAL">>} : Answers(t, val)
  /\ UNCHANGED <<logical, foreground, printing>>

Look(t) ==
  /\ Answers(t, <<"screen", foreground>>)
  /\ UNCHANGED <<logical, foreground, printing>>

\* A screen in the middle of a putbytes neither leaves nor comes.
Switch(n) ==
  /\ printing[foreground] = NULL /\ printing[n] = NULL
  /\ foreground' = n
  /\ UNCHANGED <<logical, printing, ret>>

Next ==
  \/ \E t \in Threads : Begin(t) \/ Nothing(t) \/ Look(t)
  \/ \E t \in DOMAIN Home : \/ \E op \in Calls : Operate(t, op)
                            \/ \E c \in Bytes : PrintByte(t, c)
  \/ \E n \in Ids : Switch(n)

Spec == Init /\ [][Next]_vars

=============================================================================
