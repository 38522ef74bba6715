---------------------------- MODULE MCTextConsole ---------------------------
(***************************************************************************)
(* Small instances of TextConsole for TLC.                                 *)
(***************************************************************************)
EXTENDS TextConsole

CONSTANTS t1, t2, t3, sw

\* Two threads share the screen that is in the foreground at first.
MCHome == (t1 :> 0) @@ (t2 :> 0) @@ (t3 :> 1)

Colors == {7, 1}

Reads == {<<"get_cursor">>, <<"get_term_color">>, <<"get_char", 1, 0>>,
          <<"get_char", 0, 2>>}

Writes == {<<"putbyte", c>> : c \in {"a", "newline", "return", "backspace"}}
     \cup {<<"putbytes", str>> : str \in {<<>>, <<"a", "b", "a">>}}
     \cup {<<"draw_char", 1, 0, "b", 1>>, <<"draw_char", 2, 0, "b", 1>>}
     \cup {<<"set_cursor", 1, 2>>, <<"set_cursor", 2, 0>>}
     \cup {<<"set_term_color", 1>>, <<"set_term_color", 99>>}
     \cup {<<"clear_console">>, <<"hide_cursor">>, <<"show_cursor">>}

Switch(n) == <<"scr_set_screen", n>>

\* Every call, by one thread.
Alone == (t1 :> Reads \cup Writes) @@ (t2 :> {}) @@ (t3 :> {}) @@ (sw :> {})

\* Threads of two screens, and one that changes the screen.
Shared == (t1 :> {<<"putbytes", <<"a", "b">>>>}) @@ (t2 :> {<<"set_cursor", 1, 1>>})
       @@ (t3 :> {<<"putbyte", "a">>})
       @@ (sw :> {Switch(0), Switch(1), Switch(3), <<"scr_get_screen">>})

MCMenus == {Alone, Shared}

=============================================================================
