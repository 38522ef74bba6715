------------------------------- MODULE Screen -------------------------------
(***************************************************************************)
(* One screen of drivers/text_console.c: a grid of characters and a        *)
(* cursor.  The operations are the functions scr_* on one cons_screen_t;   *)
(* each returns the screen as the function leaves it.                      *)
(***************************************************************************)
EXTENDS Integers, Sequences

CONSTANTS
  CONSOLE_WIDTH,
  CONSOLE_HEIGHT,
  CONSOLE_CLEAR_COLOR,
  DEFAULT_COLOR  \* FGND_WHITE | BGND_BLACK

\* A line more than the screen has room for is scrolled in at once, after a
\* newline below the last line.
ASSUME ScreenAssumption ==
  /\ CONSOLE_WIDTH \in Nat \ {0}
  /\ CONSOLE_HEIGHT \in Nat \ {0, 1}

CURSOR_STATE_VISIBLE == "visible"
CURSOR_STATE_HIDDEN  == "hidden"

CONSOLE_CHAR_COUNT == CONSOLE_WIDTH * CONSOLE_HEIGHT
Cells == 0..(CONSOLE_CHAR_COUNT - 1)
TERM_CHAR_INDEX(row, col) == row * CONSOLE_WIDTH + col

Blank == <<" ", CONSOLE_CLEAR_COLOR>>

\* A screen as console_init makes it.  Nothing clears the memory: it is zero.
NewScreen ==
  [cons_buf       |-> [i \in Cells |-> <<"nul", 0>>],
   cons_cur_x     |-> 0,
   cons_cur_y     |-> 0,
   cons_cur_state |-> CURSOR_STATE_VISIBLE,
   cons_cur_color |-> DEFAULT_COLOR]

-----------------------------------------------------------------------------
(* Faulty variants of the operations below: each breaks a property.        *)

\* Scrolls as soon as the cursor is below the last line, twice.
ScrollsOneTooFar(s, n) ==
  [s EXCEPT !.cons_cur_y = @ - n,
            !.cons_buf = [i \in Cells |->
               IF i + (n + 1) * CONSOLE_WIDTH \in Cells
               THEN s.cons_buf[i + (n + 1) * CONSOLE_WIDTH] ELSE Blank]]

\* Takes the last column for the first one past the end.
WrapsTooLate(s) ==
  IF s.cons_cur_x > CONSOLE_WIDTH
  THEN [s EXCEPT !.cons_cur_x = 0, !.cons_cur_y = @ + 1]
  ELSE s

-----------------------------------------------------------------------------
\* Writes outside of the screen are ignored.
scr_draw_char(s, row, col, ch, color) ==
  IF row >= CONSOLE_HEIGHT \/ col >= CONSOLE_WIDTH
  THEN s
  ELSE [s EXCEPT !.cons_buf[TERM_CHAR_INDEX(row, col)] = <<ch, color>>]

\* The text moves n lines up, and blank lines come in below.
scrollback(s, n) ==
  [s EXCEPT !.cons_cur_y = @ - n,
            !.cons_buf = [i \in Cells |->
               IF i + n * CONSOLE_WIDTH \in Cells
               THEN s.cons_buf[i + n * CONSOLE_WIDTH] ELSE Blank]]

\* A cursor past the end of its line goes to the next one.
WrapForward(s) ==
  IF s.cons_cur_x >= CONSOLE_WIDTH
  THEN [s EXCEPT !.cons_cur_x = 0, !.cons_cur_y = @ + 1]
  ELSE s

\* A cursor before its line goes to the end of the one above, if there is one.
WrapBack(s) ==
  IF s.cons_cur_x < 0
  THEN IF s.cons_cur_y > 0
       THEN [s EXCEPT !.cons_cur_x = CONSOLE_WIDTH - 1, !.cons_cur_y = @ - 1]
       ELSE [s EXCEPT !.cons_cur_x = 0]
  ELSE s

\* A hidden cursor may stay at the start of the line below the last.
check_cursor(s) ==
  LET c == WrapBack(WrapForward(s))
      stays == /\ c.cons_cur_y = CONSOLE_HEIGHT
               /\ c.cons_cur_state = CURSOR_STATE_HIDDEN
               /\ c.cons_cur_x = 0
  IN IF ~stays /\ c.cons_cur_y >= CONSOLE_HEIGHT
     THEN scrollback(c, (c.cons_cur_y - CONSOLE_HEIGHT) + 1)
     ELSE c

\* What a byte does before the cursor is checked: control characters move it,
\* any other one is drawn.
TypeByte(s, c) ==
  CASE c = "newline"   -> [s EXCEPT !.cons_cur_x = 0, !.cons_cur_y = @ + 1]
    [] c = "return"    -> [s EXCEPT !.cons_cur_x = 0]
    [] c = "backspace" -> [s EXCEPT !.cons_cur_x = @ - 1]
    [] OTHER         -> WrapForward(
         [scr_draw_char(s, s.cons_cur_y, s.cons_cur_x, c, s.cons_cur_color)
            EXCEPT !.cons_cur_x = @ + 1])

\* The cell under the new cursor is blanked, whatever was there.
scr_putbyte(s, c) ==
  LET moved == check_cursor(TypeByte(s, c))
  IN scr_draw_char(moved, moved.cons_cur_y, moved.cons_cur_x, " ",
                   moved.cons_cur_color)

scr_clear_console(s) == [s EXCEPT !.cons_buf = [i \in Cells |-> Blank]]

scr_set_term_color(s, color) == [s EXCEPT !.cons_cur_color = color]

ValidPosition(row, col) ==
  row \in 0..(CONSOLE_HEIGHT - 1) /\ col \in 0..(CONSOLE_WIDTH - 1)

scr_set_cursor(s, row, col) ==
  IF ValidPosition(row, col)
  THEN [s EXCEPT !.cons_cur_x = col, !.cons_cur_y = row]
  ELSE s

\* The special case compares the row with the width.
scr_get_cursor(s) ==
  IF /\ s.cons_cur_state # CURSOR_STATE_VISIBLE
     /\ s.cons_cur_y >= CONSOLE_WIDTH
  THEN <<s.cons_cur_y + 1, 0>>
  ELSE <<s.cons_cur_y, s.cons_cur_x>>

scr_hide_cursor(s) == [s EXCEPT !.cons_cur_state = CURSOR_STATE_HIDDEN]
scr_show_cursor(s) == [s EXCEPT !.cons_cur_state = CURSOR_STATE_VISIBLE]

\* The column, too, is compared with the height.
scr_get_char(s, row, col) ==
  IF row < 0 \/ col < 0 \/ row >= CONSOLE_HEIGHT \/ col >= CONSOLE_HEIGHT
  THEN "nul"
  ELSE s.cons_buf[TERM_CHAR_INDEX(row, col)][1]

\* Where cursor_sync has the hardware show the cursor.
CursorIndex(s) ==
  IF s.cons_cur_state = CURSOR_STATE_HIDDEN
  THEN CONSOLE_HEIGHT * CONSOLE_WIDTH + CONSOLE_WIDTH
  ELSE s.cons_cur_y * CONSOLE_WIDTH + s.cons_cur_x

-----------------------------------------------------------------------------
(* A call on a screen is a tuple, its name and its arguments.              *)

\* What a call leaves of the screen; putbytes is a call for each byte.
Effect(s, op) ==
  CASE op[1] = "putbyte"        -> scr_putbyte(s, op[2])
    [] op[1] = "draw_char"      -> scr_draw_char(s, op[2], op[3], op[4], op[5])
    [] op[1] = "clear_console"  -> scr_clear_console(s)
    [] op[1] = "set_term_color" -> scr_set_term_color(s, op[2])
    [] op[1] = "set_cursor"     -> scr_set_cursor(s, op[2], op[3])
    [] op[1] = "hide_cursor"    -> scr_hide_cursor(s)
    [] op[1] = "show_cursor"    -> scr_show_cursor(s)
    [] OTHER                    -> s

\* What a call answers.
Answer(s, op) ==
  CASE op[1] = "putbyte"        -> <<"char", op[2]>>
    [] op[1] \in {"draw_char", "clear_console"} -> <<"void">>
    [] op[1] = "set_cursor" /\ ~ValidPosition(op[2], op[3]) -> <<"-1">>
    [] op[1] = "get_cursor"     -> <<"0">> \o scr_get_cursor(s)
    [] op[1] = "get_term_color" -> <<"0", s.cons_cur_color>>
    [] op[1] = "get_char"       -> <<"char", scr_get_char(s, op[2], op[3])>>
    [] OTHER                    -> <<"0">>

=============================================================================
