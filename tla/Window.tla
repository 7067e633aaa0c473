---------------------------------- MODULE Window ----------------------------------
(* The text windows of window.c.  All windows are parts of one screen, which       *)
(* nothing divides: where a character goes is up to the cursor of the window that  *)
(* it is written to.  Characters are model characters; "" is the character 0.      *)
EXTENDS Integers, Sequences

CONSTANTS
  CONSOLE_CHARS, CONSOLE_LINES,
  Window,     \* names of the windows
  Frame       \* where they are: [x, y, width, height]

\* What window_is_valid() asks for, with the height of the screen in the place of
\* its width, against which window.c:46 compares the last line as well.
WindowAssumption ==
  \A w \in Window :
    /\ Frame[w].width > 0 /\ Frame[w].x + Frame[w].width <= CONSOLE_CHARS
    /\ Frame[w].height > 0 /\ Frame[w].y + Frame[w].height <= CONSOLE_LINES

Cells == (0 .. CONSOLE_CHARS - 1) \X (0 .. CONSOLE_LINES - 1)

InWindow(w, at) ==
  /\ at[1] - Frame[w].x \in 0 .. Frame[w].width - 1
  /\ at[2] - Frame[w].y \in 0 .. Frame[w].height - 1

\* A console: the screen, the cursor of each window, and whether the assertion in
\* poke_screen() failed.
NewConsole(Cursor_char) ==
  [SCREEN |-> [at \in Cells |-> ""],
   cursor |-> [w \in Window |-> [x |-> 0, y |-> 0, char |-> Cursor_char[w]]],
   failed |-> FALSE]

poke_screen(s, x, y, ch) ==
  IF <<x, y>> \in Cells THEN [s EXCEPT !.SCREEN[<<x, y>>] = ch] ELSE [s EXCEPT !.failed = TRUE]

\* Writes at the cursor of w.
Poke(s, w, ch) == poke_screen(s, Frame[w].x + s.cursor[w].x, Frame[w].y + s.cursor[w].y, ch)

Moved(s, w, x, y) == [s EXCEPT !.cursor[w].x = x, !.cursor[w].y = y]

remove_cursor(s, w) == Poke(s, w, " ")

show_cursor(s, w) ==
  LET t == IF Frame[w].x + s.cursor[w].x > CONSOLE_CHARS - 1
           THEN Moved(s, w, 0, s.cursor[w].y) ELSE s
  IN  Poke(t, w, t.cursor[w].char)

scroll_window(s, w) ==
  LET last == Frame[w].y + Frame[w].height - 1
      lines == [at \in Cells |->
                  IF ~InWindow(w, at) THEN s.SCREEN[at]
                  ELSE IF at[2] = last THEN "" ELSE s.SCREEN[<<at[1], at[2] + 1>>]]
  IN  Moved([s EXCEPT !.SCREEN = lines], w, 0, Frame[w].height - 1)

clear_window(s, w) ==
  LET empty == [at \in Cells |-> IF InWindow(w, at) THEN "" ELSE s.SCREEN[at]]
  IN  show_cursor(Moved([s EXCEPT !.SCREEN = empty], w, 0, 0), w)

\* cursor_active() and cursor_inactive().
set_cursor(s, w, ch) == show_cursor([s EXCEPT !.cursor[w].char = ch], w)

\* What output_char() does between removing the cursor and showing it again.
Written(s, w, c) ==
  LET at == s.cursor[w]
  IN  CASE c \in {"nl", "cr"} -> Moved(s, w, 0, at.y + 1)
        [] c = "bs" -> IF at.x # 0 THEN Moved(s, w, at.x - 1, at.y)
                       ELSE IF at.y # 0 THEN Moved(s, w, Frame[w].width - 1, at.y - 1) ELSE s
        [] c = "so" -> Moved(poke_screen(s, Frame[w].x + Frame[w].width, Frame[w].y + at.y, "|"),
                             w, at.x, at.y + 1)
        [] OTHER    -> Moved(Poke(s, w, c), w, at.x + 1, at.y)

\* Variant: the window scrolls one line too late.
output_char_late(s, w, c) ==
  LET t == Written(remove_cursor(s, w), w, c)
  IN  show_cursor(IF t.cursor[w].y > Frame[w].height THEN scroll_window(t, w) ELSE t, w)

output_char(s, w, c) ==
  LET t == Written(remove_cursor(s, w), w, c)
  IN  show_cursor(IF t.cursor[w].y = Frame[w].height THEN scroll_window(t, w) ELSE t, w)
====================================================================================
