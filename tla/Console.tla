------------------------------ MODULE Console ------------------------------
(***************************************************************************)
(* The text console of lib.c as the displayed terminal sees it: the       *)
(* cursor (screen_x, screen_y) and the characters of the NUM_ROWS x       *)
(* NUM_COLS screen at VIDEO, cell y * NUM_COLS + x.  The routines are      *)
(* operators on a console value [x, y, video] and return the console they *)
(* leave, so a handler that calls several of them composes them in the    *)
(* order of its code.  Attribute bytes and the hardware cursor's port      *)
(* writes are layout and are left out.                                     *)
(***************************************************************************)
EXTENDS Integers

CONSTANTS NUM_COLS, NUM_ROWS

ASSUME NUM_COLS \in Nat \ {0} /\ NUM_ROWS \in Nat \ {0}

Cells == 0 .. NUM_ROWS * NUM_COLS - 1
Blank == " "

VARIABLES screen_x, screen_y, video

convars == << screen_x, screen_y, video >>

Console == [x |-> screen_x, y |-> screen_y, video |-> video]

\* The console a handler leaves.
ConsoleIs(c) ==
  /\ screen_x' = c.x
  /\ screen_y' = c.y
  /\ video'    = c.video

\* The cell under the cursor: NUM_COLS * screen_y + screen_x.
Pos(c) == c.y * NUM_COLS + c.x

ConsoleInit ==
  /\ screen_x = 0
  /\ screen_y = 0
  /\ video = [i \in Cells |-> Blank]

\* scroll_up: every row moves up by one and the bottom row is blanked.
scroll_up(v) ==
  [i \in Cells |-> IF i < (NUM_ROWS - 1) * NUM_COLS THEN v[i + NUM_COLS] ELSE Blank]

\* set_screen_cursor(new_x, new_y): a column past the row calls enter(),
\* which is set_screen_cursor(0, screen_y + 1), and returns; a row past
\* the screen scrolls and puts the cursor on the bottom row.
RECURSIVE set_screen_cursor(_, _, _)
set_screen_cursor(c, nx, ny) ==
  IF nx >= NUM_COLS THEN set_screen_cursor(c, 0, c.y + 1)
  ELSE IF ny < NUM_ROWS THEN [c EXCEPT !.x = nx, !.y = ny]
  ELSE [x |-> nx, y |-> NUM_ROWS - 1, video |-> scroll_up(c.video)]

enter(c) == set_screen_cursor(c, 0, c.y + 1)

\* putc: a newline (or carriage return) is enter(); any other character is
\* stored under the cursor and the cursor advanced by one.
putc(c, ch) ==
  IF ch = "\n" THEN enter(c)
  ELSE set_screen_cursor([c EXCEPT !.video[Pos(c)] = ch], c.x + 1, c.y)

\* Mutation: at the start of a row, backspace goes to column NUM_COLS of
\* the row above, which set_screen_cursor turns into the next row.
backspace_wrap_late(c) ==
  IF c.x = 0 /\ c.y = 0 THEN c
  ELSE LET d == IF c.x # 0 THEN set_screen_cursor(c, c.x - 1, c.y)
                           ELSE set_screen_cursor(c, NUM_COLS, c.y - 1)
       IN  [d EXCEPT !.video[Pos(d)] = Blank]

\* backspace: the cursor steps back one cell, to the end of the row above
\* from column 0, and nothing happens at (0, 0); the cell it lands on is
\* blanked.
backspace(c) ==
  IF c.x = 0 /\ c.y = 0 THEN c
  ELSE LET d == IF c.x # 0 THEN set_screen_cursor(c, c.x - 1, c.y)
                           ELSE set_screen_cursor(c, NUM_COLS - 1, c.y - 1)
       IN  [d EXCEPT !.video[Pos(d)] = Blank]

\* clear: every cell blanked; the cursor is left where it is.
clear(c) == [c EXCEPT !.video = [i \in Cells |-> Blank]]

ConsoleTypeOK ==
  /\ screen_x \in 0 .. NUM_COLS - 1
  /\ screen_y \in 0 .. NUM_ROWS - 1
  /\ DOMAIN video = Cells

=============================================================================
