------------------------------ MODULE MCInput ------------------------------
(***************************************************************************)
(* The shell's input path in one run: the keyboard driver with the        *)
(* console echo (Keyboard), and the parse of the line that execute and    *)
(* getargs make (MCCommandLine).  The two parts share no variable: a      *)
(* behaviour of both is an interleaving of a behaviour of each, and its   *)
(* states are the pairs of their reachable states.  An invariant of one   *)
(* part therefore holds in all of them exactly when it holds in every     *)
(* reachable state of that part, so the run explores each part on its own *)
(* (side), in the sum of their state counts rather than the product.      *)
(* The library routines that the same shell's output and copies run on   *)
(* (Lib) are a third part, with the call being made as its state.        *)
(***************************************************************************)
EXTENDS MCCommandLine

VARIABLES scancode_state, ctrl_state, alt_state, key_buf, enter_state,
          held, caps_on, typed, hidden, screen_x, screen_y, video, call, side

kbvars == << scancode_state, ctrl_state, alt_state, key_buf, enter_state,
            held, caps_on, typed, hidden, screen_x, screen_y, video >>

\* Room for three characters and ENTER: a line that wraps from any column
\* of a three-column row, and scrolls at the bottom of a two-row screen.
MCKeyBufMax == 4
MCNumCols   == 3
MCNumRows   == 2

\* One shift key at a time: with both held, releasing one loses the shift
\* of the other (see KeysAsTyped).
MCBothShifts == FALSE

KB == INSTANCE Keyboard
        WITH KEY_BUF_MAX <- MCKeyBufMax, BothShifts <- MCBothShifts,
             OutputBetweenLines <- TRUE, NUM_COLS <- MCNumCols,
             NUM_ROWS <- MCNumRows

L == INSTANCE Lib

\* The keyboard and the command line start in their one initial state;
\* the call starts as any call on the library's side and as one fixed
\* call on the others, so that no side multiplies another's states.
InputInit ==
  /\ side \in {"cmd", "kb", "lib"}
  /\ Init
  /\ KB!Init
  /\ IF side = "lib" THEN L!LibInit ELSE call = CHOOSE c \in L!Calls : TRUE

InputNext ==
  \/ side = "cmd" /\ Next /\ UNCHANGED << kbvars, call, side >>
  \/ side = "kb" /\ KB!Next /\ UNCHANGED << vars, call, side >>
  \/ side = "lib" /\ L!LibCall /\ UNCHANGED << vars, kbvars, side >>

InputSpec == InputInit /\ [][InputNext]_<< vars, kbvars, call, side >>

KeyboardTypeOK == KB!TypeOK

\* The line in key_buf is the one the user typed, whatever modifier keys
\* were pressed and released and caps lock toggled before each key.
KeysAsTyped == KB!KeysAsTyped

\* While a line is edited, the screen shows it just before the cursor,
\* across putc's wrap and scroll and backspace's step to the row above.
EchoShown == KB!EchoShown

\* printf's %x, %#x, %u and %d print the argument word; %#x always eight
\* digits, %d of INT_MIN its magnitude.
PrintfNumbers == L!PrintfNumbers

\* memset sets exactly its n bytes, to the low byte of c.
MemsetFills == L!MemsetFills

\* memcpy copies exactly its n bytes, at every alignment of either end.
MemcpyCopies == L!MemcpyCopies

\* strncpy copies up to the first NUL or n bytes and pads with NULs.
StrncpyPads == L!StrncpyPads

\* printf prints each documented conversion of its format, in order.
PrintfAsDocumented == L!PrintfAsDocumented

\* term_write shows the written bytes up to a NUL and returns their count.
TermWriteShows == L!TermWriteShows

=============================================================================
