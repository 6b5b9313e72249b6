----------------------------- MODULE Keyboard -----------------------------
(***************************************************************************)
(* The modifier tracking of keyboard_interrupt_handler (keyboard.c): the  *)
(* driver keeps one shift bit and one caps-lock bit in scancode_state,   *)
(* which selects the row of scancode_map, and a flag each for Ctrl and    *)
(* Alt; a printable key is appended to key_buf unless Ctrl or Alt is     *)
(* down.  The keyboard itself is the environment: which modifier keys are *)
(* held, whether caps lock is on, and the characters the user means by    *)
(* the keys pressed (typed).  Every key event is one scancode and one     *)
(* run of the handler, which runs with interrupts off.                    *)
(*                                                                         *)
(* Three columns of scancode_map are kept: the letter a (0x1E), which     *)
(* both shift and caps lock change, the digit 1 (0x02), which only shift  *)
(* changes, and l (0x26), typed with Ctrl for Ctrl+L.  Key releases of    *)
(* these keys send codes >= 59, which the default branch drops, so a      *)
(* keystroke is a single event.  ENTER, BACKSPACE and the echo of each    *)
(* key go through the console routines of lib.c (Console).                *)
(***************************************************************************)
EXTENDS Integers, Sequences, Bitwise, TLC, Console

CONSTANTS
  KEY_BUF_MAX,        \* key_buf's size (128); one slot is kept for ENTER's '\n'
  BothShifts,         \* TRUE: the user may hold both shift keys at once
  OutputBetweenLines  \* TRUE: programs write only while no key is buffered

ASSUME KEY_BUF_MAX \in Nat \ {0} /\ BothShifts \in BOOLEAN
ASSUME OutputBetweenLines \in BOOLEAN
\* A line fits on the screen above the bottom row, as 127 characters fit in
\* 24 rows of 80: scrolling never pushes a line's first character off.
ASSUME KEY_BUF_MAX - 1 <= (NUM_ROWS - 1) * NUM_COLS

\* Scancodes of keyboard.h.
CAPSLOCK_P == 58
LSHIFT_P   == 42
LSHIFT_R   == 170
RSHIFT_P   == 54
RSHIFT_R   == 182
ALT_P      == 56
ALT_R      == 184
CTRL_P     == 29
CTRL_R     == 157
BACKSPACE  == 14
ENTER      == 28
KEY_1      == 2
KEY_A      == 30
KEY_L      == 38

Printable == {KEY_1, KEY_A, KEY_L}

\* Three columns of scancode_map, by row: caps lock is bit 1 of the row
\* and shift bit 0.
scancode_map(state, idx) ==
  CASE idx = KEY_1 -> << "1", "!", "1", "!" >>[state + 1]
    [] idx = KEY_A -> << "a", "A", "A", "a" >>[state + 1]
    [] idx = KEY_L -> << "l", "L", "L", "l" >>[state + 1]

Shifts    == {"LShift", "RShift"}
Modifiers == Shifts \cup {"Ctrl", "Alt"}
Make  == ("LShift" :> LSHIFT_P) @@ ("RShift" :> RSHIFT_P) @@
         ("Ctrl" :> CTRL_P) @@ ("Alt" :> ALT_P)
Break == ("LShift" :> LSHIFT_R) @@ ("RShift" :> RSHIFT_R) @@
         ("Ctrl" :> CTRL_R) @@ ("Alt" :> ALT_R)

VARIABLES
  scancode_state,  \* bit 0 shift, bit 1 caps lock
  ctrl_state,
  alt_state,
  key_buf,         \* key_buf[0 .. key_buf_idx - 1]
  enter_state,     \* term[cur_term_id].enter_state
  held,            \* the modifier keys the user holds down
  caps_on,         \* caps lock, as the user has toggled it
  typed,           \* history: the characters the user meant to enter
  hidden           \* history: how many of them Ctrl+L took off the screen

kbvars == << scancode_state, ctrl_state, alt_state, key_buf, enter_state,
            held, caps_on, typed, hidden, screen_x, screen_y, video >>

Init ==
  /\ scancode_state = 0
  /\ ctrl_state = 0
  /\ alt_state = 0
  /\ key_buf = << >>
  /\ enter_state = 0
  /\ held = {}
  /\ caps_on = FALSE
  /\ typed = << >>
  /\ hidden = 0
  /\ ConsoleInit

(***************************************************************************)
(* keyboard_interrupt_handler on scancode code.                            *)
(***************************************************************************)
\* Mutation: the toggle as an addition, which carries into bit 2.
CapsToggleAdd(st) == st + 2

\* scancode_state ^= 0x02
CapsToggle(st) == st ^^ 2

\* scancode_state |= 0x01
ShiftPress(st) == st | 1

\* Mutation: the release clears bit 1 (caps lock) rather than bit 0.
ShiftReleaseWrongBit(st) == st & 253

\* scancode_state &= 0xFE, for the release of either shift key.
ShiftRelease(st) == st & 254

\* ENTER is stored while key_buf_idx < KEY_BUF_MAX, a character while
\* key_buf_idx < KEY_BUF_MAX - 1.
EnterFits(idx) == idx < KEY_BUF_MAX
CharFits(idx)  == idx < KEY_BUF_MAX - 1

Handler(code) ==
  LET n == Len(key_buf)
      key == scancode_map(scancode_state, code)
  IN
  /\ scancode_state' =
       CASE code = CAPSLOCK_P              -> CapsToggle(scancode_state)
         [] code \in {LSHIFT_P, RSHIFT_P} -> ShiftPress(scancode_state)
         [] code \in {LSHIFT_R, RSHIFT_R} -> ShiftRelease(scancode_state)
         [] OTHER                          -> scancode_state
  /\ ctrl_state' = CASE code = CTRL_P -> 1 [] code = CTRL_R -> 0 [] OTHER -> ctrl_state
  /\ alt_state'  = CASE code = ALT_P  -> 1 [] code = ALT_R  -> 0 [] OTHER -> alt_state
  /\ CASE code = ENTER /\ EnterFits(n) ->
            /\ key_buf' = Append(key_buf, "\n")
            /\ enter_state' = 1
            /\ ConsoleIs(enter(Console))
       [] code = BACKSPACE /\ n > 0 ->
            /\ ConsoleIs(backspace(Console))
            /\ key_buf' = SubSeq(key_buf, 1, n - 1)
            /\ UNCHANGED enter_state
       \* default branch: Alt drops the key; Ctrl drops every key but l
       \* (clear, cursor to 0,0) and c; otherwise the key is stored and
       \* echoed while it fits.
       [] code \in Printable /\ alt_state = 0 /\ ctrl_state = 1 /\ key \in {"l", "L"} ->
            /\ ConsoleIs(set_screen_cursor(clear(Console), 0, 0))
            /\ UNCHANGED << key_buf, enter_state >>
       [] code \in Printable /\ alt_state = 0 /\ ctrl_state = 0 /\ CharFits(n) ->
            /\ key_buf' = Append(key_buf, key)
            /\ ConsoleIs(putc(Console, key))
            /\ UNCHANGED enter_state
       [] OTHER -> UNCHANGED << key_buf, enter_state, convars >>

(***************************************************************************)
(* The user's key events, each one scancode and one run of the handler.    *)
(***************************************************************************)
ShiftHeld == held \cap Shifts # {}
NoCtrlAlt == held \cap {"Ctrl", "Alt"} = {}

\* What the user means by the key idx: shift and caps lock for a letter,
\* shift alone for a digit.
Meant(idx) ==
  IF idx = KEY_1 THEN IF ShiftHeld THEN "!" ELSE "1"
                 ELSE IF ShiftHeld # caps_on THEN "A" ELSE "a"

Press(k) ==
  /\ k \notin held
  /\ ~BothShifts => ~(k \in Shifts /\ ShiftHeld)
  /\ held' = held \cup {k}
  /\ Handler(Make[k])
  /\ UNCHANGED << caps_on, typed, hidden >>

Release(k) ==
  /\ k \in held
  /\ held' = held \ {k}
  /\ Handler(Break[k])
  /\ UNCHANGED << caps_on, typed, hidden >>

\* The caps-lock key; its release code 0xBA falls in the default branch.
CapsLock ==
  /\ caps_on' = ~caps_on
  /\ Handler(CAPSLOCK_P)
  /\ UNCHANGED << held, typed, hidden >>

\* A key is meant only with neither Ctrl nor Alt down, and while it fits.
Type(idx) ==
  /\ Handler(idx)
  /\ typed' = IF NoCtrlAlt /\ Len(typed) < KEY_BUF_MAX - 1
                THEN Append(typed, Meant(idx)) ELSE typed
  /\ UNCHANGED << held, caps_on, hidden >>

\* Ctrl+L: the screen is cleared and everything typed so far leaves it.
CtrlL ==
  /\ "Ctrl" \in held
  /\ Handler(KEY_L)
  /\ hidden' = IF "Alt" \in held THEN hidden ELSE Len(typed)
  /\ UNCHANGED << held, caps_on, typed >>

EnterKey ==
  /\ Handler(ENTER)
  /\ typed' = IF Len(typed) < KEY_BUF_MAX THEN Append(typed, "\n") ELSE typed
  /\ UNCHANGED << held, caps_on, hidden >>

\* BACKSPACE takes back the last character meant, shown or not.
BackspaceKey ==
  /\ Handler(BACKSPACE)
  /\ typed' = IF typed = << >> THEN typed ELSE SubSeq(typed, 1, Len(typed) - 1)
  /\ hidden' = IF hidden < Len(typed') THEN hidden ELSE Len(typed')
  /\ UNCHANGED << held, caps_on >>

(***************************************************************************)
(* The other side of the buffer.                                           *)
(***************************************************************************)
\* buf_clear: key_buf zeroed and key_buf_idx = 0.
buf_clear ==
  /\ key_buf' = << >>
  /\ typed' = << >>
  /\ hidden' = 0

\* term_read, once ENTER has set enter_state: resets it, copies key_buf
\* and calls buf_clear.
ReadLine ==
  /\ enter_state = 1
  /\ enter_state' = 0
  /\ buf_clear
  /\ UNCHANGED << scancode_state, ctrl_state, alt_state, held, caps_on, convars >>

\* halt starts with buf_clear (Ctrl+C's handler also calls it first).
Discard ==
  /\ buf_clear
  /\ UNCHANGED << scancode_state, ctrl_state, alt_state, enter_state, held,
                  caps_on, convars >>

\* term_write of the displayed terminal: printf's putc of each character.
Output(ch) ==
  /\ OutputBetweenLines => key_buf = << >>
  /\ ConsoleIs(putc(Console, ch))
  /\ UNCHANGED << scancode_state, ctrl_state, alt_state, key_buf, enter_state,
                  held, caps_on, typed, hidden >>

Next ==
  \/ \E k \in Modifiers : Press(k) \/ Release(k)
  \/ CapsLock
  \/ \E idx \in {KEY_1, KEY_A} : Type(idx)
  \/ CtrlL
  \/ EnterKey
  \/ BackspaceKey
  \/ ReadLine
  \/ Discard
  \/ \E ch \in {"#", "\n"} : Output(ch)

Spec == Init /\ [][Next]_kbvars

-----------------------------------------------------------------------------
TypeOK ==
  /\ scancode_state \in 0 .. 3
  /\ ctrl_state \in {0, 1} /\ alt_state \in {0, 1}
  /\ key_buf \in Seq({"1", "!", "a", "A", "\n"})
  /\ enter_state \in {0, 1}
  /\ held \subseteq Modifiers
  /\ caps_on \in BOOLEAN
  /\ ConsoleTypeOK

\* The line the driver has buffered is the one the user typed: after any
\* sequence of modifier presses and releases and caps-lock toggles, each
\* key lands in key_buf with the shift and caps lock the user has on at
\* that moment, and none lands while Ctrl or Alt is held.
KeysAsTyped == key_buf = typed

\* While a line is being edited (no ENTER pending), the cells just before
\* the cursor show the buffered characters typed since the last Ctrl+L, in
\* order: putc's wrap into the next row and scroll at the bottom, and
\* backspace's step back across a row boundary, keep the echo and the
\* cursor in step with key_buf.
EchoShown ==
  enter_state = 0 =>
    LET n == Len(key_buf) - hidden
        p == Pos(Console)
    IN  /\ n <= p
        /\ \A i \in 1 .. n : video[p - n + i - 1] = key_buf[hidden + i]

=============================================================================
