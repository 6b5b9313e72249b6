------------------------------ MODULE Terminal ------------------------------
(***************************************************************************)
(* The keyboard's line discipline across terminals: the one global key     *)
(* buffer (keyboard.c: key_buf, key_buf_idx), each terminal's saved copy   *)
(* (term[t].key_buf), the per-terminal enter_state that ENTER sets and     *)
(* term_read waits on, and the copy and clear that term_read does.  Alt+F  *)
(* and term_launch swap the global buffer for the saved one of the         *)
(* terminal they display (term_save, term_restore).                        *)
(*                                                                         *)
(* Each terminal's current process is abstracted to where it stands with   *)
(* respect to the terminal: running ("run"), spinning in term_read for      *)
(* ENTER ("wait"), or past the wait and about to copy the buffer ("copy").  *)
(* term_read enables interrupts (sti) before it spins, so the PIT and the  *)
(* keyboard interleave with it.  A key, ENTER's newline included, is      *)
(* abstracted to the terminal on whose display it was typed, and what a    *)
(* read hands back to the set of terminals its keys came from.             *)
(*                                                                         *)
(* The screen side: the physical text screen (VIDEO, 0xB8000), each        *)
(* terminal's backing page (term[t].video_mem, 0xB9000 + 0x1000 t), and     *)
(* the 132MB user page that vidmap and the PIT handler point at one of     *)
(* them.  A page's content is abstracted to the terminals whose output it  *)
(* holds, and the terminals whose latest output it holds.                  *)
(***************************************************************************)
EXTENDS Integers, Sequences, SequencesExt

CONSTANTS
  TERM_MAX,          \* number of terminals (terminal.h: 3)
  KEY_BUF_MAX,       \* size of key_buf (keyboard.h: 128)
  UserWaitsForBoot,  \* TRUE: no key is pressed before every shell has booted
  SwitchWhenIdle,    \* TRUE: Alt+F only while no ENTER is waiting to be read
  UserInOwnSlice     \* TRUE: programs exit in the slice of the displayed
                     \*       terminal

ASSUME TERM_MAX \in Nat \ {0} /\ KEY_BUF_MAX \in Nat \ {0}
ASSUME UserWaitsForBoot \in BOOLEAN /\ SwitchWhenIdle \in BOOLEAN
ASSUME UserInOwnSlice \in BOOLEAN

Terms  == 0 .. TERM_MAX - 1
NoTerm == TERM_MAX                  \* term_init: cur_term_id = 3
Phases == {"none", "run", "wait", "copy"}
Screen == TERM_MAX + 1              \* the page at VIDEO; page t is t's backing page
Pages  == Terms \cup {Screen}
NoPage == -1                        \* page_video_tab[0] before any mapping

VARIABLES
  key_buf,      \* key_buf[0 .. key_buf_idx-1], the global line being typed
  saved_buf,    \* term[t].key_buf / key_buf_idx, saved by term_save
  enter_state,  \* term[t].enter_state
  running,      \* term[t].running
  cur_term_id,  \* terminal on the display
  now_term_id,  \* terminal whose time slice the CPU is in
  phase,        \* where terminal t's current process stands
  read_from,    \* terminals whose keys t's last term_read copied out
  vmap,         \* the page the 132MB user video page maps (page_video_tab[0])
  vid,          \* terminals whose current program holds vidmap's pointer
  shows,        \* shows[p]: terminals with output on page p
  latest,       \* latest[p]: terminals whose latest output is on page p
  wrote,        \* terminals that have produced output
  wiped         \* history: terminals whose pending keys another
                \* terminal's program discarded on exit

keys   == << key_buf, saved_buf, enter_state, read_from, wiped >>
screen == << vmap, vid, shows, latest, wrote >>
vars   == << key_buf, saved_buf, enter_state, running, cur_term_id,
             now_term_id, phase, read_from, vmap, vid, shows, latest, wrote,
             wiped >>

BootDone == \A t \in Terms : running[t] = 1

(***************************************************************************)
(* term_save(old) then term_restore(new): the global buffer goes to old's  *)
(* copy (when a terminal is displayed at all) and new's copy becomes the   *)
(* global buffer; the screen is copied to old's backing page, then new's   *)
(* backing page to the screen.                                             *)
(***************************************************************************)
\* Mutation: term_restore restores the cursor and screen but leaves key_buf.
SwapBuffersNoRestore(old, new) ==
  /\ saved_buf' = IF old \in Terms THEN [saved_buf EXCEPT ![old] = key_buf]
                                   ELSE saved_buf
  /\ UNCHANGED key_buf

SwapBuffers(old, new) ==
  LET s == IF old \in Terms THEN [saved_buf EXCEPT ![old] = key_buf] ELSE saved_buf
  IN  /\ saved_buf' = s
      /\ key_buf' = s[new]

\* The two memcpy calls of term_save and term_restore.
CopyPages(f, old, new) ==
  LET s == IF old \in Terms THEN [f EXCEPT ![old] = f[Screen]] ELSE f
  IN  [s EXCEPT ![Screen] = s[new]]

SwapScreens(old, new) ==
  /\ shows'  = CopyPages(shows, old, new)
  /\ latest' = CopyPages(latest, old, new)

\* Output of terminal t lands on page p.
Write(p, t) ==
  /\ shows'  = [shows EXCEPT ![p] = @ \cup {t}]
  /\ latest' = [q \in Pages |-> IF q = p THEN latest[q] \cup {t} ELSE latest[q] \ {t}]
  /\ wrote'  = wrote \cup {t}

Init ==
  /\ key_buf     = << >>
  /\ saved_buf   = [t \in Terms |-> << >>]
  /\ enter_state = [t \in Terms |-> 0]
  /\ running     = [t \in Terms |-> 0]
  /\ cur_term_id = NoTerm
  /\ now_term_id = 0
  /\ phase       = [t \in Terms |-> "none"]
  /\ read_from   = [t \in Terms |-> {}]
  /\ vmap        = NoPage
  /\ vid         = {}
  /\ shows       = [p \in Pages |-> {}]
  /\ latest      = [p \in Pages |-> {}]
  /\ wrote       = {}
  /\ wiped       = {}

(***************************************************************************)
(* The PIT handler: next slice.  A terminal not yet launched gets its      *)
(* shell through term_launch, which first returns when the terminal is     *)
(* already displayed; neither path touches the video mapping.  Otherwise   *)
(* the user video page is pointed at the next terminal's backing page, or  *)
(* at the screen when that terminal is displayed.                          *)
(***************************************************************************)
\* Mutation: the handler maps the screen whatever terminal runs next.
VideoPageAlwaysScreen(next, cur) == Screen

VideoPageFor(next, cur) == IF cur # next THEN next ELSE Screen

Tick ==
  LET next == (now_term_id + 1) % TERM_MAX
  IN  /\ now_term_id' = next
      /\ \/ /\ running[next] = 0 /\ next # cur_term_id
            /\ SwapBuffers(cur_term_id, next)
            /\ SwapScreens(cur_term_id, next)
            /\ cur_term_id' = next
            /\ running' = [running EXCEPT ![next] = 1]
            /\ phase' = [phase EXCEPT ![next] = "run"]
            /\ UNCHANGED << enter_state, read_from, vmap, vid, wrote, wiped >>
         \/ /\ running[next] = 0 /\ next = cur_term_id
            /\ UNCHANGED << keys, running, cur_term_id, phase, screen >>
         \/ /\ running[next] = 1
            /\ vmap' = VideoPageFor(next, cur_term_id)
            /\ UNCHANGED << keys, running, cur_term_id, phase, vid, shows, latest, wrote >>

(***************************************************************************)
(* keyboard_interrupt_handler.  It runs in whatever slice it interrupts.   *)
(***************************************************************************)
UserMayType == UserWaitsForBoot => BootDone

\* A printable key is stored while key_buf_idx < KEY_BUF_MAX - 1, which
\* keeps the last place for ENTER.
CharFits(idx) == idx < KEY_BUF_MAX - 1

\* The key is stored and echoed by putc on the screen.
TypeChar ==
  /\ UserMayType
  /\ cur_term_id \in Terms
  /\ CharFits(Len(key_buf))
  /\ key_buf' = Append(key_buf, cur_term_id)
  /\ Write(Screen, cur_term_id)
  /\ UNCHANGED << saved_buf, enter_state, running, cur_term_id, now_term_id,
                  phase, read_from, vmap, vid, wiped >>

\* Mutation: ENTER's bound test admits a full buffer.
EnterFitsOffByOne(idx) == idx <= KEY_BUF_MAX

\* ENTER is stored while key_buf_idx < KEY_BUF_MAX.
EnterFits(idx) == idx < KEY_BUF_MAX

\* ENTER: the newline stored and the displayed terminal's enter_state set.
Enter ==
  /\ UserMayType
  /\ cur_term_id \in Terms
  /\ EnterFits(Len(key_buf))
  /\ key_buf' = Append(key_buf, cur_term_id)
  /\ enter_state' = [enter_state EXCEPT ![cur_term_id] = 1]
  /\ UNCHANGED << saved_buf, running, cur_term_id, now_term_id, phase, read_from,
                  screen, wiped >>

Backspace ==
  /\ UserMayType
  /\ key_buf # << >>
  /\ key_buf' = SubSeq(key_buf, 1, Len(key_buf) - 1)
  /\ UNCHANGED << saved_buf, enter_state, running, cur_term_id, now_term_id,
                  phase, read_from, screen, wiped >>

\* Ctrl+C: buf_clear, then halt(1) on the process of the interrupted slice,
\* which clears the buffer again; that terminal's parent (or relaunched)
\* shell runs on.
CtrlC ==
  /\ UserMayType
  /\ running[now_term_id] = 1
  /\ key_buf' = << >>
  /\ phase' = [phase EXCEPT ![now_term_id] = "run"]
  /\ vid' = vid \ {now_term_id}
  /\ UNCHANGED << saved_buf, enter_state, running, cur_term_id, now_term_id,
                  read_from, vmap, shows, latest, wrote, wiped >>

\* clear(): every cell of VIDEO, the screen, is blanked.
clear ==
  /\ shows'  = [shows EXCEPT ![Screen] = {}]
  /\ latest' = [latest EXCEPT ![Screen] = {}]

\* Ctrl+L: clear() and the cursor to 0,0; the displayed terminal's output
\* is gone by the user's request.
CtrlL ==
  /\ UserMayType
  /\ clear
  /\ wrote' = wrote \ {cur_term_id}
  /\ UNCHANGED << keys, running, cur_term_id, now_term_id, phase, vmap, vid >>

\* The user switches only while no line waits to be read, and not in the
\* slice of a program that draws through vidmap (term_switch leaves the
\* user video page alone until the PIT handler remaps it).
Idle ==
  /\ \A t \in Terms : enter_state[t] = 0 /\ phase[t] # "copy"
  /\ now_term_id \notin vid

\* Alt+F1..F3: term_switch(cur_term_id, k).
Switch(k) ==
  /\ UserMayType
  /\ cur_term_id \in Terms
  /\ SwitchWhenIdle => Idle
  /\ SwapBuffers(cur_term_id, k)
  /\ SwapScreens(cur_term_id, k)
  /\ cur_term_id' = k
  /\ UNCHANGED << enter_state, running, now_term_id, phase, read_from, vmap, vid, wrote, wiped >>

(***************************************************************************)
(* The process of the running slice.                                       *)
(***************************************************************************)
\* A program halts (exit or exception): halt starts with buf_clear, which
\* empties the global buffer, the displayed terminal's.
ProgramExit ==
  /\ phase[now_term_id] = "run"
  /\ UserInOwnSlice => now_term_id = cur_term_id
  /\ key_buf' = << >>
  /\ wiped' = IF now_term_id # cur_term_id /\ key_buf # << >>
               THEN wiped \cup {cur_term_id} ELSE wiped
  /\ vid' = vid \ {now_term_id}
  /\ UNCHANGED << saved_buf, enter_state, running, cur_term_id, now_term_id,
                  phase, read_from, vmap, shows, latest, wrote >>

\* term_write: printf on the screen when the slice's terminal is displayed,
\* multi_printf into its backing page otherwise.
TermWrite(t) ==
  /\ now_term_id = t
  /\ phase[t] = "run"
  /\ Write(IF t = cur_term_id THEN Screen ELSE t, t)
  /\ UNCHANGED << keys, running, cur_term_id, now_term_id, phase, vmap, vid >>

\* vidmap: the user video page is mapped to VIDEO (0xB8000), whichever
\* terminal the caller belongs to.  A program that draws starts on the
\* displayed terminal unless the user switches freely.
Vidmap(t) ==
  /\ now_term_id = t
  /\ phase[t] = "run"
  /\ SwitchWhenIdle => t = cur_term_id
  /\ vmap' = Screen
  /\ vid' = vid \cup {t}
  /\ UNCHANGED << keys, running, cur_term_id, now_term_id, phase, shows, latest, wrote >>

\* A program writes through the pointer vidmap gave it.
Draw(t) ==
  /\ now_term_id = t
  /\ phase[t] = "run"
  /\ t \in vid
  /\ vmap \in Pages
  /\ Write(vmap, t)
  /\ UNCHANGED << keys, running, cur_term_id, now_term_id, phase, vmap, vid >>

\* term_read is called: sti, then spin on term[now_term_id].enter_state.
StartRead(t) ==
  /\ now_term_id = t
  /\ phase[t] = "run"
  /\ phase' = [phase EXCEPT ![t] = "wait"]
  /\ UNCHANGED << keys, running, cur_term_id, now_term_id, screen >>

\* Mutation: the spin tests the displayed terminal's enter_state.
WakeDisplayed(t) ==
  /\ now_term_id = t
  /\ phase[t] = "wait"
  /\ enter_state[cur_term_id] = 1
  /\ enter_state' = [enter_state EXCEPT ![cur_term_id] = 0]
  /\ phase' = [phase EXCEPT ![t] = "copy"]
  /\ UNCHANGED << key_buf, saved_buf, running, cur_term_id, now_term_id, read_from,
                  screen, wiped >>

\* The spin ends in t's slice once enter_state is set, and resets it.
Wake(t) ==
  /\ now_term_id = t
  /\ phase[t] = "wait"
  /\ enter_state[t] = 1
  /\ enter_state' = [enter_state EXCEPT ![t] = 0]
  /\ phase' = [phase EXCEPT ![t] = "copy"]
  /\ UNCHANGED << key_buf, saved_buf, running, cur_term_id, now_term_id, read_from,
                  screen, wiped >>

\* The global key_buf up to its first NUL (the caller asks for the whole
\* buffer) is copied out, and buf_clear empties it.
Copy(t) ==
  /\ now_term_id = t
  /\ phase[t] = "copy"
  /\ read_from' = [read_from EXCEPT ![t] = ToSet(key_buf)]
  /\ key_buf' = << >>
  /\ phase' = [phase EXCEPT ![t] = "run"]
  /\ UNCHANGED << saved_buf, enter_state, running, cur_term_id, now_term_id, screen, wiped >>

Next ==
  \/ Tick
  \/ TypeChar \/ Enter \/ Backspace \/ CtrlC \/ CtrlL
  \/ \E k \in Terms : Switch(k)
  \/ ProgramExit
  \/ \E t \in Terms : \/ StartRead(t) \/ Wake(t) \/ Copy(t)
                      \/ TermWrite(t) \/ Vidmap(t) \/ Draw(t)

\* The PIT fires periodically; within its slice a process that is past
\* its wait, or whose ENTER has come, gets the CPU long enough to move on.
Spec ==
  /\ Init /\ [][Next]_vars
  /\ WF_vars(Tick)
  /\ \A t \in Terms : SF_vars(Wake(t)) /\ SF_vars(Copy(t))

-----------------------------------------------------------------------------
TypeOK ==
  /\ key_buf \in BoundedSeq(Terms, KEY_BUF_MAX)
  /\ saved_buf \in [Terms -> BoundedSeq(Terms, KEY_BUF_MAX)]
  /\ enter_state \in [Terms -> {0, 1}]
  /\ running \in [Terms -> {0, 1}]
  /\ cur_term_id \in Terms \cup {NoTerm}
  /\ now_term_id \in Terms
  /\ phase \in [Terms -> Phases]
  /\ read_from \in [Terms -> SUBSET Terms]
  /\ vmap \in Pages \cup {NoPage}
  /\ vid \subseteq Terms
  /\ shows \in [Pages -> SUBSET Terms]
  /\ latest \in [Pages -> SUBSET Terms]
  /\ wrote \subseteq Terms
  /\ wiped \subseteq Terms

\* Every key a term_read hands to terminal t's process was typed while t
\* was on the display: no terminal reads another terminal's typing.
ReadOwnInput ==
  \A t \in Terms : read_from[t] \subseteq {t}

\* The screen shows only the displayed terminal's output, and a backing
\* page only its own terminal's.
ScreensOwnOutput ==
  /\ \A t \in Terms : shows[t] \subseteq {t}
  /\ shows[Screen] \subseteq {cur_term_id}

\* Terminals are isolated: input typed on one terminal reaches only its
\* processes (term_read, term_save/term_restore), and what a terminal's
\* processes write (term_write, a vidmap'ed page, the echo) appears only
\* on that terminal's screen or backing page; and no terminal's program
\* discards another terminal's pending keys when it halts.
TerminalIsolation == ReadOwnInput /\ ScreensOwnOutput /\ wiped = {}

\* Where terminal t's output must be for the user to see it: the screen
\* while t is displayed, its backing page otherwise.
Home(t) == IF t = cur_term_id THEN Screen ELSE t

\* No output is lost: each terminal's latest output is on its home page,
\* across every switch, save and restore and remapping of the user page.
OutputKept == \A t \in wrote : t \in latest[Home(t)]

\* A process waiting in term_read whose terminal has had ENTER pressed
\* eventually returns from the read (or is killed by Ctrl+C).
LineDelivered ==
  \A t \in Terms : (phase[t] = "wait" /\ enter_state[t] = 1) ~> phase[t] = "run"

=============================================================================
