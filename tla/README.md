# TLA+ models of the student-distrib kernel

This directory holds TLA+ models of the kernel in `src/student-distrib`, and
the TLC configurations that check them. The kernel is an x86 kernel with three
terminals, a round-robin scheduler driven by the PIT, and the system calls
execute, halt, open, close, read, write, getargs and vidmap.
`PROJECT.json` lists every component, run, mutant, mapped definition, finding
and hazard.

## The system

| Part | Source | State it owns |
|---|---|---|
| PCB registry | `system_call.c` `PCB_process_number`, `PCB_total_number`, `get_pcb_from_id` | `PCB_mask[3][4]`, one bit per slot; a cap of 6 processes |
| Process lifecycle | `system_call.c` `execute`, `halt` | PCBs below 8MB: `process_number`, `parent_process_number`, `parent_ksp/kbp`, `ksp/kbp`, `fds[8]`; the 128MB program window; `tss.esp0` |
| Descriptor calls | `system_call.c` `open`, `close`, `read`, `write` | `pcb->fds[i].flags`, optable |
| Scheduler | `scheduling.c` `pit_interrupt_handler` | `now_term_id` (whose slice runs), saved `ksp` |
| Terminals | `terminal.c` `term_init`, `term_launch`, `term_switch`, `term_read` | `term[t].cur_pcb_id` (slot of t's current process or -1), `running`, `enter_state`, saved key buffer; `cur_term_id` (displayed, 3 = none) |
| Keyboard | `keyboard.c` | global `key_buf`, `scancode_state`, `ctrl_state`, `alt_state`; ENTER sets `enter_state`; Alt+F1..F3 call `term_switch`, Ctrl+C calls `halt(1)` |
| Console | `lib.c` `putc`, `backspace`, `set_screen_cursor` | cursor `screen_x`, `screen_y`; the screen at VIDEO |
| Library routines | `lib.c` `printf`, `itoa`, `strrev`, `memset`, `memcpy`, `strncpy` | none: they work on the caller's buffers |
| Exceptions | `idt.c` | each handler raises the global `interrupt_halt_flag` and calls `halt(0)`; halt folds the flag into the status as 256 and clears it |
| Paging | `paging.c` | `page_dir`, `page_tab`, `page_video_tab`: the program window at 128MB, the video page at 132MB, the kernel's page, the screen and the backing pages |
| File system | `file_system.c` | read-only image; the global `num_file_read` listing cursor |
| PIC, console, mouse | `i8259.c`, `lib.c`, `mouse.c` | I/O |

How the parts interact:

- The PIT handler moves `now_term_id` to the next terminal. It saves esp/ebp
  into the PCB that `term[now].cur_pcb_id` designates. If the next terminal
  has no process, it calls `term_launch`, which displays that terminal and
  runs `execute("shell")` on the interrupted stack. Otherwise it maps the
  next process's slab, sets `tss.esp0`, and loads its saved esp/ebp.
- `execute` allocates in `PCB_mask[cur_term_id]` and records the new slot in
  `term[cur_term_id]`. That is the *displayed* terminal.
- `halt`, `open` and `close` find their PCB through `term[now_term_id]`.
  That is the terminal whose *slice* is running.
- The two agree only while the user's command takes effect in the displayed
  terminal's own slice.
- The keyboard handler can run in any slice. Ctrl+C halts that slice's
  process.
- `term_read` enables interrupts and busy-waits, so a shell waiting for a
  line is preempted like a user program.

Concurrency: system calls enter through an interrupt gate, so IF is clear. The
PIT and keyboard handlers call `cli()`. So every handler, and every system call
other than a blocking terminal read, is one atomic step. Where a program
blocks is a state, not a step.

## Modules

- `Kernel`: the PCB registry, execute, halt, open, close, the PIT handler and
  terminal launch and switch.
- `ProcessStacks`: the abstract specification `Kernel` refines.
- `Terminal`: key buffers, term_read, and the screen and backing pages
  (term_write, vidmap, the PIT's video mapping).
- `FileSystem`: name lookup, read_data, file_read and dir_read.
- `CommandLine`: execute's command parsing and getargs.
- `Keyboard`: the keyboard handler's switch: shift, caps-lock, Ctrl and Alt
  state, the row of `scancode_map` a key is read from, ENTER, BACKSPACE and
  Ctrl+L, with the echo on the console.
- `Console`: lib.c's cursor and screen cells: `putc`, `set_screen_cursor`,
  `enter`, `scroll_up`, `backspace` and `clear`.
- `Lib`: lib.c's `printf` (its format scan and number conversions, with
  `itoa`, `strrev` and `puts`), `memset`, `memcpy`, `strncpy`, and
  terminal.c's `term_write`, as operators.
- `Paging`: paging.c's page directory and tables entry by entry, its
  mapping functions, and the x86 translation of user and kernel accesses.
- `AddressSpace`: the abstract specification `Paging` refines.

Each has an `MC` module fixing its constants and one or more cfgs.

### `Kernel.tla`: registry, lifecycle, scheduler, terminal launch and switch

The state is kept in these variables:

- `PCB_mask` and `cur_pcb_id` (the `term[t]` pointer);
- `running`, `cur_term_id` and `now_term_id`;
- per process: `parent`, `parent_ksp`, `ksp` and `fd_flags`;
- `active`, the stack and code the CPU is executing;
- `page_prog`, the slab mapped at 128MB;
- `esp0`, the kernel stack `tss.esp0` selects;
- `interrupt_halt_flag`, the global of `idt.h`;
- `isr`, the lines the 8259 pair has in service. The PIT and keyboard
  handlers are delivered only while no line of equal or higher priority is
  in service (`Deliverable`), and `send_eoi` (`i8259.c`) takes a line out.
  Both handlers send their EOI before a call that may not return:
  `PitAck` is the PIT handler's first statement, and `KbdAck` comes before
  `halt(1)`.

A saved stack pointer is abstracted to the process on whose kernel stack it
points, or `Kernel`, the boot thread. A PCB address is abstracted to its
process number, or `Garbage` for an address outside the PCB array.
`get_pcb_from_id` keeps its 8-bit argument, so `-1 + 4t` wraps to 255. C's
`%` on a negative number is `CRem`.

Actions, with the code they model:

| Action | Code |
|---|---|
| `Init` | `term_init`, `pit_init`: pointers -1, `cur_term_id` 3, `now_term_id` 0 |
| `Tick` = `SaveContext`, then `term_launch` or `RestoreContext` | `pit_interrupt_handler` |
| `SysExecute`, `ExecuteOk`, `ExecuteFull`, `ParentNumber` | `execute`. Parsing and the loader reduce to "runs" or "fails with -1". A full registry is "returns 0". |
| `Halt(flag)` (with `FreeSlot`, `CRem`, `FlagAfterHalt`) | `halt`, entered with the flag as the caller left it. The flag is cleared once folded into the status (line 78); the status value itself is not modelled, as no property observes it. It includes the `close(i)` loop through the moved pointer and the relaunch of a root shell, and the return through a non-PCB when that relaunch is refused. |
| `SysHalt` | the halt system call |
| `def_interrupt`, `pf_handler` | the `idt_table` handlers and the page-fault handler: flag raised, then `halt(0)` |
| `CtrlC` | `halt(1)` at the end of `keyboard_interrupt_handler` (`keyboard.c:155`) |
| `Open`, `Close` | `open` (first free flag) and `close` (the fd range check and the flag check) |
| `Switch` | Alt+F1..F3: `term_switch(cur_term_id, k)` |

`term_launch`'s early returns are disjuncts inside `Tick`.

Two constants describe the user's timing, since the model cannot see which
line is typed where:

- `UserWaitsForBoot`: no command or Alt+F before every shell has booted.
- `UserInOwnSlice`: a command, exit or Ctrl+C takes effect in the slice of the
  displayed terminal.

With both TRUE the kernel is used the way its authors tested it. Relaxing
either one is what the violation runs do.

`MCKernel.tla` gives the sizes:

- The passing run `kernel` (`MCKernelDeep.cfg`) uses two terminals of three
  slots with a cap of five. Programs nest two deep, and the third slot of
  the second terminal meets the cap.
- The violation runs use three terminals of two slots with a cap of four.
  Every shell plus one program fits. A third terminal is what
  `get_pcb_from_id(-1 + 4t)` lands in.
- Every run keeps 3 descriptors: stdin, stdout and one that open and close
  move.
- Three terminals of three slots with a cap of five pass as well: 2,633,431
  distinct states in 3 minutes. That is too slow for a run repeated once per
  mutant.

The code's 3×4 with a cap of 6 is beyond TLC's reach. The behaviours the
properties are about already appear at these sizes: a chain of halts,
refusal at the cap, and every terminal booted. The code computes the parent
with a literal `% 4`; the model uses `MAX_PCB_MASK_LEN`, which is the same
value at the code's sizes.

Fairness: `WF_vars(Tick)`. The PIT fires periodically, and its handler
always runs to completion. Nothing is assumed of the user.

### `Terminal.tla`: the key buffer, term_read, and the screens

The state is kept in these variables:

- `key_buf`, the global buffer, and `saved_buf`, the per-terminal
  `term[t].key_buf`;
- `enter_state`, `running`, `cur_term_id` and `now_term_id`;
- `phase`: each terminal's current process is running, spinning in
  `term_read`, or past the spin and about to copy;
- `read_from`, the terminals whose keys the last read returned;
- `vmap`, the page the user video page (`page_video_tab[0]`) maps: the
  screen (0xB8000, `Screen`) or a terminal's backing page at 0xB9000 + t
  pages (the terminal's number);
- `vid`, the terminals whose program has called `vidmap` and draws;
- `shows[p]`, the terminals whose output is on page p, and `latest[p]`,
  the terminals whose most recent output is on p;
- `wrote`, the terminals that have written anything.

A page's content is abstracted to the terminals whose output it holds;
`term_save` and `term_restore` copy that set as their `memcpy` copies the
page (`CopyPages`).

A key is abstracted to the terminal on whose display it was typed; ENTER's
newline is a key like the others. Each action is one handler:

| Action | Code |
|---|---|
| `TypeChar` | a printable key, stored while `key_buf_idx < KEY_BUF_MAX - 1` (`CharFits`), and echoed on the screen by `putc` |
| `Enter` | the newline stored while `key_buf_idx < KEY_BUF_MAX` (`EnterFits`), and `term[cur_term_id].enter_state = 1` |
| `Backspace` | removes the last key |
| `CtrlC` | `buf_clear`, then `halt(1)` on the interrupted slice's process |
| `CtrlL` | `clear()` blanks the screen (the displayed terminal's output is gone at the user's request) |
| `Switch(k)` | Alt+F: `term_save(cur)` and `term_restore(k)` (`SwapBuffers`, `SwapScreens`) |
| `Tick` | next slice: `term_launch`'s save and restore at boot, or the user video page mapped to the next terminal's backing page, or to the screen when that terminal is displayed (`VideoPageFor`, `scheduling.c:87-95`) |
| `ProgramExit` | halt's `buf_clear` |
| `TermWrite(t)` | `term_write`: `printf` on the screen when t is displayed, `multi_printf` into t's backing page otherwise |
| `Vidmap(t)` | `vidmap`: `syscall_video_mapping(0xB8000)`, whatever t's terminal |
| `Draw(t)` | the program writes through the page `vmap` maps |
| `StartRead`, `Wake`, `Copy` | `term_read`: `sti`, the spin on `term[now_term_id].enter_state` and its reset, then the copy of `key_buf` and `buf_clear` |

Process management itself is left to `Kernel`.

`MCTerminal.tla` uses two terminals and a two-key buffer:

- Two terminals suffice for one to type on and one to read in.
- Two keys are a character and ENTER, so both bound checks are reached.

The user environment:

- `UserWaitsForBoot`: no key before every shell has booted.
- `SwitchWhenIdle`: Alt+F only while no ENTER is waiting to be read, and
  not in the slice of a program that draws through `vidmap`; a program
  calls `vidmap` only on the displayed terminal. Under it a drawing program
  is still switched away from and back to, and the PIT handler's choice of
  page is exercised both ways.
- `UserInOwnSlice`: programs exit only in the displayed terminal's slice,
  as in `Kernel`.

`wiped` is a history variable: the terminals whose pending keys a program
of another terminal discarded when it halted.

Fairness:

- `WF_vars(Tick)`, for the periodic PIT.
- `SF_vars(Wake(t))` and `SF_vars(Copy(t))`. A process past its wait, or
  whose ENTER has come, gets the CPU during its slice, and its slice comes
  back infinitely often. Its steps are enabled only in its slice, hence
  strong fairness.

### `FileSystem.tla`: name lookup, read_data, file_read and dir_read

The pure parts are operators, each a translation of its C function:

- `strlen` and `strncmp` (`lib.c`) work on C strings: a sequence of
  character codes, with NUL (0) past its end.
- `DentryBytes(d)` is `fs_dentry[d].filename` in memory. A 32-character name
  has no NUL, so the byte after it is the low byte of `filetype`.
- `NameMatches` and `read_dentry_by_name` follow the loop over all
  `MAX_FILE_DENTRIES` dentries: the two `strncmp` tests and the non-empty
  query.
- `ReadDataLoop` and `read_data` are RECURSIVE: one call per byte of the C
  loop. The block advance and its block-number check come before the
  end-of-file test, as in the code.

A data byte is abstracted to its place in the image,
`<< data block, index in block >>`. A read is therefore right exactly when
it returns the right places in order. `FileBytes` is the reference.

Variables:

- `num_file_read`, the global listing cursor;
- per reader, `pc`, `kind`, `ino` and `pos`: the descriptor and its
  `file_position`;
- `got`, what the reads have returned;
- `query` and `found`, the last name passed to `open` and the dentry it
  resolved to.

Actions:

| Action | Code |
|---|---|
| `OpenFile`, `OpenDir`, `OpenMissing` | `open`: `read_dentry_by_name`, then `file_open` or `dir_open` (which resets nothing), or -1 |
| `FileRead` | `file_read`: `read_data` from `file_position`, then position += result |
| `DirRead` | `dir_read`: the dentry at `num_file_read`, or 0 with the reset at the end |
| `Halt` | the program exits after its last read, or, with `MayKill`, is halted mid-way (Ctrl+C, an exception); `file_close` and `dir_close` do nothing |

Each system call runs with interrupts off (interrupt gate), so each is one
step; the two readers stand for processes of two terminals, whose calls the
scheduler interleaves.

`MCFileSystem.tla` is a small image:

- blocks of 2 bytes and names of at most 2 characters;
- the name "ab" is full length, and "a", a prefix of it, comes later;
- inode 0 has 4 bytes, a whole number of blocks, and inode 1 has 3;
- block lists are out of order, and one dentry is unused;
- every query of up to 3 characters;
- reads of 3 bytes, which cross block boundaries.

Character codes start above the filetype values. A real name is printable,
so the filetype byte after a full-length name never equals a character of a
query. With a code of 2 in the alphabet, "ab" followed by that code would
find "ab".

Environment:

- `LsExclusive`: one directory listing at a time.
- `MayKill`: a reader may be halted before its last read.

### `ProcessStacks.tla`: what the registry promises

This is the abstract specification of process management. It has no
PCBs, slots or stacks. Its state:

- `depth[t]`: how many programs terminal t's stack holds;
- `slice`: the terminal whose time slice is running;
- `on`: whether a program, rather than the boot thread, has the CPU.

Its actions:

- `NextSlice`: moves round the terminals. It may give an empty terminal its
  shell.
- `Spawn`: pushes a program on the slice's terminal.
- `Exit`: pops a program above the shell.

A program is pushed only while the terminal has a free slot and fewer than
`MAX_PROCS` programs run in all. `Kernel` instantiates it as `Abs` with
this mapping:

- `depth[t] <- cur_pcb_id[t] + 1`;
- `slice <- now_term_id`;
- `on <- active \in Pids`.

The `kernel` run checks `Abs!Spec`, with its weak fairness on `NextSlice`,
as the property `ProcessStacksRefined`. Descriptors are left out of the
abstraction: halt's `close(i)` loop acts on the parent's table (see
`halt_closes_parent_fds`), so a clean descriptor stack would not be refined.

### `CommandLine.tla`: execute's command parsing and getargs

`ParseStep` is one iteration of execute's loop over `command[i]`
(`system_call.c:134-164`). It uses `filename_flag`, `offset` and the two
stack buffers, in the order the code tests them:

- the long-name test `i > MAX_FILENAME_LENGTH && filename_flag == 0`
  (`NameTooLong`);
- skipping leading spaces;
- storing a name character;
- the spaces after the name (`EndName`);
- storing an argument character.

`ParseFrom` and `Parse` run the loop (RECURSIVE) from zeroed buffers.
A buffer is a sequence of its declared length. A write past the end does
not land in it: it sets `over`, which becomes the variable `overrun`.

`filename[]` has no room for a NUL when the name is full length. The name
that `read_dentry_by_name` sees (`LookupName`) then runs into the stack
byte after the buffer. That byte is undefined behaviour, taken from the
constant `StackByteAfterName`, and the runs take it to be NUL.

The loader's check (`system_call.c:166-171`) is `Loads`:

- the name must be in `Image`, the directory;
- `read_data` copies the file's first bytes into `headerbuf`
  (`HeaderAfterRead`);
- `strncmp` compares `MAGIC_NUM` bytes against `magicnumber`
  (`MagicMatches`).

A file is known only by its bytes at the signature's positions, each TRUE
when it matches. `headerbuf` is an uninitialised local, and `read_data`
stops at the file's size. So for a file shorter than the signature, the
remaining bytes are whatever the stack held. That is a member of
`StaleHeaderByte`. A previous `execute` at the same stack depth leaves the
signature there.

Actions:

| Action | Code |
|---|---|
| `Execute(c, after, stale)` | `execute(c)` up to the PCB: the parse, the lookup, the signature check, and `argbuf` = `fileargs` |
| `Getargs(nb)` | `getargs`: `strlen(argbuf)`, the refusal `arg_length <= 0 \|\| arg_length >= nbytes`, the copy |
| `Halt` | the program exits and the shell takes the next command |

The search of the directory is `FileSystem`'s job. Here the directory is a
function from names to files. `MCImage` holds four files:

- an executable;
- a two-byte file that begins like one;
- a file whose fourth signature byte differs;
- an executable with a full-length name.

The reference comes from spec.md 4.3 step 1 (`RefName`, `RefArgs`,
`RefFails`): drop the leading spaces; the first word is the name and the
rest, after its separating spaces, the arguments. An empty name, or one
longer than `MAX_FILENAME_LENGTH`, fails. So does a name with no file, or
a file that does not begin with the signature (step 2 and the image
contract).

`MCCommandLine.tla` uses names of at most 2 and arguments of at most 2,
standing for 32 and 100. Command lines of up to 5 characters over
`{sp, a, b}` reach:

- a full-length name, and names one and two characters too long;
- runs of leading, separating and trailing spaces;
- arguments one past the buffer.

`NBytes = {1, 2, 3}` reaches getargs's refusal of a buffer exactly the
arguments' length. Three sets of commands:

- `WellFormed`: no leading space, and a name and arguments that fit;
- `Indented`: the same, with leading spaces allowed;
- `AllCommands`: every command line.

### `Keyboard.tla` and `Console.tla`: the keyboard handler and its echo

`keyboard_interrupt_handler` (`keyboard.c:56-156`) keeps its modifier state
in three globals:

- `scancode_state`: bit 0 for shift and bit 1 for caps lock. It is the row
  of `scancode_map[4][59]`.
- `ctrl_state` and `alt_state`.

`Keyboard` has those variables, `key_buf` as a sequence, `enter_state` (the
displayed terminal's), and the console of `Console`. It also has the
environment and two history variables:

- `held`: the modifier keys the user holds.
- `caps_on`: caps lock as the user has toggled it.
- `typed`: the characters the user means by the keys pressed.
- `hidden`: how many of them a Ctrl+L has taken off the screen.

`Handler(code)` is the whole switch on one scancode:

- `CapsToggle` (`^= 0x02`), `ShiftPress` (`|= 0x01`, for either shift) and
  `ShiftRelease` (`&= 0xFE`, for either shift);
- the Ctrl and Alt flags;
- ENTER: `'\n'` stored, `enter_state` set and `enter()` while
  `key_buf_idx < KEY_BUF_MAX`;
- BACKSPACE: `backspace()` and one character dropped while the buffer is
  not empty;
- the default branch. It drops a key while Alt is down, and while Ctrl is
  down unless it is `l` (`clear()` and the cursor to 0,0). Otherwise a
  key that fits is stored and echoed with `putc`.

The actions are the user's events, each one scancode and one handler run:
`Press(k)`, `Release(k)`, `CapsLock`, `Type(idx)`, `CtrlL`, `EnterKey` and
`BackspaceKey`. The other side of the buffer has three actions:

- `ReadLine`: `term_read` once `enter_state` is set. It resets the flag and
  calls `buf_clear`.
- `Discard`: halt's `buf_clear`.
- `Output(ch)`: `term_write`'s `putc` of `#` or a newline.

Three columns of `scancode_map` are kept:

- `a` (0x1E), which both shift and caps lock change;
- `1` (0x02), which only shift changes;
- `l` (0x26), typed only with Ctrl held (without Ctrl it behaves like `a`).

The break codes of these keys are 59 or more, so the default branch drops
them. Left and right Ctrl and Alt are modelled as one key each.

`Console` keeps the cursor (`screen_x`, `screen_y`) and the screen's
characters (cell `y * NUM_COLS + x`). Its routines are operators from a
console value to the console they leave, so a handler composes them in the
order of its code:

- `set_screen_cursor`: a column past the row calls `enter()` and returns,
  and a row past the screen scrolls. It is `RECURSIVE` through `enter`.
- `putc`: `enter()` for a newline; otherwise the character is stored and the
  cursor advanced.
- `backspace`: one cell back, to the last column of the row above from
  column 0, nothing at (0,0); the cell is blanked.
- `scroll_up` and `clear`.

Attribute bytes and the cursor port writes are layout and are left out.

`MCInput` checks `Keyboard` (through `INSTANCE`) and `MCCommandLine` in one
run. The two share no variable. A behaviour of both is an interleaving of
one of each, so an invariant of one part holds in every combined state
exactly when it holds in every reachable state of that part. The run
therefore explores each part on its own (the variable `side`), in the sum of
the two state counts rather than their product. The keyboard instance has:

- `NUM_COLS = 3`, `NUM_ROWS = 2` and `KEY_BUF_MAX = 4`. A line of three
  characters wraps from any column and scrolls at the bottom. Like 127
  characters on 24 rows of 80, it never scrolls its first character off
  the screen (an `ASSUME`).
- `BothShifts = FALSE`, for the reason given under `cmd_synced`.
- `OutputBetweenLines = TRUE`: programs write only while no key is
  buffered. A program that writes while the user types mixes its output
  into the echoed line, which no property of the echo could allow.

### `Lib.tla`: number conversions and memory copies

`term_write` prints through `printf`, `term_save` and `term_restore` copy
pages with `memcpy`, paging clears its tables with `memset`, and `dir_read`
copies names with `strncpy`. `Lib` has no state. Each routine is an operator
that follows the code's loop, with a `RECURSIVE` operator for each loop
(the assembly loops of `memset` and `memcpy` included), and the result is
compared with a definition of what the routine computes:

| Operator | Code | Checked against |
|---|---|---|
| `itoa_loop`, `strrev_loop`, `itoa` | `itoa`'s digit loop with `newval % radix` and `newval /= radix`, and `strrev`'s swap loop | parsing the printed digits back, left to right, gives the word, with no leading zero |
| `printf_conv` | `%x`; `%#x` (itoa at `conv_buf[8]`, '0's down to index `strlen`); `%u`; `%d` with `'-'` and `itoa(-value)` | `%#x`: exactly 8 hex digits of the word. `%d` of a negative value: '-' and a magnitude m with m + w = 0 modulo 2^32 |
| `memset_top`, `memset_aligned`, `rep_stosl`, `memset_bottom`, `Pattern` | the byte head up to a 4-aligned `edi`, `rep stosl` of `c<<24 \| c<<16 \| c<<8 \| c`, the `n & 3` byte tail | exactly the n bytes from s hold `c & 0xFF` |
| `memcpy_top`, `memcpy_aligned`, `rep_movsl`, `memcpy_bottom` | the same split on the destination, with `rep movsl` | exactly the n bytes from dest hold the source's, for disjoint areas |
| `strncpy_copy`, `strncpy_pad` | copy while `src[i] != '\0' && i < n`, then NULs up to n | the name up to its first NUL or n bytes, then NULs |
| `printf_scan`, `SkipHash`, `format_char_switch`, `puts` | the `while (*buf != '\0')` loop: a '%' runs `format_char_switch` (any number of '#', then `%`, `x`, `u`, `d`, `c`, `s` or an unknown character that prints nothing), other characters are `putc`'d, and `buf++` follows either; `esp` moves past each argument a conversion uses | the meaning printf's header comment documents, computed over the format's tokens |
| `term_write_copy`, `term_write` | the copy of up to `length` bytes into `temp_buf`, stopping at a NUL, then `temp_buf[i] = '\0'` and `printf(temp_buf)` | the bytes before the first NUL among the `length`, and their number as the result |

TLC's integers cannot represent 2^31 or more, so a 32-bit word is the pair
of its 16-bit halves. `itoa`'s division is long division over the halves,
and negation is the two's complement of the pair, which is what `negl`
does. `INT_MIN`'s negation overflows `int32_t`, which is undefined in C;
the build's `negl` wraps it to itself, and `itoa`'s `uint32_t` parameter
reads that as 2^31. memset's register value is its four bytes.

The inputs are boundaries:

- for printf: 0, one and two digits, a carry into a new half, INT_MAX,
  INT_MIN and INT_MIN + 1, -10, and -1;
- for memset and memcpy: every alignment of both ends, and lengths 0 to 9
  (a head, up to two dwords, and a tail), in a 24-byte memory of distinct
  bytes, so that a stray store shows;
- for memset's value: 0, the 2 that paging passes, 255, 258, and -1;
- for printf's scan: every format of up to three tokens (a literal, `%%`,
  `%x`, `%#x`, `%u`, `%d`, `%c`, `%s`), with four distinct argument
  words, so that a conversion that reads the wrong word shows. `%s` points
  at strings that hold a '%', to show that `puts` prints them as they are;
- for term_write: every buffer of up to three bytes over `a`, `x`, `#` and
  NUL, with every length up to the buffer's;
- for strncpy: every 4-byte field over NUL and two letters with n = 3,
  into a buffer that holds garbage. That covers names with no NUL in the
  field, like a 32-character name in dir_read's.

`Lib`'s one variable, `call`, is the call a caller makes: the routine and
its arguments from the sets above. The routines keep nothing between
calls, so any call may follow any other (`LibCall`), and each property is
an invariant about the current call. `MCInput` checks them as a third
independent part of its run, beside the command line and the keyboard.

### `Paging.tla` and `AddressSpace.tla`: the page tables and what they promise

`AddressSpace` says what the rest of the kernel relies on. A user program
sees two windows. The 4MB page at 128MB shows one process's slab (8MB +
4MB * pid), and the 4KB page at 132MB shows the screen or a terminal's
backing page. Every other user access faults. The kernel sees those windows
too, plus its own 4MB page at 4MB, the screen at 0xB8000, and the backing
page 0xB9000 + 4KB * i of each terminal that `term_init` has mapped, each at
its own address. Its state is `window`, `video` and `backed`, and its
actions `MapProgram`, `MapVideo` and `MapBacking`. `UserView` and
`KernelView` give where an access lands.

`Paging` keeps the bits of the entries: bit 0 present, bit 2 user, bit 7
a 4MB page. The state holds only the entries written after the initial
fill:

- `page_dir`: the entries written since the `memset` that leaves 0x02020202
  (not present) in every entry;
- `page_tab`: the entries written since the loop `(i*0x1000) | 2`;
- `page_video_tab`: the entries written since boot; it is in .bss, so zero.

| Definition | Code |
|---|---|
| `Init` | `paging_init`: entry 0 = `page_tab \| 3`, entry 1 = `0x400000 \| 0x83`, `page_tab[0xB8] \|= 3` |
| `pcb_mapping` | `page_dir[va/4MB] = pa \| 0x87` |
| `syscall_video_mapping`, `scheduling_video_mapping` | entry 33 = `page_video_tab \| 7`, `page_video_tab[0] = pa \| 7` |
| `terminal_video_mapping` | entry 0 = `page_tab \| 3`, `page_tab[0xB9 + idx] = pa \| 3` |
| `Translate` | the MMU after `paging_init` sets CR4.PSE and CR0.PG: a 4MB page or a table entry; a user access needs the user bit at both levels |
| `MapProgram`, `Vidmap`, `SwitchVideo`, `TermInit` | the callers and their arguments: execute, halt and the PIT handler; vidmap's 0xB8000; the PIT's screen or backing page; `term_init`'s 0xB9000 + 4KB * i |

`flush` reloads CR3 at the end of every mapping function, so `Translate`
reads the tables as written. A stale TLB entry cannot outlive a call.

The refinement mapping reads `AddressSpace`'s state off the tables through
`Translate`:

- `window`: the pid whose slab the kernel reaches at 128MB. It is
  `NoProg` on a fault and `Stray` if the address is not a slab.
- `video`: what the kernel reaches at 132MB.
- `backed`: the terminals whose backing page the kernel reaches at its own
  address.

`Paging` is checked beside `FileSystem` in `MCFsPaging`. The two parts are
a disjoint union: each behaviour picks one side, so the run checks each as
a run of its own would. The instance has pids {0, 1, 5}, the three
terminals, and `page_tab` and `page_video_tab` at 0x402000 and 0x403000,
inside the kernel page. Every order of the mapping calls is explored.

The probes are:

- the null page;
- the screen, each backing page, and the page after the last;
- an address inside the kernel page, and the first slab at its physical
  address;
- both ends of the program page and of the video page;
- the page after the video page, and the directory entry after the
  program's.

## Properties and runs

Properties checked by the passing run `kernel` (`MCKernelDeep.cfg`):

- `TypeOK`.
- `RunningIsCurrent`: the running process is the one `now_term_id`'s pointer
  names, and the program window and `tss.esp0` select it.
- `TerminalChains`: each terminal's allocated slots are exactly
  `0..cur_pcb_id`, linked by `parent` down to a root shell. No leak and no
  orphan.
- `CallerIsParent`: a child's `parent_ksp` is its parent's stack, so halt
  returns to the right caller.
- `ContextIntegrity`: every terminal off the CPU has its current process's
  own saved stack in `ksp`.
- `AllTerminalsServed`: eventually every terminal hosts a process for good.
  This needs the PIT line to stay deliverable after a handler that irets
  into a new shell (hazard `scheduling.c:46`).
- `ProcessStacksRefined`: `Kernel` implements `ProcessStacks` (below).

A fault in a root
shell is bound by the same `UserInOwnSlice` assumption as its exit: a root
shell that halts in a background slice is the `background_root_halt` case.

It passes with 59,571 distinct states in about 10 seconds. Every action fires.

`terminal_synced` (`MCTerminalSynced.cfg`) checks `Terminal`:

- `TypeOK`.
- `TerminalIsolation`: every key a `term_read` returns to terminal t was
  typed on t (`ReadOwnInput`), and every page holds only its own
  terminal's output, the screen only the displayed terminal's
  (`ScreensOwnOutput`), and no program's halt discards another terminal's
  pending keys (`wiped` stays empty).
- `OutputKept`: each terminal's latest output is on its home page, the
  screen while it is displayed and its backing page otherwise, across
  switches, `term_save`/`term_restore` and the PIT remapping.
- `LineDelivered`: a read whose terminal has had ENTER eventually returns.

It passes with 140,045 distinct states in about 20 seconds.

`fs_synced` (`MCFsPaging.cfg`, `LsExclusive`, no kill) checks
`FileSystem` and `Paging`:

- `TypeOK`.
- `LookupIsExact`: every `open` resolves its name to exactly the dentry of
  that name. The reference is `NameRef`, plain sequence equality.
- `FileReadComplete`: a reader that reads to the end gets every byte once,
  in order.
- `ListingComplete`: a listing read to the end names every dentry once, in
  order.

- `MappingFaithful` (Paging): every probed user and kernel access lands
  where `AddressSpace`'s views say. A user program never reaches the
  kernel page, the screen or a backing page directly. That needs the user
  bit clear at one of the two levels, as `terminal_video_mapping`'s 0x3
  keeps it (its comment at `paging.c:93-94`, which speaks of 0x07, is
  stale).
- `AddressSpaceRefined` (Paging): each mapping call performs the
  `AddressSpace` step its caller asks for, never a stutter. `pcb_mapping`
  shows that pid's slab, vidmap the screen, the PIT handler the page it
  chose, and `term_init` backs its terminal. No call disturbs another
  window. This implies `Abs!Spec`. `page_video_tab` is one table shared by
  every process, so a background program's vidmap pointer is right only
  because each PIT switch rewrites its entry 0 (`paging.c:120`).

It passes with 9,817 distinct states (9,657 of the file system, 160 of
the tables) in about 20 seconds.

`cmd_synced` (`MCInput.cfg`, `WellFormed`) checks `CommandLine`,
`Keyboard` and `Lib` together:

- `TypeOK`.
- `ParseAsSpecified`: execute fails exactly when the reference does, and
  otherwise looks up the reference name. The reference refuses a missing
  file or a missing signature. The run takes stale `headerbuf` bytes not
  to match. If they can match, the property is violated in three steps:
  `execute("b")` starts the two-byte file (hazard `system_call.c:169`).
- `ArgsDelivered`: getargs returns exactly the typed arguments when they
  are non-empty and fit with their NUL, and -1 otherwise.
- `NoOverrun`: no write outside `filename[]` or `fileargs[]`.
- `KeyboardTypeOK`: `Keyboard`'s type invariant. `scancode_state` stays a
  row of `scancode_map`, and the cursor stays on the screen.
- `KeysAsTyped`: `key_buf` is what the user typed, for any sequence of
  modifier presses, releases and caps-lock toggles before each key.
  - It holds with one shift key held at a time.
  - With both shift keys allowed (`MCBothShifts = TRUE`), TLC finds it
    violated in five steps: press left shift, press right shift, release
    left shift, type `1`. The driver buffers `1` while right shift is still
    held. Both releases clear the one shared bit 0 (`keyboard.c:73-81`).
  - This is listed as a hazard rather than a run, because every run slot
    holds another finding.
- `EchoShown`: while no ENTER is pending, the cells just before the cursor
  show the buffered characters typed since the last Ctrl+L, in order. It
  is checked across `putc`'s wrap and scroll and `backspace`'s step to the
  row above.
  - Without the `enter_state = 0` guard it fails in five steps: shift,
    `!`, ENTER, BACKSPACE. BACKSPACE removes the `'\n'` but leaves
    `enter_state` set (`keyboard.c:102-108`). `backspace()` puts the cursor
    on the last column of the row above, two cells past the `!`, and
    `term_read` will return the line without its newline. This is listed
    as a hazard for the same reason.
- `PrintfNumbers`: `%x`, `%#x`, `%u` and `%d` print the argument word.
  `%#x` always prints eight digits, and `%d` prints INT_MIN correctly.
- `MemsetFills`: memset sets exactly its n bytes to the low byte of c.
- `MemcpyCopies`: memcpy copies exactly its n bytes at every alignment.
- `StrncpyPads`: strncpy copies up to the first NUL or n bytes and pads
  with NULs.
- `PrintfAsDocumented`: printf prints a format as its header comment
  documents it: each conversion takes the next argument word, in order.
- `TermWriteShows`: `term_write` shows the written bytes up to the first
  NUL and returns their number.
  - It holds for data without '%'. term_write hands the user's bytes to
    printf as the format (`terminal.c:192`).
  - With '%' among the written bytes, TLC finds it violated for the single
    byte `"%"`. printf's `buf++` after the trailing '%' steps over
    `temp_buf`'s NUL and prints the stack byte beyond it.
  - `"%d"` would print a stack word instead.
  - This is listed as a hazard, since no run slot is free.

It passes with 1,181,605 distinct states in about a minute: 363
command-line states, 1,354 library calls, and the rest the keyboard's.

Each of these properties is broken by a plausible bug in a mapped definition
(`PROJECT.json` "mutants"):

| Property | Mutant |
|---|---|
| `TypeOK` | the parent number stored without `% MAX_PCB_MASK_LEN` |
| `RunningIsCurrent` | no remap of the program window on a switch |
| `TerminalChains` | `PCB_process_number` takes the last free slot |
| `CallerIsParent` | halt leaking the slot bit |
| `ContextIntegrity` | the PIT handler not saving the context |
| `AllTerminalsServed` | `term_launch` not executing the shell |
| `AllTerminalsServed` | the PIT handler's EOI moved to its end, which a shell launch never reaches |
| `TypeOK` (Terminal) | ENTER's bound test `<=` instead of `<` |
| `TerminalIsolation` | `term_restore` not restoring `key_buf` |
| `OutputKept` | the PIT handler mapping the screen for every terminal |
| `LineDelivered` | the spin testing the displayed terminal's `enter_state` |
| `ProcessStacksRefined` | the system-wide cap test `>` where `+ 1 >` is meant |
| `TypeOK` (FileSystem) | `dir_read`'s bound `<=` instead of `<` |
| `LookupIsExact` | the `f2_length` comparison dropped, so a prefix matches |
| `FileReadComplete` | the end-of-file test `>` instead of `>=` |
| `ListingComplete` | `dir_read` not resetting its cursor at the end |
| `TypeOK` (CommandLine) | a C string that keeps its NUL |
| `ParseAsSpecified` | the long-name test on `offset >= 32` |
| `ParseAsSpecified` | the signature compared over `MAGIC_NUM - 1` bytes |
| `ArgsDelivered` | getargs refusing `arg_length + 1 >= nbytes` |
| `NoOverrun` | the end of the name not resetting `offset` |
| `KeyboardTypeOK` | caps lock toggled by `+= 2` instead of `^= 2` |
| `KeysAsTyped` | a shift release clearing bit 1 (`& 0xFD`) instead of bit 0 |
| `EchoShown` | backspace at column 0 going to column `NUM_COLS` of the row above |
| `PrintfNumbers` | `itoa`'s `newval` declared `int32_t`, so the loop stops on a word with the sign bit |
| `MemsetFills` | memset without `c &= 0xFF`, so the shifted copies of c overlap |
| `MemcpyCopies` | memcpy dropping the `n & 3` tail bytes |
| `StrncpyPads` | strncpy without its padding loop |
| `PrintfAsDocumented` | `case 'c'` without its `esp++` |
| `TermWriteShows` | term_write's copy loop without its break at a NUL |
| `MappingFaithful` | `terminal_video_mapping` writing 0x7, as its comment says, at both levels |
| `AddressSpaceRefined` | `scheduling_video_mapping` copied from vidmap, always mapping 0xB8000 |

Violation runs. TLC finds each property violated by what the code does:

- `halt_closes_parent_fds` (`OnlyCallerDescriptors`).
  - What happens: the shell opens fd 2, then runs a child. The child opens
    fd 2 and exits.
  - Result: halt's `close(i)` goes through the pointer it has just moved,
    and closes the *shell's* fd 2 (`system_call.c:49`).
- `background_execute` (`RunningIsCurrent`, `UserInOwnSlice = FALSE`).
  - What happens: a shell issues execute after Alt+F has displayed another
    terminal.
  - Result: the child is allocated in, and recorded by, the displayed
    terminal (`system_call.c:212`).
- `background_root_halt` (`TerminalChains`).
  - What happens: a root shell exits outside the displayed terminal's
    slice.
  - Result: it is relaunched in the displayed terminal, and its own pointer
    stays -1. The next halt in its slice goes through `get_pcb_from_id(-1 + 4t)`
    and frees another terminal's process (`system_call.c:57`, `:522`).
  - When the displayed terminal has no free slot, the relaunch is refused:
    execute returns 0 and halt goes on with parent -1. `parent_pcb` is then
    0x800000, the first program slab rather than a PCB, and the program
    window and `tss.esp0` are set from it (`Garbage`, `system_call.c:61-72`).
    `RunningIsCurrent` fails there; `background_execute`'s shorter trace is
    the one TLC reports. Under `UserInOwnSlice` the halting shell's own slot
    is free, so the passing run cannot reach this branch.
- `boot_switch` (`AllTerminalsServed`, `UserWaitsForBoot = FALSE`).
  - What happens: Alt+F displays a terminal before the PIT has launched it.
  - Result: `term_launch` returns at its "redundant check" in every slice of
    that terminal, and its shell never starts (`terminal.c:71`).

- `terminal_switch_race` (`TerminalIsolation`, `SwitchWhenIdle = FALSE`).
  `UserInOwnSlice = FALSE` too. Each case below breaks its own conjunct
  of the property under this cfg (`ReadOwnInput`, `ScreensOwnOutput`,
  `wiped = {}`; checked one at a time). TLC prints the trace of only one
  of them.
  - What happens: ENTER on terminal 0, Alt+F to terminal 1, then a key
    typed there.
  - Result: terminal 0's `term_read` wakes in its slice and copies terminal
    1's key out of the global `key_buf` (`terminal.c:164-172`). Terminal 0's
    own line stays in its saved buffer with its `enter_state` already
    consumed.
  - The same happens through `term_launch` when keys are typed during boot.
  - Output: a program of the background terminal calls `vidmap`
    (`system_call.c:433`), which maps the screen whatever its terminal, and
    draws on the displayed terminal's screen until the next tick. Alt+F in
    the slice of a program that draws has the same effect, since
    `term_switch` does not remap the page. spec.md section 5 says the saved
    buffers are never written concurrently with a program's own writes.
  - Exit: ENTER on terminal 0, then terminal 1's program halts in its
    slice. halt's `buf_clear()` (`system_call.c:33`) empties the global
    buffer, terminal 0's, and `enter_state[0]` stays set, so terminal 0's
    `term_read` returns an empty line. spec.md says halt clears the pending
    input of the halting terminal.
- `fs_listing` (`ListingComplete`, `LsExclusive = FALSE`, `MayKill = TRUE`).
  - What happens: ls runs in two terminals at once. The first reads all
    three dentries, and the second opens the directory before the first's
    final read.
  - Result: both advance the one global `num_file_read`
    (`file_system.c:235`). The second ls gets 0 at once, resets the cursor,
    and prints nothing.
  - The same cursor, reset only on a listing's final read
    (`file_system.c:244`), makes the next ls start mid-way after an ls is
    halted.
- `cmd_indented` (`ParseAsSpecified`, `Indented`).
  - What happens: the command `" bb "`: one leading space, a full-length
    name, a trailing space.
  - Result: execute returns -1. The long-name test compares the command
    index `i`, which counts the leading space, with 32
    (`system_call.c:137`). spec.md says leading spaces are collapsed, so
    `" <32-character name> x"` should run.
- `cmd_overrun` (`NoOverrun`, `AllCommands`).
  - What happens: the command `"aaa"`, a name one character too long.
  - Result: it passes the `i > 32` test and is written to `filename[32]`,
    past the end (`system_call.c:149`). Arguments longer than 100 run past
    `fileargs[]` the same way (`:162`), and the shell accepts lines of up
    to 127 characters.

## Not modelled, and the plan

Planned modules, in order:

1. **Terminal**, **Keyboard** and **Console** (done above). Still open:
   Ctrl+C's `halt(1)` in `Keyboard` itself (`Kernel` models it), the
   left and right Ctrl and Alt keys, which share one flag each, and
   `multi_putc`'s cursor for a background terminal. `multi_putc` writes its
   attribute at the displayed terminal's cursor (`lib.c:508`).
2. **Library algorithms** (done, in `Lib`). Still open:
   - `strcpy`, whose two calls copy a dentry's 32-byte name field.
   - `memmove`, which nothing calls. Its backward copy sets the direction
     flag with `std` and never clears it (`lib.c:731`).
   - `dir_read` ignores `nbytes` and always writes 33 bytes
     (`file_system.c:238`).
3. **CommandLine** (done above). Still open: the entry point read from
   `headerbuf[24..27]` (`system_call.c:257`), also stale for a file shorter
   than 28 bytes. The program it jumps to is out of the model's reach.
4. **FileSystem** (done above). Still open: running execute's lookup and
   signature check on `FileSystem`'s own image (`CommandLine` uses a
   directory function). A `read_data` of
   -1 moving `file_position` back needs a corrupt image.
5. **Video** (done, in `Terminal`). Still open: the cursor and the
   attribute byte `multi_putc` writes at the screen's cursor (`lib.c:508`).
6. **ProcessStacks** (done above). Still open: descriptors in the abstract
   stack. They would only refine once halt closes its own descriptors
   (`halt_closes_parent_fds`).
7. **Paging** (done, in `Paging` and `AddressSpace`). Not modelled: the
   read/write bit, which every entry the code writes sets;
   `page_schedule_tab`, which is declared and never used; and the TLB,
   since every mapping function ends with `flush`. `Kernel` and `Terminal`
   still use the abstractions `page_prog` and `vmap`. Driving `Paging`
   from their actions would multiply those runs' states for no new
   question.

Out of reach or of no interest to a model:

- `idt_init`, which only fills the table. It makes every gate an interrupt
  gate (`reserved3 = 0`), which is why the handlers are atomic actions.
- The PIC's masks and the mouse's port I/O. The masks are set once at boot, and every
  handler sends its EOI before anything that may not return, so handlers
  are atomic actions. `disable_irq` ORs in the complement of the line's bit
  (`i8259.c:63`), masking every other line, but nothing calls it;
- the attribute bytes and the cursor's port writes;
- `tests.c`;
- `rtc.c`, which is absent from the repository.
