------------------------------- MODULE Kernel -------------------------------
(***************************************************************************)
(* Process lifecycle and round-robin scheduling of the kernel in           *)
(* src/student-distrib: the PCB slot registry (PCB_mask), execute and halt *)
(* (system_call.c), the PIT handler (scheduling.c), terminal launch and    *)
(* switch (terminal.c), and the descriptor flags that open, close and halt *)
(* touch.  Every step is one atomic action: system calls enter through an  *)
(* interrupt gate (IF cleared), and the PIT and keyboard handlers run with *)
(* cli().                                                                  *)
(*                                                                         *)
(* Data abstraction: a PCB is named by its process number; a saved kernel  *)
(* stack pointer (parent_ksp, ksp) is abstracted to the process, or the    *)
(* boot thread Kernel, whose stack it points into; the program window      *)
(* (page_dir[32]) and tss.esp0 to the process whose slab and kernel stack  *)
(* they select.  Descriptors keep only their in-use flag.                  *)
(***************************************************************************)
EXTENDS Integers, FiniteSets, FiniteSetsExt

CONSTANTS
  TERM_MAX,          \* number of terminals (terminal.h: 3)
  MAX_PCB_MASK_LEN,  \* PCB slots per terminal (system_call.h: 4)
  MAX_PROCS,         \* system-wide cap checked in PCB_process_number (6)
  MAX_FILE_NUM,      \* descriptors per PCB (system_call.h: 8)
  Kernel,            \* the boot thread, whose stack the first PIT tick interrupts
  Garbage,           \* an address get_pcb_from_id computes outside the PCB array
  NoProc,            \* value of a PCB field never written
  UserWaitsForBoot,  \* TRUE: no command or Alt+F before every shell has booted
  UserInOwnSlice     \* TRUE: commands, exits and Ctrl+C land in the slice
                     \*       of the terminal on the display

ASSUME TERM_MAX \in Nat \ {0} /\ MAX_PCB_MASK_LEN \in Nat \ {0}
ASSUME MAX_PROCS \in Nat /\ MAX_FILE_NUM \in Nat /\ MAX_FILE_NUM >= 3
ASSUME UserWaitsForBoot \in BOOLEAN /\ UserInOwnSlice \in BOOLEAN

Terms == 0 .. TERM_MAX - 1
Slots == 0 .. MAX_PCB_MASK_LEN - 1
Pids  == 0 .. TERM_MAX * MAX_PCB_MASK_LEN - 1
Fds   == 0 .. MAX_FILE_NUM - 1
NoTerm == TERM_MAX   \* term_init: cur_term_id = 3, no terminal displayed
PIT_IRQ      == 0    \* scheduling.h
KEYBOARD_IRQ == 1    \* keyboard.h

VARIABLES
  PCB_mask,     \* PCB_mask[t][i] = 1 iff slot i of terminal t is allocated
  cur_pcb_id,   \* term[t].cur_pcb_id: slot of t's current process, or -1
  running,      \* term[t].running: t has been launched
  cur_term_id,  \* terminal on the physical display
  now_term_id,  \* terminal whose time slice the CPU is in
  parent,       \* pcb->parent_process_number
  parent_ksp,   \* pcb->parent_ksp/kbp: whose kernel stack halt returns to
  ksp,          \* pcb->ksp/kbp: whose kernel stack the PIT handler saved
  fd_flags,     \* pcb->fds[i].flags
  active,       \* whose stack and code the CPU is executing
  page_prog,    \* slab mapped at the 128MB program window (page_dir[32])
  esp0,         \* kernel stack selected by tss.esp0
  interrupt_halt_flag, \* idt.h: set by the exception handlers for halt
  isr           \* the 8259 pair's in-service lines, as a set of IRQs

vars == << PCB_mask, cur_pcb_id, running, cur_term_id, now_term_id, parent,
           parent_ksp, ksp, fd_flags, active, page_prog, esp0,
           interrupt_halt_flag, isr >>

(***************************************************************************)
(* Helpers.                                                                *)
(***************************************************************************)

\* Mutation: the parent's number stored without the reduction to a slot.
CRemGlobal(a, b) == a

\* C's % on a negative int8 operand truncates toward zero: -1 % 4 = -1.
CRem(a, b) == IF a < 0 THEN -((-a) % b) ELSE a % b

\* get_pcb_from_id(uint8_t id): the argument is truncated to 8 bits, and
\* an id outside the PCB array lands on memory that is no PCB.
get_pcb_from_id(id) == IF id % 256 \in Pids THEN id % 256 ELSE Garbage

\* The PCB the per-terminal pointer of terminal t designates.
TermPcb(t) == get_pcb_from_id(cur_pcb_id[t] + t * MAX_PCB_MASK_LEN)

PCB_total_number(mask) ==
  Quantify(Terms \X Slots, LAMBDA ts : mask[ts[1]][ts[2]] # 0)

\* Mutation: the search takes the last free slot instead of the first.
PCB_process_number_last(mask, ct) ==
  LET free == { i \in Slots : mask[ct][i] = 0 }
  IN  IF free = {} \/ PCB_total_number(mask) + 1 > MAX_PROCS
        THEN -1
        ELSE Max(free) + ct * MAX_PCB_MASK_LEN

\* Mutation: the system-wide cap admits one process too many.
PCB_process_number_cap(mask, ct) ==
  LET free == { i \in Slots : mask[ct][i] = 0 }
  IN  IF free = {} \/ PCB_total_number(mask) > MAX_PROCS
        THEN -1
        ELSE Min(free) + ct * MAX_PCB_MASK_LEN

\* PCB_process_number(): first free slot of terminal ct, refused (and
\* unmarked again) when the system-wide total would exceed MAX_PROCS.
PCB_process_number(mask, ct) ==
  LET free == { i \in Slots : mask[ct][i] = 0 }
  IN  IF free = {} \/ PCB_total_number(mask) + 1 > MAX_PROCS
        THEN -1
        ELSE Min(free) + ct * MAX_PCB_MASK_LEN

LiveIn(mask) == { p \in Pids : mask[p \div MAX_PCB_MASK_LEN][p % MAX_PCB_MASK_LEN] = 1 }
Live == LiveIn(PCB_mask)

\* Mutation: halt forgets to clear the slot's bit.
FreeSlotLeak(mask, p) == mask

\* halt: PCB_mask[number / MAX_PCB_MASK_LEN][number % MAX_PCB_MASK_LEN] = 0.
FreeSlot(mask, p) ==
  [mask EXCEPT ![p \div MAX_PCB_MASK_LEN][p % MAX_PCB_MASK_LEN] = 0]

\* Mutation: every new process is made the child of the slot below it,
\* a terminal's first one included.
ParentNumberAlwaysPrev(n) == n - 1

\* execute: parent_process_number is -1 for the first slot of a terminal
\* and the slot below it otherwise.  (The code tests PCB_number % 4, which
\* is PCB_number % MAX_PCB_MASK_LEN at the code's sizes.)
ParentNumber(n) == IF n % MAX_PCB_MASK_LEN = 0 THEN -1 ELSE n - 1

(***************************************************************************)
(* execute, from "Get the process free number" to the iret into user mode, *)
(* for a program whose name and magic number check out.  ct is            *)
(* cur_term_id at the call, self the process whose kernel stack the call  *)
(* runs on (its esp/ebp become pcb->parent_ksp/kbp); mask, cpi and fds    *)
(* are PCB_mask, the terminals' cur_pcb_id and the descriptor flags as    *)
(* the caller left them.  Loading cannot fail for an image                *)
(* read_dentry_by_name has just found.                                    *)
(***************************************************************************)
ExecuteOk(ct, self, mask, cpi, fds) ==
  LET n == PCB_process_number(mask, ct)
      i == n % MAX_PCB_MASK_LEN
  IN  /\ n # -1
      /\ PCB_mask'   = [mask EXCEPT ![ct][i] = 1]
      /\ page_prog'  = n
      /\ parent_ksp' = [parent_ksp EXCEPT ![n] = self]
      /\ cur_pcb_id' = [cpi EXCEPT ![ct] = i]
      /\ parent'     = [parent EXCEPT ![n] = ParentNumber(n)]
      /\ fd_flags'   = [fds EXCEPT ![n] = [f \in Fds |-> IF f < 2 THEN 1 ELSE 0]]
      /\ esp0'       = n
      /\ active'     = n
      /\ interrupt_halt_flag' = 0     \* "program is operating normally"

\* execute with no free slot: prints and returns 0, nothing changes.
ExecuteFull(ct, mask) == PCB_process_number(mask, ct) = -1

(***************************************************************************)
(* Initial state: term_init (every cur_pcb_id -1, cur_term_id 3), pit_init *)
(* (now_term_id 0), PCB_mask all 0; the boot thread runs.                 *)
(***************************************************************************)
Init ==
  /\ PCB_mask    = [t \in Terms |-> [i \in Slots |-> 0]]
  /\ cur_pcb_id  = [t \in Terms |-> -1]
  /\ running     = [t \in Terms |-> 0]
  /\ cur_term_id = NoTerm
  /\ now_term_id = 0
  /\ parent      = [p \in Pids |-> NoProc]
  /\ parent_ksp  = [p \in Pids |-> NoProc]
  /\ ksp         = [p \in Pids |-> NoProc]
  /\ fd_flags    = [p \in Pids |-> [f \in Fds |-> 0]]
  /\ active      = Kernel
  /\ page_prog   = NoProc
  /\ esp0        = NoProc
  /\ interrupt_halt_flag = 0
  /\ isr         = {}

(***************************************************************************)
(* The 8259 pair in fully nested mode: a line is delivered while neither  *)
(* it nor a line of higher priority (lower number) is in service; the     *)
(* CPU's acknowledge puts it in service, and a specific EOI takes it out. *)
(***************************************************************************)
Deliverable(irq) == \A l \in isr : l > irq

\* send_eoi(irq_num): a specific EOI to the master, or to the slave and
\* then, for the cascade line 2, to the master.
send_eoi(in, irq) ==
  CASE irq > 15 \/ irq < 0 -> in
    [] irq < 8             -> in \ {irq}
    [] OTHER               -> in \ {irq, 2}

\* Mutation: the EOI at the end of the handler, which it never reaches when
\* term_launch's execute irets into the new shell.
PitAckLast(returns) ==
  IF returns THEN send_eoi(isr \cup {PIT_IRQ}, PIT_IRQ) ELSE isr \cup {PIT_IRQ}

\* The PIT handler's first statement is send_eoi(PIT_IRQ), so the line is
\* out of service whether or not the handler returns.
PitAck(returns) == send_eoi(isr \cup {PIT_IRQ}, PIT_IRQ)

\* keyboard_interrupt_handler sends its EOI before the halt(1) that does
\* not come back.
KbdAck == send_eoi(isr \cup {KEYBOARD_IRQ}, KEYBOARD_IRQ)

(***************************************************************************)
(* pit_interrupt_handler, with term_launch and the execute it calls.      *)
(***************************************************************************)
\* Mutation: the handler stores nothing into the outgoing PCB.
SaveContextDropped(p, who) == ksp

\* "Save ebp and esp of current process": only when now_term_id's pointer
\* names a PCB (it is -1 before the terminal's shell exists).
SaveContext(p, who) == IF p \in Pids THEN [ksp EXCEPT ![p] = who] ELSE ksp

\* Mutation: the boot branch marks the terminal running and displays it,
\* but its execute("shell") never lands.
term_launch_noexec(id) ==
  \/ /\ id = cur_term_id
     /\ UNCHANGED << PCB_mask, cur_pcb_id, running, cur_term_id, parent,
                     parent_ksp, fd_flags, active, page_prog, esp0,
                     interrupt_halt_flag >>
  \/ /\ id # cur_term_id /\ running[id] = 1
     /\ cur_term_id' = id
     /\ UNCHANGED << PCB_mask, cur_pcb_id, running, parent,
                     parent_ksp, fd_flags, active, page_prog, esp0,
                     interrupt_halt_flag >>
  \/ /\ id # cur_term_id /\ running[id] = 0
     /\ cur_term_id' = id
     /\ running' = [running EXCEPT ![id] = 1]
     /\ UNCHANGED << PCB_mask, cur_pcb_id, parent, parent_ksp,
                     fd_flags, active, page_prog, esp0, interrupt_halt_flag >>

\* term_launch(id): returns at once when id is displayed ("redundant
\* check"), switches the display when id already runs, and otherwise
\* displays id, marks it running and executes its shell on the stack of
\* whatever the PIT interrupted.
term_launch(id) ==
  \/ /\ id = cur_term_id
     /\ UNCHANGED << PCB_mask, cur_pcb_id, running, cur_term_id, parent,
                     parent_ksp, fd_flags, active, page_prog, esp0,
                     interrupt_halt_flag >>
  \/ /\ id # cur_term_id /\ running[id] = 1            \* term_switch
     /\ cur_term_id' = id
     /\ UNCHANGED << PCB_mask, cur_pcb_id, running, parent,
                     parent_ksp, fd_flags, active, page_prog, esp0,
                     interrupt_halt_flag >>
  \/ /\ id # cur_term_id /\ running[id] = 0
     /\ cur_term_id' = id
     /\ running' = [running EXCEPT ![id] = 1]
     /\ \/ ExecuteOk(id, active, PCB_mask, cur_pcb_id, fd_flags)
        \/ /\ ExecuteFull(id, PCB_mask)
           /\ UNCHANGED << PCB_mask, cur_pcb_id, parent, parent_ksp,
                           fd_flags, active, page_prog, esp0,
                           interrupt_halt_flag >>

\* Mutation: the program window is not remapped to the incoming process.
RestoreContextNoRemap(np, saved) ==
  /\ esp0' = np
  /\ active' = saved[np]
  /\ UNCHANGED page_prog

\* pcb_mapping to the incoming process's slab, tss.esp0 to its kernel
\* stack, and esp/ebp loaded from its PCB.
RestoreContext(np, saved) ==
  /\ page_prog' = np
  /\ esp0' = np
  /\ active' = saved[np]

Tick ==
  LET next   == (now_term_id + 1) % TERM_MAX
      saved  == SaveContext(TermPcb(now_term_id), active)
  IN  /\ active \in Pids \cup {Kernel}
      /\ Deliverable(PIT_IRQ)
      /\ now_term_id' = next
      /\ ksp' = saved
      /\ IF cur_pcb_id[next] = -1
           THEN term_launch(next)
           ELSE /\ RestoreContext(TermPcb(next), saved)
                /\ UNCHANGED << PCB_mask, cur_pcb_id, running, cur_term_id,
                                parent, parent_ksp, fd_flags,
                                interrupt_halt_flag >>
      /\ isr' = PitAck(cur_pcb_id' = cur_pcb_id)   \* did the handler return?

(***************************************************************************)
(* The execute system call issued by the running program.                 *)
(***************************************************************************)
\* The environment: how the user's timing relates to the PIT slices.  A
\* shell issues execute only for a line typed on the display, and a root
\* shell halts only on "exit" or Ctrl+C typed there.
BootDone == \A t \in Terms : running[t] = 1
UserTerminalOnCpu ==
  /\ UserWaitsForBoot => BootDone
  /\ UserInOwnSlice => now_term_id = cur_term_id

SysExecute ==
  /\ active \in Pids
  /\ UNCHANGED isr
  /\ UserTerminalOnCpu
  /\ \/ /\ ExecuteOk(cur_term_id, active, PCB_mask, cur_pcb_id, fd_flags)
        /\ UNCHANGED << running, cur_term_id, now_term_id, ksp >>
     \/ /\ ExecuteFull(cur_term_id, PCB_mask)      \* returns 0
        /\ UNCHANGED vars
     \/ UNCHANGED vars    \* bad name, missing file or bad magic: returns -1

(***************************************************************************)
(* halt, entered by the halt system call, by an exception handler (idt.c: *)
(* interrupt_halt_flag = 1; halt(0)) or by Ctrl+C (keyboard.c: halt(1)).  *)
(* They differ in the status and in the flag halt finds on entry.  halt   *)
(* works on the PCB of now_term_id's pointer,                              *)
(* moves that pointer to the parent, frees the slot, then closes each     *)
(* open descriptor by calling close(i), which looks the PCB up again      *)
(* through the pointer it has just moved.  A halting root shell is        *)
(* replaced by execute("shell") on its own stack; otherwise the parent's  *)
(* slab and kernel stack are selected and control returns to the stack    *)
(* saved in parent_ksp, with eax the status (a uint8_t), bit 8 set when   *)
(* the flag was up.                                                        *)
(***************************************************************************)
\* Line 78: the flag is cleared once halt has folded it into the status
\* (lines 74-77) it hands back.
FlagAfterHalt(flag) == 0

Halt(flag) ==
  LET t      == now_term_id
      cur    == TermPcb(t)
      par    == parent[cur]
      newCpi == [cur_pcb_id EXCEPT ![t] = CRem(par, MAX_PCB_MASK_LEN)]
      mask   == FreeSlot(PCB_mask, cur)
      closer == get_pcb_from_id(newCpi[t] + t * MAX_PCB_MASK_LEN)
      opened == { f \in Fds : f >= 2 /\ fd_flags[cur][f] = 1 }
      own    == [fd_flags EXCEPT ![cur] = [f \in Fds |-> 0]]
      fds    == IF closer \in Pids
                  THEN [own EXCEPT ![closer] =
                          [f \in Fds |-> IF f \in opened THEN 0 ELSE own[closer][f]]]
                  ELSE own
      \* pcb_mapping and tss.esp0 from parent_pcb, then leave/ret onto
      \* parent_ksp.
      ReturnTo(pp) ==
        /\ PCB_mask'   = mask
        /\ cur_pcb_id' = newCpi
        /\ fd_flags'   = fds
        /\ page_prog'  = pp
        /\ esp0'       = pp
        /\ active'     = parent_ksp[cur]
        /\ interrupt_halt_flag' = FlagAfterHalt(flag)
        /\ UNCHANGED << parent, parent_ksp >>
  IN  /\ active \in Pids
      /\ cur \in Pids                          \* else halt reads a non-PCB
      /\ par # NoProc                          \* or a PCB never initialised
      /\ par = -1 => UserTerminalOnCpu
      /\ \/ /\ par = -1                        \* relaunch; execute never returns
            /\ ExecuteOk(cur_term_id, cur, mask, newCpi, fds)
         \/ /\ par = -1                        \* relaunch refused: execute returns 0
            /\ ExecuteFull(cur_term_id, mask)
            /\ ReturnTo(Garbage)               \* the "parent" at 0x800000 is no PCB
         \/ /\ par # -1
            /\ ReturnTo(par)
      /\ UNCHANGED << running, cur_term_id, now_term_id, ksp >>

\* The halt system call of the running program.
SysHalt ==
  /\ UNCHANGED isr
  /\ Halt(interrupt_halt_flag)

\* A fault in the running program.  The handlers the idt_table macro
\* defines (DE, DB, NMI, ...) set interrupt_halt_flag and call halt(0);
\* halt never returns to them.
def_interrupt == Halt(1) /\ UNCHANGED isr

\* The page-fault handler does the same after printing cr2 and the code.
pf_handler == Halt(1) /\ UNCHANGED isr

\* Ctrl+C: keyboard_interrupt_handler calls halt(1) after its EOI, on
\* whatever process the keyboard interrupt has landed in.
CtrlC ==
  /\ Deliverable(KEYBOARD_IRQ)
  /\ isr' = KbdAck
  /\ UserTerminalOnCpu
  /\ Halt(interrupt_halt_flag)

(***************************************************************************)
(* open and close, on the PCB of now_term_id's pointer.  open takes the   *)
(* first descriptor whose flag is 0; every file type's open returns 0.    *)
(***************************************************************************)
Open ==
  LET cur  == TermPcb(now_term_id)
      free == { f \in Fds : fd_flags[cur][f] = 0 }
  IN  /\ active \in Pids
      /\ cur \in Pids
      /\ UNCHANGED isr
      /\ \/ /\ free # {}
            /\ fd_flags' = [fd_flags EXCEPT ![cur][Min(free)] = 1]
            /\ UNCHANGED << PCB_mask, cur_pcb_id, running, cur_term_id, now_term_id,
                            parent, parent_ksp, ksp, active, page_prog, esp0,
                  interrupt_halt_flag >>
         \/ UNCHANGED vars   \* name not found, or no free descriptor: -1

\* close(fd): -1 for fd outside 2..MAX_FILE_NUM-1 or a closed fd.
Close ==
  LET cur == TermPcb(now_term_id)
  IN  /\ active \in Pids
      /\ cur \in Pids
      /\ UNCHANGED isr
      /\ \E fd \in 0 .. MAX_FILE_NUM :
           IF fd >= MAX_FILE_NUM \/ fd < 2 \/ fd_flags[cur][fd] = 0
             THEN UNCHANGED vars
             ELSE /\ fd_flags' = [fd_flags EXCEPT ![cur][fd] = 0]
                  /\ UNCHANGED << PCB_mask, cur_pcb_id, running, cur_term_id,
                                  now_term_id, parent, parent_ksp, ksp, active,
                                  page_prog, esp0,
                                  interrupt_halt_flag >>

(***************************************************************************)
(* Alt+F1..F3 in keyboard_interrupt_handler: term_switch(cur_term_id, k). *)
(* term_save indexes term[cur_term_id], so the switch needs a displayed   *)
(* terminal.                                                               *)
(***************************************************************************)
Switch ==
  /\ Deliverable(KEYBOARD_IRQ)
  /\ isr' = KbdAck
  /\ cur_term_id \in Terms
  /\ UserWaitsForBoot => BootDone
  /\ \E k \in Terms : cur_term_id' = k
  /\ UNCHANGED << PCB_mask, cur_pcb_id, running, now_term_id, parent,
                  parent_ksp, ksp, fd_flags, active, page_prog, esp0,
                  interrupt_halt_flag >>

Next ==
  \/ Tick
  \/ SysExecute
  \/ SysHalt
  \/ def_interrupt
  \/ pf_handler
  \/ CtrlC
  \/ Open
  \/ Close
  \/ Switch

\* The PIT fires periodically and its handler always runs to completion.
Spec == Init /\ [][Next]_vars /\ WF_vars(Tick)

-----------------------------------------------------------------------------
(***************************************************************************)
(* Properties.                                                             *)
(***************************************************************************)

TypeOK ==
  /\ PCB_mask \in [Terms -> [Slots -> {0, 1}]]
  /\ cur_pcb_id \in [Terms -> -1 .. MAX_PCB_MASK_LEN - 1]
  /\ running \in [Terms -> {0, 1}]
  /\ cur_term_id \in Terms \cup {NoTerm}
  /\ now_term_id \in Terms
  /\ parent \in [Pids -> Pids \cup {-1, NoProc}]
  /\ parent_ksp \in [Pids -> Pids \cup {Kernel, NoProc}]
  /\ ksp \in [Pids -> Pids \cup {Kernel, NoProc}]
  /\ fd_flags \in [Pids -> [Fds -> {0, 1}]]
  /\ active \in Pids \cup {Kernel, NoProc}
  /\ page_prog \in Pids \cup {NoProc, Garbage}
  /\ esp0 \in Pids \cup {NoProc, Garbage}
  /\ interrupt_halt_flag \in {0, 1}
  /\ isr \subseteq 0 .. 15

\* The program on the CPU is the one now_term_id's pointer names, so read,
\* write, open, close and halt (which all look the PCB up through that
\* pointer) act on the caller; and the program window and tss.esp0 select
\* its own slab and kernel stack.
RunningIsCurrent ==
  active \in Pids =>
    /\ active = TermPcb(now_term_id)
    /\ page_prog = active
    /\ esp0 = active

\* Each terminal's allocated slots are exactly 0..cur_pcb_id, each one the
\* child of the slot below it and slot 0 a root shell: execute and halt keep
\* the registry a stack per terminal, so no slot leaks and no process is
\* orphaned.
TerminalChains ==
  \A t \in Terms :
    LET used == { i \in Slots : PCB_mask[t][i] = 1 }
    IN  /\ used = 0 .. cur_pcb_id[t]
        /\ \A i \in used :
             parent[t * MAX_PCB_MASK_LEN + i] =
               IF i = 0 THEN -1 ELSE t * MAX_PCB_MASK_LEN + i - 1

\* halt of a live child returns (through parent_ksp) onto the kernel stack
\* of the process it names as parent, whose slab it maps.
CallerIsParent ==
  \A p \in Live : parent[p] # -1 => parent_ksp[p] = parent[p]

\* For every terminal off the CPU, the context the PIT handler will restore
\* for its current process is that process's own saved stack.
ContextIntegrity ==
  \A t \in Terms \ {now_term_id} :
    cur_pcb_id[t] # -1 => ksp[TermPcb(t)] = TermPcb(t)

\* Under a periodic PIT, every terminal eventually hosts a process for
\* good: term_launch starts each shell once, a halting root shell is
\* replaced at once, and the PIT handler's EOI keeps IRQ0 deliverable
\* even when the handler irets into a new shell instead of returning.
AllTerminalsServed == <>[](\A t \in Terms : cur_pcb_id[t] # -1)

\* A step changes the descriptor table of no allocated process other than
\* the one now_term_id's pointer names (the caller): halt closes the
\* halting process's descriptors and no one else's.
OnlyCallerDescriptors ==
  [][\A q \in Live \cap LiveIn(PCB_mask') :
        fd_flags'[q] # fd_flags[q] => q = TermPcb(now_term_id)]_vars

-----------------------------------------------------------------------------
(***************************************************************************)
(* Refinement: the registry, the per-terminal pointers and the PIT        *)
(* handler implement ProcessStacks.  Terminal t's stack is as deep as     *)
(* slots 0..cur_pcb_id[t]; the slice is now_term_id; a program is on the  *)
(* CPU when active is a process rather than the boot thread.              *)
(***************************************************************************)
Abs == INSTANCE ProcessStacks
         WITH depth <- [t \in Terms |-> cur_pcb_id[t] + 1],
              slice <- now_term_id,
              on    <- active \in Pids

\* Every step of execute, halt, open, close, Alt+F and the PIT handler is a
\* step of ProcessStacks or leaves it unchanged: execute pushes one program
\* on the caller's own terminal only while the slot and the system-wide
\* cap allow it, halt pops the caller's terminal only, a tick moves to the
\* next terminal and launches at most its shell, and the slices keep
\* turning.
ProcessStacksRefined == Abs!Spec

=============================================================================
