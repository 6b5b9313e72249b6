------------------------------- MODULE Paging -------------------------------
(***************************************************************************)
(* paging.c: the page directory and the two page tables the kernel writes, *)
(* entry by entry, and the x86 two-level translation (CR4.PSE set, so a    *)
(* directory entry with bit 7 is a 4MB page) that the MMU applies to them. *)
(*                                                                         *)
(* Entries keep their bits: bit 0 present, bit 2 user, bit 7 4MB page, the *)
(* frame above bit 12 (bit 22 for a 4MB page).  Read/write (bit 1) is set  *)
(* in every entry the code writes and is left out of the translation.      *)
(* Of the 1024 entries of each array only those written after the         *)
(* initial fill are state: page_dir holds the entries written since        *)
(* memset, page_tab those written since paging_init's loop, and            *)
(* page_video_tab those written since boot (it lies in .bss).  flush()     *)
(* reloads CR3 at the end of every mapping function, so translation reads  *)
(* the tables as they are.                                                 *)
(*                                                                         *)
(* The actions are the mapping functions with the arguments their callers  *)
(* pass: pcb_mapping(128MB, 8MB + 4MB * pid) from execute, halt and the    *)
(* PIT handler, syscall_video_mapping(0xB8000) from vidmap,                *)
(* scheduling_video_mapping(screen or backing page) from the PIT handler,  *)
(* and terminal_video_mapping(0xB9000 + 4KB * i, i) from term_init.        *)
(***************************************************************************)
EXTENDS Integers, Bitwise, TLC

CONSTANTS
  Pids,          \* pcb numbers passed to pcb_mapping
  Terms,         \* terminal indices term_init maps
  PageTabAddr,   \* the address of page_tab (4KB aligned, in the kernel page)
  VideoTabAddr   \* the address of page_video_tab

VARIABLES
  page_dir,        \* directory entries written since the memset
  page_tab,        \* page_tab entries written since the fill loop
  page_video_tab   \* page_video_tab entries written since boot

vars == << page_dir, page_tab, page_video_tab >>

AS == INSTANCE AddressSpace
        WITH window <- 0, video <- 0, backed <- {}

MB4 == AS!MB4
KB4 == AS!KB4
Fault == AS!Fault

\* memset(page_dir, 0x00000002, ...) stores the byte 2 in every byte.
MemsetEntry == 33686018                    \* 0x02020202

\* page_tab[i] = (i*0x1000) | 2 for every i.
FillEntry(i) == (i * KB4) | 2

PDE(i) == IF i \in DOMAIN page_dir THEN page_dir[i] ELSE MemsetEntry
PTE(i) == IF i \in DOMAIN page_tab THEN page_tab[i] ELSE FillEntry(i)
PVTE(i) == IF i \in DOMAIN page_video_tab THEN page_video_tab[i] ELSE 0

\* The entry i of the page table a directory entry points at.
TableEntry(table, i) ==
  CASE table = PageTabAddr  -> PTE(i)
    [] table = VideoTabAddr -> PVTE(i)

Present(e)  == e % 2 = 1
UserBit(e)  == (e \div 4) % 2 = 1
BigPage(e)  == (e \div 128) % 2 = 1
Frame(e, size) == e - (e % size)

\* The MMU: the physical address a user (user = TRUE) or kernel access to
\* va reaches, or Fault.  A user access needs the user bit at both levels.
Translate(va, user) ==
  LET pde == PDE(va \div MB4) IN
  IF ~Present(pde) \/ (user /\ ~UserBit(pde)) THEN Fault
  ELSE IF BigPage(pde) THEN Frame(pde, MB4) + (va % MB4)
  ELSE LET pte == TableEntry(Frame(pde, KB4), (va \div KB4) % 1024) IN
       IF ~Present(pte) \/ (user /\ ~UserBit(pte)) THEN Fault
       ELSE Frame(pte, KB4) + (va % KB4)

-----------------------------------------------------------------------------
\* paging_init: the directory filled with 0x02020202, the table with
\* (i*0x1000)|2, the table at entry 0, the kernel's 4MB page at entry 1,
\* and the screen's entry made present.
Init ==
  /\ page_dir = (0 :> (PageTabAddr | 3)) @@ (1 :> (4194304 | 131))
  /\ page_tab = (184 :> (FillEntry(184) | 3))            \* 0xB8
  /\ page_video_tab = << >>

\* pcb_mapping: page_dir[va/4MB] = pa | 0x87 (present, rw, user, 4MB).
pcb_mapping(virtual_address, physical_address) ==
  /\ page_dir' = ((virtual_address \div MB4) :> (physical_address | 135))
                   @@ page_dir
  /\ UNCHANGED << page_tab, page_video_tab >>

\* syscall_video_mapping: entry 33 (132MB) points at page_video_tab, whose
\* entry 0 points at physical_address, both with 0x7 (present, rw, user).
syscall_video_mapping(physical_address) ==
  /\ page_dir' = (33 :> (VideoTabAddr | 7)) @@ page_dir
  /\ page_video_tab' = (0 :> (physical_address | 7)) @@ page_video_tab
  /\ UNCHANGED page_tab

scheduling_video_mapping_screen(physical_address) ==
  /\ page_dir' = (33 :> (VideoTabAddr | 7)) @@ page_dir
  /\ page_video_tab' = (0 :> (AS!Screen | 7)) @@ page_video_tab
  /\ UNCHANGED page_tab

\* scheduling_video_mapping does the same as syscall_video_mapping.
scheduling_video_mapping(physical_address) ==
  /\ page_dir' = (33 :> (VideoTabAddr | 7)) @@ page_dir
  /\ page_video_tab' = (0 :> (physical_address | 7)) @@ page_video_tab
  /\ UNCHANGED page_tab

terminal_video_mapping_user(physical_address, page_idx) ==
  /\ page_dir' = (0 :> (PageTabAddr | 7)) @@ page_dir
  /\ page_tab' = ((185 + page_idx) :> (physical_address | 7)) @@ page_tab
  /\ UNCHANGED page_video_tab

\* terminal_video_mapping: entry 0 re-pointed at page_tab with 0x3 and
\* page_tab[0xB9 + page_idx] = physical_address | 0x3 (supervisor only).
terminal_video_mapping(physical_address, page_idx) ==
  /\ page_dir' = (0 :> (PageTabAddr | 3)) @@ page_dir
  /\ page_tab' = ((185 + page_idx) :> (physical_address | 3)) @@ page_tab
  /\ UNCHANGED page_video_tab

-----------------------------------------------------------------------------
\* The callers.
MapProgram(p) == pcb_mapping(AS!ProgVirt, AS!Slab(p))       \* execute, halt, PIT
Vidmap == syscall_video_mapping(AS!Screen)                  \* vidmap
SwitchVideo(pg) == scheduling_video_mapping(pg)             \* PIT handler
TermInit(i) == terminal_video_mapping(AS!Backing(i), i)     \* term_init

Next ==
  \/ \E p \in Pids : MapProgram(p)
  \/ Vidmap
  \/ \E pg \in AS!VideoPages : SwitchVideo(pg)
  \/ \E i \in Terms : TermInit(i)

Spec == Init /\ [][Next]_vars

-----------------------------------------------------------------------------
(***************************************************************************)
(* Refinement: the tables implement AddressSpace.  The program window is  *)
(* the slab the kernel reaches at 128MB, the video page what it reaches at *)
(* 132MB, and a terminal is backed once the kernel reaches its backing     *)
(* page at its own address.                                                *)
(***************************************************************************)
Stray == -2    \* the program page shows something other than a slab

WindowOf(a) ==
  IF a = Fault THEN AS!NoProg
  ELSE IF \E p \in Pids : AS!Slab(p) = a THEN CHOOSE p \in Pids : AS!Slab(p) = a
  ELSE Stray

Abs == INSTANCE AddressSpace
         WITH window <- WindowOf(Translate(AS!ProgVirt, FALSE)),
              video  <- Translate(AS!VidVirt, FALSE),
              backed <- { i \in Terms : Translate(AS!Backing(i), FALSE) = AS!Backing(i) }

\* Virtual addresses probed: the null page, the screen, each backing page
\* and the one after the last, inside the kernel page, the first slab,
\* both ends of the program page and of the video page, the page after
\* the video page, and the directory entry after the program's.
Probes ==
  { 0, AS!Screen, 4194304 + 4660, 8388608, AS!ProgVirt, AS!ProgVirt + MB4 - 1,
    AS!VidVirt, AS!VidVirt + KB4 - 1, AS!VidVirt + KB4, AS!ProgVirt + 2 * MB4 }
  \cup { AS!Backing(i) : i \in Terms \cup { 3 } }

\* Every access a user program or the kernel makes lands where AddressSpace
\* says: a user program reaches only its own slab at 128MB and the page
\* vidmap or the PIT handler chose at 132MB (never the kernel page, the
\* screen or a backing page directly, which needs the user bit clear at
\* one of the two levels), and the kernel reaches its page, the screen and
\* the backing pages term_init mapped, each at its own address.
MappingFaithful ==
  \A va \in Probes :
    /\ Translate(va, TRUE) = Abs!UserView(va)
    /\ Translate(va, FALSE) = Abs!KernelView(va)

\* Every call of a mapping function is the step of AddressSpace it is
\* meant to be, never a stutter: pcb_mapping shows the process's slab at
\* 128MB, vidmap the screen at 132MB, the PIT handler the page it chose,
\* and term_init makes the terminal's backing page reachable; no call
\* disturbs a window it is not about.  This implies Abs!Spec.
CallsMapped ==
  /\ \A p \in Pids : MapProgram(p) => Abs!MapProgram(p)
  /\ Vidmap => Abs!MapVideo(AS!Screen)
  /\ \A pg \in AS!VideoPages : SwitchVideo(pg) => Abs!MapVideo(pg)
  /\ \A i \in Terms : TermInit(i) => Abs!MapBacking(i)

AddressSpaceRefined == Abs!Init /\ [][CallsMapped]_vars

=============================================================================
