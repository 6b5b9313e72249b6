---------------------------- MODULE AddressSpace ----------------------------
(***************************************************************************)
(* What paging promises the rest of the kernel, without page tables.      *)
(*                                                                         *)
(* A user program sees two windows: the 4MB program page at 128MB, which   *)
(* shows the slab of one process (physical 8MB + 4MB * pid), and the 4KB   *)
(* video page at 132MB that vidmap hands out, which shows the screen       *)
(* (0xB8000) or the backing page of a terminal.  Everything else faults    *)
(* in user mode.  The kernel sees, besides those windows, its own 4MB page *)
(* at 4MB, the screen at 0xB8000 and the backing page 0xB9000 + 4KB * i of *)
(* every terminal i that term_init has set up, each at its own address.   *)
(* This is what execute, halt, vidmap, term_init and the PIT handler rely *)
(* on when they call the mapping functions of paging.c.                   *)
(***************************************************************************)
EXTENDS Integers

CONSTANTS
  Pids,     \* pcb numbers whose slab may be mapped at 128MB
  Terms     \* terminal indices given a backing page by term_init

VARIABLES
  window,   \* the pid whose slab is mapped at 128MB, or NoProg
  video,    \* the physical page behind 132MB, or NoPage
  backed    \* the terminals whose backing page the kernel can reach

absvars == << window, video, backed >>

MB4 == 4194304                        \* 0x400000
KB4 == 4096                           \* 0x1000
Fault == -1                           \* no translation (page fault)
NoPage == -1                          \* no video page mapped yet
NoProg == -1                          \* no program page mapped yet
Screen == 753664                      \* 0xB8000, VIDEO
Backing(i) == 757760 + KB4 * i        \* 0xB9000 + 0x1000 * i
Slab(p) == 8388608 + MB4 * p          \* 0x800000 + 0x400000 * p
ProgVirt == 134217728                 \* 0x8000000, 128MB
VidVirt == 138412032                  \* 0x8400000, 132MB
VideoPages == { Screen } \cup { Backing(i) : i \in Terms }

Init ==
  /\ window = NoProg
  /\ video = NoPage
  /\ backed = {}

\* The program page is pointed at one process's slab.
MapProgram(p) ==
  /\ window' = p
  /\ UNCHANGED << video, backed >>

\* The user video page is pointed at the screen or a backing page.
MapVideo(pg) ==
  /\ video' = pg
  /\ UNCHANGED << window, backed >>

\* Terminal i's backing page becomes reachable by the kernel.
MapBacking(i) ==
  /\ backed' = backed \cup { i }
  /\ UNCHANGED << window, video >>

Next ==
  \/ \E p \in Pids : MapProgram(p)
  \/ \E pg \in VideoPages : MapVideo(pg)
  \/ \E i \in Terms : MapBacking(i)

Spec == Init /\ [][Next]_absvars

\* Where a user-mode access to va lands.
UserView(va) ==
  CASE va \div MB4 = ProgVirt \div MB4 /\ window # NoProg
         -> Slab(window) + (va % MB4)
    [] va \div KB4 = VidVirt \div KB4 /\ video # NoPage
         -> video + (va % KB4)
    [] OTHER -> Fault

\* Where a kernel-mode access to va lands.
KernelView(va) ==
  CASE va \div MB4 = 1 -> va
    [] va \div KB4 = Screen \div KB4 -> va
    [] \E i \in backed : va \div KB4 = Backing(i) \div KB4 -> va
    [] OTHER -> UserView(va)

=============================================================================
