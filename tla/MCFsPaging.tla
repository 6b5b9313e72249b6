----------------------------- MODULE MCFsPaging -----------------------------
(***************************************************************************)
(* The file system image of MCFileSystem and the paging tables of Paging,  *)
(* checked in one run as a disjoint union: each behaviour picks one side   *)
(* at its start and the other side keeps its initial state.  Neither      *)
(* component reads the other's state, so the union checks each exactly as *)
(* a run of its own would.                                                 *)
(*                                                                         *)
(* Paging gets three pcb numbers (the first two and the last of the six    *)
(* execute hands out), the three terminals, and page_tab and               *)
(* page_video_tab at two 4KB-aligned addresses inside the kernel's 4MB     *)
(* page, where the linker puts them.                                       *)
(***************************************************************************)
EXTENDS MCFileSystem

VARIABLES side, page_dir, page_tab, page_video_tab

pvars == << page_dir, page_tab, page_video_tab >>

P == INSTANCE Paging
       WITH Pids <- {0, 1, 5}, Terms <- {0, 1, 2},
            PageTabAddr <- 4202496,          \* 0x402000
            VideoTabAddr <- 4206592          \* 0x403000

FsPagingInit ==
  /\ side \in {"fs", "paging"}
  /\ Init
  /\ P!Init

FsPagingNext ==
  \/ side = "fs" /\ Next /\ UNCHANGED << side, pvars >>
  \/ side = "paging" /\ P!Next /\ UNCHANGED << side, vars >>

FsPagingSpec == FsPagingInit /\ [][FsPagingNext]_<< side, vars, pvars >>

\* Paging.MappingFaithful: user and kernel accesses land where AddressSpace
\* says, so user programs never reach the kernel page or the screen.
MappingFaithful == side = "paging" => P!MappingFaithful

\* Paging.AddressSpaceRefined: every call of a paging.c mapping function
\* performs the AddressSpace step its caller asks for.
AddressSpaceRefined == P!Abs!Init /\ [][side = "paging" => P!CallsMapped]_pvars

=============================================================================
