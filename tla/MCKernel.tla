------------------------------ MODULE MCKernel ------------------------------
(***************************************************************************)
(* Model-checking instance of Kernel.  The kernel is compiled with three   *)
(* terminals of four slots and a cap of six processes; that state space   *)
(* is beyond TLC, so two cuts keep the cases that matter: every terminal  *)
(* with a shell and one program, with the cap biting on a second program, *)
(* and fewer terminals with programs nested two deep.  The descriptor     *)
(* table is cut from 8 to 3 entries: stdin, stdout and one descriptor     *)
(* open and close can move.                                               *)
(***************************************************************************)
EXTENDS Kernel

MCFileNum  == 3

\* Three terminals as compiled, two slots each: every shell plus one
\* program, and the cap refuses a second program.
MCTermMax  == 3
MCSlots    == 2
MCMaxProcs == 4

\* Two terminals of three slots: programs nest two deep under a shell.
MCDeepTermMax  == 2
MCDeepSlots    == 3
MCDeepMaxProcs == 5

=============================================================================
