--------------------------- MODULE ProcessStacks ---------------------------
(***************************************************************************)
(* What the kernel's process registry promises, without PCBs, slots,     *)
(* masks or stacks: each terminal holds a stack of programs, a shell at  *)
(* its bottom, at most MAX_PCB_MASK_LEN deep, with at most MAX_PROCS     *)
(* programs in all.  Time slices go round the terminals; a terminal with *)
(* an empty stack gets its shell in its slice, and only the program on    *)
(* top of the stack of the slice's terminal runs, starts a child or       *)
(* exits.  A shell at the bottom that exits is replaced by a new shell.   *)
(***************************************************************************)
EXTENDS Integers, Functions

CONSTANTS TERM_MAX, MAX_PCB_MASK_LEN, MAX_PROCS

Terms == 0 .. TERM_MAX - 1

VARIABLES
  depth,   \* depth[t]: how many programs terminal t's stack holds
  slice,   \* the terminal whose time slice the CPU is in
  on       \* a program (rather than the boot thread) is on the CPU

absvars == << depth, slice, on >>

Total == SumFunction(depth)

\* Room for one more program on terminal t.
Room(t) == depth[t] < MAX_PCB_MASK_LEN /\ Total < MAX_PROCS

Init ==
  /\ depth = [t \in Terms |-> 0]
  /\ slice = 0
  /\ on = FALSE

\* The next slice.  A terminal with an empty stack may get its shell (it
\* may also be passed over, or find no room); otherwise its top program
\* runs.
NextSlice ==
  LET n == (slice + 1) % TERM_MAX
  IN  /\ slice' = n
      /\ IF depth[n] = 0
           THEN \/ /\ Room(n)
                   /\ depth' = [depth EXCEPT ![n] = 1]
                   /\ on' = TRUE
                \/ UNCHANGED << depth, on >>
           ELSE /\ on' = TRUE
                /\ UNCHANGED depth

\* The running program starts a child on top of its stack.
Spawn ==
  /\ on
  /\ Room(slice)
  /\ depth' = [depth EXCEPT ![slice] = @ + 1]
  /\ UNCHANGED << slice, on >>

\* The running program exits and its parent resumes; a bottom shell's exit
\* replaces it and leaves the stack as it was.
Exit ==
  /\ on
  /\ depth[slice] > 1
  /\ depth' = [depth EXCEPT ![slice] = @ - 1]
  /\ UNCHANGED << slice, on >>

Next == NextSlice \/ Spawn \/ Exit

Spec == Init /\ [][Next]_absvars /\ WF_absvars(NextSlice)

=============================================================================
