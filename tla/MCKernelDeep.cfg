\* Well-behaved user: commands, exits and Ctrl+C land in the terminal whose
\* slice is running, and Alt+F switches wait until every shell has booted.
CONSTANTS
  TERM_MAX <- MCDeepTermMax
  MAX_PCB_MASK_LEN <- MCDeepSlots
  MAX_PROCS <- MCDeepMaxProcs
  MAX_FILE_NUM <- MCFileNum
  Kernel = Kernel
  Garbage = Garbage
  NoProc = NoProc
  UserWaitsForBoot = TRUE
  UserInOwnSlice = TRUE

SPECIFICATION Spec

INVARIANT TypeOK
INVARIANT RunningIsCurrent
INVARIANT TerminalChains
INVARIANT CallerIsParent
INVARIANT ContextIntegrity
PROPERTY AllTerminalsServed
PROPERTY ProcessStacksRefined
