\* The user waits for the shells to boot, but a line typed, or Ctrl+C
\* pressed, on the display may take effect in another terminal's slice.
CONSTANTS
  TERM_MAX <- MCTermMax
  MAX_PCB_MASK_LEN <- MCSlots
  MAX_PROCS <- MCMaxProcs
  MAX_FILE_NUM <- MCFileNum
  Kernel = Kernel
  Garbage = Garbage
  NoProc = NoProc
  UserWaitsForBoot = TRUE
  UserInOwnSlice = FALSE

SPECIFICATION Spec


INVARIANT TerminalChains
