\* Alt+F may be pressed before every shell has booted; commands still land
\* in the slice of the displayed terminal.
CONSTANTS
  TERM_MAX <- MCTermMax
  MAX_PCB_MASK_LEN <- MCSlots
  MAX_PROCS <- MCMaxProcs
  MAX_FILE_NUM <- MCFileNum
  Kernel = Kernel
  Garbage = Garbage
  NoProc = NoProc
  UserWaitsForBoot = FALSE
  UserInOwnSlice = TRUE

SPECIFICATION Spec

PROPERTY AllTerminalsServed
