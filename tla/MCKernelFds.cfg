\* Well-behaved user; checks that halt leaves other processes' descriptors.
CONSTANTS
  TERM_MAX <- MCTermMax
  MAX_PCB_MASK_LEN <- MCSlots
  MAX_PROCS <- MCMaxProcs
  MAX_FILE_NUM <- MCFileNum
  Kernel = Kernel
  Garbage = Garbage
  NoProc = NoProc
  UserWaitsForBoot = TRUE
  UserInOwnSlice = TRUE

SPECIFICATION Spec

PROPERTY OnlyCallerDescriptors
