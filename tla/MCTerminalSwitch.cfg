\* The user types after the shells have booted, but may press Alt+F between
\* ENTER and the moment the shell of that terminal picks the line up.
CONSTANTS
  TERM_MAX <- MCTermMax
  KEY_BUF_MAX <- MCKeyBufMax
  UserWaitsForBoot = TRUE
  SwitchWhenIdle = FALSE
  UserInOwnSlice = FALSE

SPECIFICATION Spec

INVARIANT TerminalIsolation
