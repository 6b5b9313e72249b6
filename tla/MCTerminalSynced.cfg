\* The user types only after the shells have booted and presses Alt+F only
\* when no ENTER is waiting; programs exit in the displayed terminal's slice.
CONSTANTS
  TERM_MAX <- MCTermMax
  KEY_BUF_MAX <- MCKeyBufMax
  UserWaitsForBoot = TRUE
  SwitchWhenIdle = TRUE
  UserInOwnSlice = TRUE

SPECIFICATION Spec

INVARIANT TypeOK TerminalIsolation OutputKept
PROPERTY LineDelivered
