--------------------------- MODULE MCCommandLine ---------------------------
(***************************************************************************)
(* Names of at most 2 characters and arguments of at most 2 stand for 32  *)
(* and 100; command lines of up to 5 characters over { SP, a, b } then    *)
(* reach every boundary of the parse loop: a full-length name, a name one *)
(* and two characters too long, leading and separating runs of spaces,    *)
(* trailing spaces, and arguments one past the buffer.  NBytes reaches    *)
(* getargs's refusal for a buffer of exactly the arguments' length.       *)
(***************************************************************************)
EXTENDS CommandLine

CONSTANTS a, b, sp

MCChars == {a, b}

AllCommands == UNION { [1 .. n -> MCChars \cup {sp}] : n \in 0 .. 5 }

\* The directory: an executable; a two-byte file that begins like one; a
\* file whose last signature byte differs; and an executable with a
\* full-length name.  Other names have no file.
MCImage ==
  (<< a >> :> << TRUE, TRUE, TRUE, TRUE >>) @@
  (<< b >> :> << TRUE, TRUE >>) @@
  (<< a, b >> :> << TRUE, TRUE, TRUE, FALSE >>) @@
  (<< b, b >> :> << TRUE, TRUE, TRUE, TRUE >>)

\* What a user types: no leading space, a name and arguments that fit.
WellFormed ==
  { c \in AllCommands :
      /\ c = DropSpaces(c)
      /\ Len(RefName(c)) <= MAX_FILENAME_LENGTH
      /\ Len(RefArgs(c)) <= MAX_ARG_LENGTH }

\* The same, with leading spaces allowed.
Indented ==
  { c \in AllCommands :
      /\ Len(RefName(c)) <= MAX_FILENAME_LENGTH
      /\ Len(RefArgs(c)) <= MAX_ARG_LENGTH }

=============================================================================
