----------------------------- MODULE MCTerminal -----------------------------
(***************************************************************************)
(* Model-checking instance of Terminal.  Two terminals, not three: a read  *)
(* of a foreign key needs one terminal to type on and one to read in.     *)
(* A key buffer of two keys, not 128: a character and ENTER, with the     *)
(* bound checks of both (a character needs one free place beside ENTER's). *)
(***************************************************************************)
EXTENDS Terminal

MCTermMax  == 2
MCKeyBufMax == 2

=============================================================================
