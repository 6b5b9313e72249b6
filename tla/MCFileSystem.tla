---------------------------- MODULE MCFileSystem ----------------------------
(***************************************************************************)
(* A small image for FileSystem.  Blocks of 2 bytes and names of at most 2 *)
(* characters over a 2-letter alphabet (3 = 'a', 4 = 'b'; printable        *)
(* characters lie above the filetype values 0..2) keep the cases that      *)
(* matter: a name of full length with no NUL ("ab"), a name that is a      *)
(* prefix of an earlier one ("a" of "ab"), a file whose size is a whole    *)
(* number of blocks (inode 0: 4 bytes) and one that ends inside a block    *)
(* (inode 1: 3 bytes), block lists out of order, and an unused dentry      *)
(* (empty name) among the MAX_FILE_DENTRIES scanned.  Reads of 3 bytes     *)
(* cross block boundaries.                                                 *)
(***************************************************************************)
EXTENDS FileSystem, TLC

MCDentry ==
  (0 :> [name |-> << 4 >>,    filetype |-> 1, inode |-> 0]) @@   \* the directory
  (1 :> [name |-> << 3, 4 >>, filetype |-> 2, inode |-> 0]) @@
  (2 :> [name |-> << 3 >>,    filetype |-> 2, inode |-> 1]) @@
  (3 :> [name |-> << >>,      filetype |-> 0, inode |-> 0])      \* unused

MCInode ==
  (0 :> [size |-> 4, blocks |-> << 3, 1 >>]) @@
  (1 :> [size |-> 3, blocks |-> << 0, 2 >>])

\* Every name of up to 3 characters, one longer than a dentry name.
MCQueries == UNION { [1 .. n -> {3, 4}] : n \in 0 .. 3 }

MCReaders == {"r1", "r2"}

=============================================================================
