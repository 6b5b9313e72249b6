----------------------------- MODULE FileSystem -----------------------------
(***************************************************************************)
(* The read-only file system of file_system.c as the processes of the      *)
(* terminals use it: read_dentry_by_name (with lib.c's strlen and          *)
(* strncmp), read_data's block walk, file_read's file_position, and        *)
(* dir_read's listing cursor.  The listing cursor, num_file_read, is one   *)
(* global shared by every process and descriptor; dir_open and dir_close   *)
(* do not touch it.                                                        *)
(*                                                                         *)
(* A character is a small positive integer and NUL is 0.  A data byte is   *)
(* abstracted to its place in the image, << data block, index in block >>, *)
(* so a read is right exactly when it returns the right places in order.   *)
(* Each system call is atomic (interrupt gate); the processes of           *)
(* different terminals interleave between calls.                          *)
(***************************************************************************)
EXTENDS Integers, Sequences, FiniteSets, FiniteSetsExt

CONSTANTS
  FS_BLOCK_SIZE,        \* bytes per block (file_system.h: 4096)
  MAX_FILENAME_LENGTH,  \* dentry name bytes, no NUL when full (32)
  MAX_FILE_DENTRIES,    \* dentries read_dentry_by_name scans (63)
  DENTRY,               \* boot block dentries: index -> [name, filetype, inode]
  NUM_DENTRIES,         \* bootblk.num_dentries
  INODE,                \* inode -> [size, blocks]; blocks past the list are 0
  NUM_DATABLOCKS,       \* bootblk.num_datablocks
  Queries,              \* file names a program may pass to open
  Readers,              \* one process per terminal using the file system
  CHUNK,                \* nbytes a reader asks for per read
  LsExclusive,          \* TRUE: no two directory listings at the same time
  MayKill               \* TRUE: a reader may be halted mid-way (Ctrl+C, fault)

Dentries == 0 .. MAX_FILE_DENTRIES - 1

(***************************************************************************)
(* lib.c string helpers on C strings: byte i of a sequence, NUL past it.   *)
(***************************************************************************)
Byte(s, i) == IF i < Len(s) THEN s[i + 1] ELSE 0

RECURSIVE StrLenFrom(_, _)
StrLenFrom(s, i) == IF Byte(s, i) = 0 THEN i ELSE StrLenFrom(s, i + 1)
strlen(s) == StrLenFrom(s, 0)

RECURSIVE StrNCmpFrom(_, _, _, _)
StrNCmpFrom(s1, s2, n, i) ==
  IF i >= n THEN 0
  ELSE IF Byte(s1, i) # Byte(s2, i) \/ Byte(s1, i) = 0
         THEN Byte(s1, i) - Byte(s2, i)
         ELSE StrNCmpFrom(s1, s2, n, i + 1)
strncmp(s1, s2, n) == StrNCmpFrom(s1, s2, n, 0)

\* fs_dentry[d] in memory: the name padded with NUL to MAX_FILENAME_LENGTH,
\* then the filetype word, whose low byte follows a full-length name.
DentryBytes(d) ==
  [i \in 1 .. MAX_FILENAME_LENGTH + 1 |->
     IF i <= Len(DENTRY[d].name) THEN DENTRY[d].name[i]
     ELSE IF i <= MAX_FILENAME_LENGTH THEN 0 ELSE DENTRY[d].filetype]

\* Mutation: a dentry name matches when the query is a prefix of it.
NameMatchesPrefix(d, fname) ==
  /\ strncmp(DentryBytes(d), fname, strlen(fname)) = 0
  /\ Byte(fname, 0) # 0

\* The test of read_dentry_by_name: equal over the query's length and over
\* the dentry's length capped at MAX_FILENAME_LENGTH, and a non-empty query.
NameMatches(d, fname) ==
  LET f2 == IF strlen(DentryBytes(d)) >= MAX_FILENAME_LENGTH
              THEN MAX_FILENAME_LENGTH ELSE strlen(DentryBytes(d))
  IN  /\ strncmp(DentryBytes(d), fname, strlen(fname)) = 0
      /\ strncmp(DentryBytes(d), fname, f2) = 0
      /\ Byte(fname, 0) # 0

\* The first dentry whose name matches, or -1.
read_dentry_by_name(fname) ==
  LET hits == { d \in Dentries : NameMatches(d, fname) }
  IN  IF hits = {} THEN -1 ELSE Min(hits)

(***************************************************************************)
(* read_data(inode, offset, buf, length): walk the inode's block list a   *)
(* byte at a time; moving past a block checks the next block number, and  *)
(* the end of the file is tested after that.                              *)
(***************************************************************************)
Size(ino) == INODE[ino].size
DataBlock(ino, k) == IF k < Len(INODE[ino].blocks) THEN INODE[ino].blocks[k + 1] ELSE 0

RECURSIVE ReadDataLoop(_, _, _, _, _, _, _)
ReadDataLoop(ino, off, len, done, blk, bib, buf) ==
  IF done >= len THEN << done, buf >>
  ELSE LET next == bib >= FS_BLOCK_SIZE
           blk2 == IF next THEN blk + 1 ELSE blk
           bib2 == IF next THEN 0 ELSE bib
       IN  IF next /\ DataBlock(ino, blk2) >= NUM_DATABLOCKS THEN << -1, buf >>
           ELSE IF done + off >= Size(ino) THEN << done, buf >>
           ELSE ReadDataLoop(ino, off, len, done + 1, blk2, bib2 + 1,
                             Append(buf, << DataBlock(ino, blk2), bib2 >>))

\* Mutation: the end-of-file test is ">" and lets one byte past the size through.
RECURSIVE ReadDataLoopGt(_, _, _, _, _, _, _)
ReadDataLoopGt(ino, off, len, done, blk, bib, buf) ==
  IF done >= len THEN << done, buf >>
  ELSE LET next == bib >= FS_BLOCK_SIZE
           blk2 == IF next THEN blk + 1 ELSE blk
           bib2 == IF next THEN 0 ELSE bib
       IN  IF next /\ DataBlock(ino, blk2) >= NUM_DATABLOCKS THEN << -1, buf >>
           ELSE IF done + off > Size(ino) THEN << done, buf >>
           ELSE ReadDataLoopGt(ino, off, len, done + 1, blk2, bib2 + 1,
                               Append(buf, << DataBlock(ino, blk2), bib2 >>))
read_data_past_end(ino, off, len) ==
  ReadDataLoopGt(ino, off, len, 0, off \div FS_BLOCK_SIZE, off % FS_BLOCK_SIZE, << >>)

read_data(ino, off, len) ==
  ReadDataLoop(ino, off, len, 0, off \div FS_BLOCK_SIZE, off % FS_BLOCK_SIZE, << >>)

-----------------------------------------------------------------------------
(***************************************************************************)
(* The processes.  kind is the file type behind the reader's descriptor;  *)
(* pc is "idle" (no descriptor), "open" (reading) or "eof" (a read has     *)
(* returned 0: the program prints what it got and exits).  query and      *)
(* found are the name the reader last passed to open and the dentry       *)
(* read_dentry_by_name gave for it.                                       *)
(***************************************************************************)
VARIABLES num_file_read, pc, kind, ino, pos, got, query, found

vars == << num_file_read, pc, kind, ino, pos, got, query, found >>

Init ==
  /\ num_file_read = 0                       \* fs_init
  /\ pc   = [r \in Readers |-> "idle"]
  /\ kind = [r \in Readers |-> "none"]
  /\ ino  = [r \in Readers |-> 0]
  /\ pos  = [r \in Readers |-> 0]
  /\ got  = [r \in Readers |-> << >>]
  /\ query = [r \in Readers |-> << >>]
  /\ found = [r \in Readers |-> -1]

\* open's lookup, common to every outcome of open.
Lookup(r, fname) ==
  /\ query' = [query EXCEPT ![r] = fname]
  /\ found' = [found EXCEPT ![r] = read_dentry_by_name(fname)]

\* open(fname) of a name with no dentry returns -1.
OpenMissing(r, fname) ==
  /\ pc[r] = "idle"
  /\ read_dentry_by_name(fname) = -1
  /\ Lookup(r, fname)
  /\ UNCHANGED << num_file_read, pc, kind, ino, pos, got >>

\* open(fname) on a regular file: the dentry's inode, file_position 0.
OpenFile(r, fname) ==
  LET d == read_dentry_by_name(fname)
  IN  /\ pc[r] = "idle"
      /\ d # -1
      /\ DENTRY[d].filetype = 2
      /\ pc'   = [pc EXCEPT ![r] = "open"]
      /\ kind' = [kind EXCEPT ![r] = "file"]
      /\ ino'  = [ino EXCEPT ![r] = DENTRY[d].inode]
      /\ pos'  = [pos EXCEPT ![r] = 0]
      /\ got'  = [got EXCEPT ![r] = << >>]
      /\ Lookup(r, fname)
      /\ UNCHANGED num_file_read

\* open(fname) on the directory: dir_open returns 0 and resets nothing.
OpenDir(r, fname) ==
  LET d == read_dentry_by_name(fname)
  IN  /\ pc[r] = "idle"
      /\ d # -1
      /\ DENTRY[d].filetype = 1
      /\ LsExclusive => \A q \in Readers : ~(pc[q] = "open" /\ kind[q] = "dir")
      /\ pc'   = [pc EXCEPT ![r] = "open"]
      /\ kind' = [kind EXCEPT ![r] = "dir"]
      /\ got'  = [got EXCEPT ![r] = << >>]
      /\ Lookup(r, fname)
      /\ UNCHANGED << num_file_read, ino, pos >>

\* file_read: read_data from file_position, which then advances by the
\* value read_data returned.
FileRead(r) ==
  LET res == read_data(ino[r], pos[r], CHUNK)
  IN  /\ pc[r] = "open" /\ kind[r] = "file"
      /\ got' = [got EXCEPT ![r] = got[r] \o res[2]]
      /\ pos' = [pos EXCEPT ![r] = pos[r] + res[1]]
      /\ pc'  = [pc EXCEPT ![r] = IF res[1] > 0 THEN "open" ELSE "eof"]
      /\ UNCHANGED << num_file_read, kind, ino, query, found >>

\* Mutation: the bound admits one dentry past num_dentries.
MoreEntriesOffByOne(n) == n <= NUM_DENTRIES

\* dir_read's test for a dentry not yet listed.
MoreEntries(n) == n < NUM_DENTRIES

\* Mutation: the cursor is left at the end of the listing.
ResetListingDropped(n) == n

\* dir_read's cursor once it has returned 0.
ResetListing(n) == 0

\* dir_read: the name of dentry num_file_read, or 0 and a reset at the end.
DirRead(r) ==
  /\ pc[r] = "open" /\ kind[r] = "dir"
  /\ IF MoreEntries(num_file_read)
       THEN /\ got' = [got EXCEPT ![r] = Append(got[r], num_file_read)]
            /\ num_file_read' = num_file_read + 1
            /\ UNCHANGED pc
       ELSE /\ num_file_read' = ResetListing(num_file_read)
            /\ pc' = [pc EXCEPT ![r] = "eof"]
            /\ UNCHANGED got
  /\ UNCHANGED << kind, ino, pos, query, found >>

\* halt (exit, Ctrl+C or an exception): file_close and dir_close do nothing.
Halt(r) ==
  /\ \/ pc[r] = "eof"
     \/ MayKill /\ pc[r] = "open"
  /\ pc' = [pc EXCEPT ![r] = "idle"]
  /\ UNCHANGED << num_file_read, kind, ino, pos, got, query, found >>

Next ==
  \E r \in Readers :
    \/ \E f \in Queries : OpenFile(r, f) \/ OpenDir(r, f) \/ OpenMissing(r, f)
    \/ FileRead(r)
    \/ DirRead(r)
    \/ Halt(r)

Spec == Init /\ [][Next]_vars

-----------------------------------------------------------------------------
TypeOK ==
  /\ num_file_read \in 0 .. NUM_DENTRIES
  /\ pc \in [Readers -> {"idle", "open", "eof"}]
  /\ kind \in [Readers -> {"none", "file", "dir"}]
  /\ ino \in [Readers -> DOMAIN INODE]
  /\ pos \in [Readers -> Int]
  /\ found \in [Readers -> Dentries \cup {-1}]

\* Reference for open: the dentry whose name, as a string of at most
\* MAX_FILENAME_LENGTH characters, equals the query; -1 when there is none.
NameRef(fname) ==
  LET hits == { d \in 0 .. NUM_DENTRIES - 1 : DENTRY[d].name = fname }
  IN  IF fname = << >> \/ hits = {} THEN -1 ELSE Min(hits)

\* Every open resolves its name to exactly the dentry of that name: no
\* prefix, extension or over-long name opens another file, a full-length
\* name with no NUL is still found, and an unknown name fails.
LookupIsExact == \A r \in Readers : found[r] = NameRef(query[r])

\* Reference for read_data: the file's bytes in order, from offset, at
\* most length of them.
FileBytes(i) ==
  [k \in 1 .. Size(i) |-> << DataBlock(i, (k - 1) \div FS_BLOCK_SIZE),
                             (k - 1) % FS_BLOCK_SIZE >>]

\* A program that reads a file to the end with file_read (cat, and
\* execute's loader with one read) gets every byte of it, in order, once.
FileReadComplete ==
  \A r \in Readers :
    pc[r] = "eof" /\ kind[r] = "file" => got[r] = FileBytes(ino[r])

\* A directory listing (ls) read to the end names every dentry once, in
\* order.
ListingComplete ==
  \A r \in Readers :
    pc[r] = "eof" /\ kind[r] = "dir" => got[r] = [k \in 1 .. NUM_DENTRIES |-> k - 1]

=============================================================================
