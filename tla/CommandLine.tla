---------------------------- MODULE CommandLine ----------------------------
(***************************************************************************)
(* execute's command parsing and the argument path to getargs            *)
(* (system_call.c): the loop that splits the command into filename[] and  *)
(* fileargs[], the copy of fileargs into the new PCB's argbuf, and         *)
(* getargs's copy to the program.  A character is a model value of Chars  *)
(* or SP (the space), and NUL is 0.                                        *)
(*                                                                         *)
(* Buffers are sequences of their declared length; a write at an index    *)
(* past the end is recorded in overrun and does not land in the buffer.   *)
(* filename[] has no room for a NUL when the name is full length, so what *)
(* strlen and strncmp see after it is the stack byte that follows, which  *)
(* the build decides: a member of StackByteAfterName.                     *)
(*                                                                         *)
(* The loader's check reads a file's first bytes into headerbuf[], an      *)
(* uninitialised local.  A byte is TRUE when it equals the byte of        *)
(* magicnumber[] at its position; a file is known by the bytes it has     *)
(* there, up to MAGIC_NUM (fewer for a shorter file), and a byte of       *)
(* headerbuf that read_data does not write is a member of                 *)
(* StaleHeaderByte.                                                        *)
(***************************************************************************)
EXTENDS Integers, Sequences, SequencesExt

CONSTANTS
  MAX_FILENAME_LENGTH,  \* filename[] (32)
  MAX_ARG_LENGTH,       \* fileargs[] and pcb->argbuf[] (100)
  SP,                   \* ' '
  Chars,                \* characters other than the space
  Commands,             \* command lines the shell passes to execute
  NBytes,               \* buffer sizes a program passes to getargs
  StackByteAfterName,   \* what lies after filename[] on the kernel stack
  MAGIC_NUM,            \* length of the executable signature (4)
  Image,                \* file name -> its first bytes, matched or not
  StaleHeaderByte       \* what headerbuf[] holds before read_data fills it

NUL == 0

Zeros(n) == [k \in 1 .. n |-> NUL]

\* Mutation: the terminating NUL is counted as part of the string.
CStringInclNul(buf) ==
  LET nuls == { k \in DOMAIN buf : buf[k] = NUL }
  IN  IF nuls = {} THEN buf ELSE SubSeq(buf, 1, Min(nuls))

\* A C string read from a buffer: the characters before its first NUL.
CString(buf) ==
  LET nuls == { k \in DOMAIN buf : buf[k] = NUL }
  IN  IF nuls = {} THEN buf ELSE SubSeq(buf, 1, Min(nuls) - 1)

(***************************************************************************)
(* One iteration of execute's parse loop on command[i] = c.  The state is  *)
(* filename_flag (-1 before the name, 0 in it, 1 in the spaces after it,  *)
(* 2 in the arguments), offset, the two buffers and whether a write fell  *)
(* outside them; fail is the early return -1.                              *)
(***************************************************************************)
Store(buf, k, c) == IF k < Len(buf) THEN [buf EXCEPT ![k + 1] = c] ELSE buf

\* Mutation: the long-name test counts the name's own characters.
NameTooLongAtOffset(s, i) == s.offset >= MAX_FILENAME_LENGTH /\ s.flag = 0

\* if(i > MAX_FILENAME_LENGTH && filename_flag == 0) return -1;
NameTooLong(s, i) == i > MAX_FILENAME_LENGTH /\ s.flag = 0

\* Mutation: the end of the name does not reset offset.
EndNameKeepOffset(s) == [s EXCEPT !.flag = 1]

\* A space after the name: filename_flag = 1; offset = 0.
EndName(s) == [s EXCEPT !.flag = 1, !.offset = 0]

ParseStep(s, c, i) ==
  CASE NameTooLong(s, i) -> [s EXCEPT !.fail = TRUE]
    [] c = SP /\ s.flag = -1 -> s
    [] c # SP /\ s.flag \in {-1, 0} ->
         [s EXCEPT !.flag = 0, !.name = Store(s.name, s.offset, c),
                   !.over = s.over \/ s.offset >= MAX_FILENAME_LENGTH,
                   !.offset = s.offset + 1]
    [] c = SP /\ s.flag \in {0, 1} -> EndName(s)
    [] s.flag \in {1, 2} ->
         [s EXCEPT !.flag = 2, !.args = Store(s.args, s.offset, c),
                   !.over = s.over \/ s.offset >= MAX_ARG_LENGTH,
                   !.offset = s.offset + 1]

RECURSIVE ParseFrom(_, _, _)
ParseFrom(cmd, i, s) ==
  IF i >= Len(cmd) \/ s.fail THEN s
  ELSE ParseFrom(cmd, i + 1, ParseStep(s, cmd[i + 1], i))

\* The loop from its initial state: both buffers zeroed, flag -1, offset 0.
Parse(cmd) ==
  ParseFrom(cmd, 0, [flag |-> -1, offset |-> 0, fail |-> FALSE, over |-> FALSE,
                     name |-> Zeros(MAX_FILENAME_LENGTH),
                     args |-> Zeros(MAX_ARG_LENGTH)])

\* The name read_dentry_by_name receives: filename[] then, when it is full,
\* the stack byte after it.
LookupName(s, after) == CString(s.name \o << after >>)

\* headerbuf after read_data(inode, 0, headerbuf, HEADER_NUM): read_data
\* stops at the file's size, so past it the local keeps stale bytes.
HeaderAfterRead(file, stale) ==
  [k \in 1 .. MAGIC_NUM |-> IF k <= Len(file) THEN file[k] ELSE stale[k]]

\* Mutation: the comparison stops one byte short of the signature.
MagicMatchesShort(h) == \A k \in 1 .. MAGIC_NUM - 1 : h[k]

\* strncmp(headerbuf, magicnumber, MAGIC_NUM) == 0; magicnumber holds no
\* NUL, so every byte is compared.
MagicMatches(h) == \A k \in 1 .. MAGIC_NUM : h[k]

\* The outcome of the checks before the PCB is made: the parse, the name
\* lookup (read_dentry_by_name refuses an empty or absent name) and the
\* signature.
Loads(s, n, stale) ==
  /\ ~s.fail
  /\ n \in DOMAIN Image
  /\ MagicMatches(HeaderAfterRead(Image[n], stale))

-----------------------------------------------------------------------------
(***************************************************************************)
(* The shell issues execute; the program it starts may call getargs, then *)
(* halts.  status is "idle" (the shell is back), "fail" (execute returned  *)
(* -1) or "run".  got is the last getargs: its nbytes, return value and   *)
(* the string it left in the program's buffer.                            *)
(***************************************************************************)
VARIABLES cmd, status, name, argbuf, overrun, got

vars == << cmd, status, name, argbuf, overrun, got >>

NoGetargs == [n |-> 0, ret |-> 0, buf |-> << >>]

Init ==
  /\ cmd = << >>
  /\ status = "idle"
  /\ name = << >>
  /\ argbuf = Zeros(MAX_ARG_LENGTH)
  /\ overrun = FALSE
  /\ got = NoGetargs

\* execute(command) up to the loader: the parse, the lookup in Image (the
\* search itself is FileSystem's) and the signature check.  The PCB's
\* argbuf is fileargs.
Execute(c, after, stale) ==
  LET s == Parse(c)
      n == LookupName(s, after)
  IN  /\ status \in {"idle", "fail"}
      /\ cmd' = c
      /\ overrun' = (overrun \/ s.over)
      /\ status' = IF Loads(s, n, stale) THEN "run" ELSE "fail"
      /\ name' = n
      /\ argbuf' = s.args
      /\ got' = NoGetargs

\* Mutation: a buffer of exactly the argument length plus one is refused.
GetargsRefusesOffByOne(len, nbytes) == len <= 0 \/ len + 1 >= nbytes

\* if(arg_length <= 0 || arg_length >= nbytes) return -1;
GetargsRefuses(len, nbytes) == len <= 0 \/ len >= nbytes

\* getargs(buf, nbytes): strlen of argbuf, the refusal, or the copy and NUL.
Getargs(nb) ==
  LET a == CString(argbuf)
  IN  /\ status = "run"
      /\ got' = IF GetargsRefuses(Len(a), nb)
                  THEN [n |-> nb, ret |-> -1, buf |-> << >>]
                  ELSE [n |-> nb, ret |-> 0, buf |-> a]
      /\ UNCHANGED << cmd, status, name, argbuf, overrun >>

\* The program halts and the shell reads its next command.
Halt ==
  /\ status = "run"
  /\ status' = "idle"
  /\ UNCHANGED << cmd, name, argbuf, overrun, got >>

Next ==
  \/ \E c \in Commands, b \in StackByteAfterName,
       stale \in [1 .. MAGIC_NUM -> StaleHeaderByte] : Execute(c, b, stale)
  \/ \E nb \in NBytes : Getargs(nb)
  \/ Halt

Spec == Init /\ [][Next]_vars

-----------------------------------------------------------------------------
TypeOK ==
  /\ status \in {"idle", "fail", "run"}
  /\ overrun \in BOOLEAN
  /\ name \in Seq(Chars \cup {SP})
  /\ argbuf \in [1 .. MAX_ARG_LENGTH -> Chars \cup {SP, NUL}]
  /\ got.ret \in {-1, 0}
  /\ got.buf \in Seq(Chars \cup {SP})

(***************************************************************************)
(* The reference (spec.md 4.3 step 1): leading and separating spaces are   *)
(* dropped, the name is the first word, the arguments the rest of the      *)
(* line; a name longer than MAX_FILENAME_LENGTH, or none, is a failure.    *)
(* Step 2 and the image contract: so is a name with no file, or a file    *)
(* whose data does not begin with the MAGIC_NUM-byte signature.           *)
(***************************************************************************)
RECURSIVE DropSpaces(_)
DropSpaces(w) == IF w # << >> /\ Head(w) = SP THEN DropSpaces(Tail(w)) ELSE w

RECURSIVE FirstWordLen(_)
FirstWordLen(w) == IF w = << >> \/ Head(w) = SP THEN 0 ELSE 1 + FirstWordLen(Tail(w))

RefName(c) == SubSeq(DropSpaces(c), 1, FirstWordLen(DropSpaces(c)))
RefArgs(c) == DropSpaces(SubSeq(DropSpaces(c), FirstWordLen(DropSpaces(c)) + 1,
                                Len(DropSpaces(c))))
Signed(file) == Len(file) >= MAGIC_NUM /\ \A k \in 1 .. MAGIC_NUM : file[k]

RefFails(c) ==
  \/ RefName(c) = << >>
  \/ Len(RefName(c)) > MAX_FILENAME_LENGTH
  \/ RefName(c) \notin DOMAIN Image
  \/ ~Signed(Image[RefName(c)])

\* execute fails exactly on the commands the reference refuses (a bad or
\* missing name, or a file without the signature), and otherwise starts
\* the program named by the command's first word.
ParseAsSpecified ==
  status # "idle" =>
    /\ (status = "fail") = RefFails(cmd)
    /\ status = "run" => name = RefName(cmd)

\* A program started by a command gets from getargs exactly the command's
\* arguments whenever there are some and its buffer has room for them and
\* the NUL, and -1 otherwise.
ArgsDelivered ==
  got # NoGetargs =>
    IF 0 < Len(RefArgs(cmd)) /\ Len(RefArgs(cmd)) < got.n
      THEN got.ret = 0 /\ got.buf = RefArgs(cmd)
      ELSE got.ret = -1

\* No command makes execute write outside filename[] or fileargs[] on the
\* kernel stack.
NoOverrun == ~overrun

=============================================================================
