-------------------------------- MODULE Lib --------------------------------
(***************************************************************************)
(* The pure routines of lib.c that the kernel's output and copy paths    *)
(* run on: itoa and strrev, the number conversions of printf, memset,     *)
(* memcpy and strncpy.  Each follows the code's loop step by step, as a   *)
(* RECURSIVE operator on the loop's registers or locals; a string is a    *)
(* sequence of one-character strings, and memory a function from          *)
(* addresses to bytes.  A 32-bit word, which TLC's integers cannot hold,  *)
(* is the pair << high 16 bits, low 16 bits >>, and arithmetic on it is   *)
(* done on the halves, wrapping as the register does.  Each routine is    *)
(* checked against a definition of what it computes, over a bounded set  *)
(* of inputs that holds the boundary cases.  The one variable is the call *)
(* a caller makes: the routines keep nothing between calls, so the        *)
(* callers are any sequence of calls, and a property is checked of each.  *)
(***************************************************************************)
EXTENDS Integers, Sequences, SequencesExt, Bitwise

W16 == 2^16
Zero == << 0, 0 >>

\* newval / radix and newval % radix of a uint32_t, by long division of
\* its halves.
Quot(w, r) == << w[1] \div r, ((w[1] % r) * W16 + w[2]) \div r >>
Rem(w, r)  == ((w[1] % r) * W16 + w[2]) % r

\* itoa's lookup[] = "0123...XYZ"; the kernel's calls use radix 10 and 16.
lookup == << "0", "1", "2", "3", "4", "5", "6", "7",
             "8", "9", "A", "B", "C", "D", "E", "F" >>

\* strrev: beg = 0, end = strlen(s) - 1; swap s[beg] and s[end] while
\* beg < end.  (C index i is sequence position i + 1.)
RECURSIVE strrev_loop(_, _, _)
strrev_loop(s, beg, end) ==
  IF beg < end
  THEN strrev_loop([s EXCEPT ![beg + 1] = s[end + 1], ![end + 1] = s[beg + 1]],
                   beg + 1, end - 1)
  ELSE s

strrev(s) == strrev_loop(s, 0, Len(s) - 1)

\* Mutation: newval declared int32_t, so while (newval > 0) stops at once
\* on a value with the sign bit set.
RECURSIVE itoa_loop_signed(_, _)
itoa_loop_signed(newval, radix) ==
  IF newval # Zero /\ newval[1] < 2^15
  THEN << lookup[Rem(newval, radix) + 1] >> \o itoa_loop_signed(Quot(newval, radix), radix)
  ELSE << >>

\* itoa's loop: while (newval > 0) the digit lookup[newval % radix], from
\* the lowest place value up, and newval /= radix.
RECURSIVE itoa_loop(_, _)
itoa_loop(newval, radix) ==
  IF newval # Zero
  THEN << lookup[Rem(newval, radix) + 1] >> \o itoa_loop(Quot(newval, radix), radix)
  ELSE << >>

\* itoa(value, buf, radix), value a uint32_t: "0" for zero, else the
\* loop's digits reversed by strrev.
itoa(value, radix) ==
  IF value = Zero THEN << "0" >> ELSE strrev(itoa_loop(value, radix))

\* value < 0 of the int32_t that *((int32_t *)esp) reads: the sign bit.
Negative(w) == w[1] >= 2^15

\* itoa(-value, ...): -value of an int32_t is computed by negl, the two's
\* complement, which wraps INT_MIN to itself, and the parameter reads it
\* as the uint32_t 2^31.  (Signed overflow is undefined in C; negl is what
\* the build emits.)
Negate(w) ==
  << (W16 - w[1] - (IF w[2] = 0 THEN 0 ELSE 1)) % W16, (W16 - w[2]) % W16 >>

\* printf's %x, %#x, %u and %d of the argument word w: the string puts
\* prints.  %#x writes itoa at conv_buf[8], fills conv_buf[i] = '0' for i
\* from strlen(&conv_buf[8]) to 7 and prints from that index.
printf_conv(conv, alternate, w) ==
  CASE conv = "x" /\ alternate = 0 -> itoa(w, 16)
    [] conv = "x" ->
         LET d == itoa(w, 16)
         IN  [i \in 1 .. 8 - Len(d) |-> "0"] \o d
    [] conv = "u" -> itoa(w, 10)
    [] conv = "d" ->
         IF Negative(w) THEN << "-" >> \o itoa(Negate(w), 10) ELSE itoa(w, 10)

(***************************************************************************)
(* Memory: a function from Addr to bytes; a dword is the tuple of its    *)
(* four bytes, lowest first, as it is stored.                             *)
(***************************************************************************)
\* Byte k of the two's complement int32_t c.
ByteOf(c, k) == (c \div 2^(8 * k)) % 256
LoadDword(m, a) == << m[a], m[a + 1], m[a + 2], m[a + 3] >>
StoreDword(m, a, w) ==
  [i \in DOMAIN m |-> IF i \in a .. a + 3 THEN w[i - a + 1] ELSE m[i]]

\* rep stosl: ecx dwords of eax from edi up (cld).
RECURSIVE rep_stosl(_, _, _, _)
rep_stosl(m, edi, ecx, eax) ==
  IF ecx = 0 THEN m ELSE rep_stosl(StoreDword(m, edi, eax), edi + 4, ecx - 1, eax)

\* rep movsl: ecx dwords from esi to edi, upwards (cld).
RECURSIVE rep_movsl(_, _, _, _)
rep_movsl(m, edi, esi, ecx) ==
  IF ecx = 0 THEN m
  ELSE rep_movsl(StoreDword(m, edi, LoadDword(m, esi)), edi + 4, esi + 4, ecx - 1)

\* memset's .memset_bottom: edx single bytes of al.
RECURSIVE memset_bottom(_, _, _, _)
memset_bottom(m, edi, edx, eax) ==
  IF edx = 0 THEN m
  ELSE memset_bottom([m EXCEPT ![edi] = eax[1]], edi + 1, edx - 1, eax)

\* .memset_aligned: edx = ecx & 3, ecx >>= 2, rep stosl, then the bottom.
memset_aligned(m, edi, ecx, eax) ==
  memset_bottom(rep_stosl(m, edi, ecx \div 4, eax), edi + 4 * (ecx \div 4),
                ecx % 4, eax)

\* .memset_top: single bytes until ecx is 0 or edi is 4-aligned.
RECURSIVE memset_top(_, _, _, _)
memset_top(m, edi, ecx, eax) ==
  CASE ecx = 0       -> m
    [] edi % 4 = 0   -> memset_aligned(m, edi, ecx, eax)
    [] OTHER         -> memset_top([m EXCEPT ![edi] = eax[1]], edi + 1, ecx - 1, eax)

\* eax = c << 24 | c << 16 | c << 8 | c: byte k of the register is the
\* or of bytes k, k - 1, ..., 0 of c; the bits shifted past 32 are lost.
Pattern(c) ==
  LET b(k) == ByteOf(c, k)
  IN  << b(0), b(1) | b(0), (b(2) | b(1)) | b(0), ((b(3) | b(2)) | b(1)) | b(0) >>

\* Mutation: the c &= 0xFF at memset's entry left out.
memset_unmasked(m, s, c, n) == memset_top(m, s, n, Pattern(c))

\* memset(s, c, n): c &= 0xFF (of the int32_t c, its low byte), then the
\* loop with the pattern in eax.
memset(m, s, c, n) == memset_top(m, s, n, Pattern(c % 256))

\* memcpy's .memcpy_bottom: edx single bytes.
RECURSIVE memcpy_bottom(_, _, _, _)
memcpy_bottom(m, edi, esi, edx) ==
  IF edx = 0 THEN m
  ELSE memcpy_bottom([m EXCEPT ![edi] = m[esi]], edi + 1, esi + 1, edx - 1)

\* Mutation: the trailing bytes dropped, as if edx were not saved before
\* shrl $2, %ecx.
memcpy_aligned_norem(m, edi, esi, ecx) ==
  rep_movsl(m, edi, esi, ecx \div 4)

\* .memcpy_aligned: edx = ecx & 3, ecx >>= 2, rep movsl, then the bottom.
memcpy_aligned(m, edi, esi, ecx) ==
  memcpy_bottom(rep_movsl(m, edi, esi, ecx \div 4),
                edi + 4 * (ecx \div 4), esi + 4 * (ecx \div 4), ecx % 4)

\* .memcpy_top: single bytes until ecx is 0 or edi (the destination) is
\* 4-aligned; the source may stay unaligned.
RECURSIVE memcpy_top(_, _, _, _)
memcpy_top(m, edi, esi, ecx) ==
  CASE ecx = 0     -> m
    [] edi % 4 = 0 -> memcpy_aligned(m, edi, esi, ecx)
    [] OTHER       -> memcpy_top([m EXCEPT ![edi] = m[esi]], edi + 1, esi + 1, ecx - 1)

memcpy(m, dest, src, n) == memcpy_top(m, dest, src, n)

\* Mutation: no padding; the bytes after the copied string keep what the
\* buffer held.
strncpy_nopad(dest, n, i) == dest

\* strncpy's second loop: dest[i] = '\0' while i < n.
RECURSIVE strncpy_pad(_, _, _)
strncpy_pad(dest, n, i) ==
  IF i < n THEN strncpy_pad([dest EXCEPT ![i] = 0], n, i + 1) ELSE dest

\* strncpy's first loop: dest[i] = src[i] while src[i] != '\0' && i < n;
\* strings are byte functions with 0 for NUL.
RECURSIVE strncpy_copy(_, _, _, _)
strncpy_copy(dest, src, n, i) ==
  IF src[i] # 0 /\ i < n
  THEN strncpy_copy([dest EXCEPT ![i] = src[i]], src, n, i + 1)
  ELSE strncpy_pad(dest, n, i)

strncpy(dest, src, n) == strncpy_copy(dest, src, n, 0)

(***************************************************************************)
(* printf's format scan.  A character is a one-character string and the   *)
(* NUL byte is the empty string.  A format is the bytes in memory from    *)
(* the format pointer on: the string, its NUL, and whatever follows it.   *)
(***************************************************************************)
NUL == ""

\* The stack words printf's esp walks, past the format pointer.
Args == << << 0, 65 >>, << 32768, 120 >>, << 65535, 65381 >>, << 0, 9 >> >>

\* (uint8_t) of an argument word: its low byte, as a character.
CharOf(w) ==
  CASE w[2] % 256 = 65  -> "A"
    [] w[2] % 256 = 120 -> "x"
    [] w[2] % 256 = 101 -> "e"
    [] w[2] % 256 = 9   -> "\t"

\* The string each argument word points to, with its NUL.
StrAt(w) ==
  CASE w = Args[1] -> << "h", "i", NUL >>
    [] w = Args[2] -> << NUL >>
    [] w = Args[3] -> << "%", "d", NUL >>
    [] w = Args[4] -> << "a", NUL >>

\* puts: putc(s[index]) while s[index] != '\0'.
RECURSIVE puts_loop(_, _)
puts_loop(s, index) ==
  IF s[index + 1] # NUL THEN << s[index + 1] >> \o puts_loop(s, index + 1) ELSE << >>

puts(s) == puts_loop(s, 0)

\* Mutation: case 'c' without its esp++.
format_char_switch_c_keeps_esp(ch, alternate, w) ==
  CASE ch = "%"                -> [out |-> << "%" >>, esp |-> 0]
    [] ch \in {"x", "u", "d"}  -> [out |-> printf_conv(ch, alternate, w), esp |-> 1]
    [] ch = "c"                -> [out |-> << CharOf(w) >>, esp |-> 0]
    [] ch = "s"                -> [out |-> puts(StrAt(w)), esp |-> 1]
    [] OTHER                   -> [out |-> << >>, esp |-> 0]

\* format_char_switch on the character ch after the '%' and any '#'s, with
\* the word at esp: what it prints, and whether it moves esp past it.  A
\* character it does not know (the NUL of a trailing '%' included) prints
\* nothing.
format_char_switch(ch, alternate, w) ==
  CASE ch = "%"                -> [out |-> << "%" >>, esp |-> 0]
    [] ch \in {"x", "u", "d"}  -> [out |-> printf_conv(ch, alternate, w), esp |-> 1]
    [] ch = "c"                -> [out |-> << CharOf(w) >>, esp |-> 1]
    [] ch = "s"                -> [out |-> puts(StrAt(w)), esp |-> 1]
    [] OTHER                   -> [out |-> << >>, esp |-> 0]

\* case '#': alternate = 1, buf++, goto format_char_switch.
RECURSIVE SkipHash(_, _)
SkipHash(f, j) == IF f[j] = "#" THEN SkipHash(f, j + 1) ELSE j

\* printf's while (*buf != '\0') loop, buf at f[i] and esp at args[k]:
\* a '%' runs format_char_switch, any other character is putc'd, and
\* buf++ follows either, so a '%' at the end steps over the NUL.
RECURSIVE printf_scan(_, _, _, _, _)
printf_scan(f, i, k, out, args) ==
  CASE f[i] = NUL -> out
    [] f[i] = "%" ->
         LET j == SkipHash(f, i + 1)
             r == format_char_switch(f[j], IF j > i + 1 THEN 1 ELSE 0, args[k])
         IN  printf_scan(f, j + 1, k + r.esp, out \o r.out, args)
    [] OTHER -> printf_scan(f, i + 1, k, Append(out, f[i]), args)

printf(f, args) == printf_scan(f, 1, 1, << >>, args)

\* multi_printf is printf's scan with multi_putc and multi_puts, which
\* write the running terminal's backing page (Terminal).
multi_printf(f, args) == printf(f, args)

(***************************************************************************)
(* term_write(fd, buf, length).                                           *)
(***************************************************************************)
\* The stack past temp_buf[length + 1]: a byte and a NUL.
StackAfter == << "g", NUL >>

\* Mutation: the copy loop without its break at a NUL.
RECURSIVE term_write_copy_nonul(_, _, _)
term_write_copy_nonul(buf, length, i) ==
  IF i < length THEN term_write_copy_nonul(buf, length, i + 1) ELSE i

\* for (i = 0; i < length; i++) { if (buf[i] == '\0') break; ... }
RECURSIVE term_write_copy(_, _, _)
term_write_copy(buf, length, i) ==
  IF i < length /\ buf[i + 1] # NUL THEN term_write_copy(buf, length, i + 1) ELSE i

\* temp_buf gets the i bytes copied and temp_buf[i] = '\0'; it is printf's
\* format on the displayed terminal and multi_printf's on another, and i
\* is returned.
term_write(buf, length) ==
  LET i        == term_write_copy(buf, length, 0)
      temp_buf == SubSeq(buf, 1, i) \o << NUL >> \o StackAfter
  IN  [ret |-> i, out |-> printf(temp_buf, Args)]

(***************************************************************************)
(* Reference definitions and the inputs they are compared on.             *)
(***************************************************************************)

\* The value of a string of digits in radix r, read from the left as a
\* 32-bit word: acc * r + digit at each step; Overflowed once it passes
\* 32 bits.
Overflowed == << W16, 0 >>
DigitVal(ch) == CHOOSE d \in 0 .. 15 : lookup[d + 1] = ch
MulAdd(acc, r, d) ==
  LET lo == acc[2] * r + d
      hi == acc[1] * r + lo \div W16
  IN  IF acc = Overflowed \/ hi >= W16 THEN Overflowed ELSE << hi, lo % W16 >>
RECURSIVE ParseFrom(_, _, _)
ParseFrom(acc, s, r) ==
  IF s = << >> THEN acc ELSE ParseFrom(MulAdd(acc, r, DigitVal(Head(s))), Tail(s), r)

\* A string of radix-r digits, at least one.
IsDigits(s, r) ==
  Len(s) >= 1 /\ \A i \in 1 .. Len(s) : \E d \in 0 .. r - 1 : lookup[d + 1] = s[i]

\* The numeral of w in radix r: its digits, without leading zeros.
IsNumeral(s, r, w) ==
  /\ IsDigits(s, r)
  /\ s[1] = "0" => Len(s) = 1
  /\ ParseFrom(Zero, s, r) = w

\* Addition of words modulo 2^32.
AddWords(a, b) ==
  LET lo == a[2] + b[2] IN << (a[1] + b[1] + lo \div W16) % W16, lo % W16 >>

\* Argument words at the boundaries, as << high, low >> halves: zero, one
\* digit, a carry into a new digit or a new half, 0x12345678, INT_MAX,
\* INT_MIN and its successor, -10 and -1.
PrintfWords ==
  { << 0, 0 >>, << 0, 1 >>, << 0, 9 >>, << 0, 10 >>, << 0, 15 >>, << 0, 16 >>,
    << 0, 255 >>, << 0, 65535 >>, << 1, 0 >>, << 4660, 22136 >>,
    << 32767, 65535 >>, << 32768, 0 >>, << 32768, 1 >>, << 65535, 65526 >>,
    << 65535, 65535 >> }

\* A memory of distinct bytes, so that a stray store is seen.
Addr == 0 .. 23
Mem0 == [a \in Addr |-> a + 1]

\* Lengths past two dwords and every alignment of either end.
MaxCopy == 9

\* memset's int32_t c: zero, the value paging.c passes, the extremes of
\* a byte, and values whose low byte is not the whole of them.
MemsetValues == {0, 2, 255, 258, -1}

\* strncpy's n, and the bytes of a name: NUL and two letters.
StrN == 3
NameBytes == {0, 65, 66}

\* The destination before the copy: whatever the caller's buffer held.
Garbage == [i \in 0 .. StrN - 1 |-> 7]

\* The length strncpy stops at: the first NUL, or n.
CopyLen(src, n) == CHOOSE l \in 0 .. n : (l = n \/ src[l] = 0) /\ \A i \in 0 .. l - 1 : src[i] # 0

\* The conversions printf's header comment documents, one per token, and
\* a literal character.
FormatTokens ==
  { << "a" >>, << "%", "%" >>, << "%", "x" >>, << "%", "#", "x" >>,
    << "%", "u" >>, << "%", "d" >>, << "%", "c" >>, << "%", "s" >> }

\* What a format of tokens prints, as the header comment documents it:
\* "%%" a '%', each conversion the form of the next argument, %c its
\* character and %s the string it points to; any other character itself.
\* (The number forms are printf_conv's, which PrintfNumbers checks.)
RECURSIVE Meaning(_, _)
Meaning(toks, args) ==
  IF toks = << >> THEN << >>
  ELSE LET t == Head(toks)
           w == Head(args)
       IN  CASE t = << "%", "%" >> -> << "%" >> \o Meaning(Tail(toks), args)
             [] t[1] # "%"         -> t \o Meaning(Tail(toks), args)
             [] t = << "%", "c" >> -> << CharOf(w) >> \o Meaning(Tail(toks), Tail(args))
             [] t = << "%", "s" >> ->
                  SubSeq(StrAt(w), 1, Len(StrAt(w)) - 1) \o Meaning(Tail(toks), Tail(args))
             [] OTHER ->
                  printf_conv(t[Len(t)], IF Len(t) = 3 THEN 1 ELSE 0, w)
                    \o Meaning(Tail(toks), Tail(args))

\* Formats of up to three tokens, and written data of up to three bytes
\* with no '%' (with one, what term_write prints is the format's meaning;
\* see the hazard at terminal.c:192).
MaxTokens == 3
WrittenBytes == {"a", "x", "#", NUL}

(***************************************************************************)
(* The callers: term_write's printf, paging's memset, term_save's and     *)
(* term_restore's memcpy, dir_read's strncpy, each with the arguments of  *)
(* the boundary sets above.                                               *)
(***************************************************************************)
VARIABLE call

Calls ==
  [fn : {"printf"}, w : PrintfWords]
    \cup [fn : {"memset"}, s : 0 .. 3, c : MemsetValues, n : 0 .. MaxCopy]
    \cup [fn : {"memcpy"}, dest : 12 .. 15, src : 0 .. 3, n : 0 .. MaxCopy]
    \cup [fn : {"strncpy"}, src : [0 .. StrN -> NameBytes]]
    \cup [fn : {"format"}, toks : SeqOf(FormatTokens, MaxTokens)]
    \cup {c \in [fn : {"term_write"}, data : SeqOf(WrittenBytes, 3), length : 0 .. 3] :
            c.length <= Len(c.data)}

LibInit == call \in Calls

\* The next call, by any caller, with any arguments.
LibCall == call' \in Calls

LibSpec == LibInit /\ [][LibCall]_call

(***************************************************************************)
(* Properties, each of the routine the current call runs.                 *)
(***************************************************************************)

\* printf's %x, %#x, %u and %d (through itoa and strrev) print the value
\* of the argument word: %#x as exactly eight digits, %d of a negative
\* int32_t as '-' and its magnitude, INT_MIN included, whose negation
\* overflows.
PrintfNumbers ==
  call.fn = "printf" =>
    LET w   == call.w
        alt == printf_conv("x", 1, w)
        d   == printf_conv("d", 0, w)
        mag == Tail(d)
    IN  /\ IsNumeral(printf_conv("x", 0, w), 16, w)
        /\ Len(alt) = 8 /\ IsDigits(alt, 16) /\ ParseFrom(Zero, alt, 16) = w
        /\ IsNumeral(printf_conv("u", 0, w), 10, w)
        /\ IF Negative(w)
           THEN /\ d[1] = "-"
                /\ IsDigits(mag, 10) /\ (mag[1] = "0" => Len(mag) = 1)
                /\ AddWords(ParseFrom(Zero, mag, 10), w) = Zero
                /\ ParseFrom(Zero, mag, 10)[1] <= 2^15
           ELSE IsNumeral(d, 10, w)

\* memset(s, c, n) sets exactly the n bytes from s to the low byte of c,
\* for every alignment of s and n, through the byte head, the rep stosl
\* of the replicated pattern and the byte tail.
MemsetFills ==
  call.fn = "memset" =>
    memset(Mem0, call.s, call.c, call.n) =
      [a \in Addr |-> IF a \in call.s .. call.s + call.n - 1 THEN call.c % 256
                      ELSE Mem0[a]]

\* memcpy(dest, src, n) of disjoint areas makes the n bytes from dest
\* those from src and touches nothing else, for every alignment of
\* either end and every length up to two dwords and a tail.
MemcpyCopies ==
  call.fn = "memcpy" =>
    LET dest == call.dest
        src  == call.src
    IN  memcpy(Mem0, dest, src, call.n) =
          [a \in Addr |-> IF a \in dest .. dest + call.n - 1 THEN Mem0[src + a - dest]
                          ELSE Mem0[a]]

\* strncpy(dest, src, n), as dir_read calls it on a name field of n bytes
\* followed by other data: dest holds the name up to its first NUL or n
\* bytes, and NULs after it up to n, whatever the buffer held before.
StrncpyPads ==
  call.fn = "strncpy" =>
    strncpy(Garbage, call.src, StrN) =
      [i \in 0 .. StrN - 1 |-> IF i < CopyLen(call.src, StrN) THEN call.src[i] ELSE 0]

\* printf prints a format as its header comment documents: literal
\* characters, '%' for "%%", and for each conversion the next argument
\* word, in order, in its form, with '#' making %x eight digits.
PrintfAsDocumented ==
  call.fn = "format" =>
    printf(FlattenSeq(call.toks) \o << NUL >> \o StackAfter, Args) = Meaning(call.toks, Args)

\* term_write of length bytes of buf shows the bytes before the first NUL
\* among them, and returns their number.
TermWriteShows ==
  call.fn = "term_write" =>
    LET p == SubSeq(call.data, 1, call.length)
        z == SelectInSeq(p, LAMBDA c : c = NUL)
        n == IF z = 0 THEN call.length ELSE z - 1
    IN  term_write(call.data, call.length) = [ret |-> n, out |-> SubSeq(p, 1, n)]

=============================================================================
