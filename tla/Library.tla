------------------------------- MODULE Library -------------------------------
(***************************************************************************)
(* The algorithms of PrintFmt, Strings and Loader, each called with every  *)
(* input of a bounded set and compared with a definition of what it should *)
(* return that does not follow its loops.                                  *)
(***************************************************************************)
EXTENDS FiniteSets, PrintFmt, Strings, Loader

CONSTANTS
  Formats,    \* formats
  Args,       \* the arguments they are printed with
  Widths, Bases, Numbers,
  MaxChunk,   \* bound: length of a chunk of output, of three
  MemSize,    \* bytes of memory memcpy and memset work in
  Typed,      \* what is typed at the shell
  CmdLines,   \* lines of characters
  Programs,   \* program headers of programs
  PhNums,     \* numbers of program headers
  Junk,       \* what the program headers hold
  MaxStr, MaxArgc   \* bounds: length and number of arguments

ASSUME LibraryAssumption ==
  /\ MaxChunk \in Nat /\ MemSize \in Nat /\ MaxStr \in Nat /\ MaxArgc \in Nat
  /\ PhNums \subseteq Nat /\ Junk \subseteq Nat
  /\ Programs \subseteq Seq(Phdrs)
  /\ \A phs \in Programs : \A k \in 1..Len(phs) : phs[k].p_filesz <= phs[k].p_memsz
  /\ Typed \subseteq Seq(Keys) /\ CmdLines \subseteq Seq(Keys)
  /\ \A line \in CmdLines : NUL \notin ToSet(line)

VARIABLES
  op,     \* the function called, or "none"
  in,     \* what it was given
  out     \* what it returned

vars == <<op, in, out>>

Init == op = "none" /\ in = <<>> /\ out = <<>>

Idle == op = "none"
Call(name, input, result) ==
  op' = name /\ in' = input /\ out' = result

Printf == Idle /\ \E fmt \in Formats : Call("vprintfmt", <<fmt>>, vprintfmt(fmt, Args))

PrintNum ==
  Idle /\ \E u \in Numbers, base \in Bases, neg, left, up \in BOOLEAN, width \in Widths, padc \in {" ", "0"} :
    Call("print_num", <<u, base, neg, width, left, padc, up>>,
         print_num(u, base, neg, width, left, padc, up))

Chunk(k, n) == [i \in 1..n |-> <<k, i>>]

Debugf ==
  Idle /\ \E a, b, c \in 0..MaxChunk :
    LET chunks == <<Chunk(1, a), Chunk(2, b), Chunk(3, c)>>
    IN  Call("debugf", chunks, vdebugf(chunks).cons)

Memory == [a \in 0..(MemSize - 1) |-> a]

\* The regions do not overlap, as memcpy requires.
Memcpy ==
  Idle /\ \E dst, src, n \in 0..(MemSize - 1) :
    /\ dst + n <= MemSize /\ src + n <= MemSize /\ (dst + n <= src \/ src + n <= dst)
    /\ Call("memcpy", <<dst, src, n>>, memcpy(Memory, dst, src, n))

Memset ==
  Idle /\ \E dst, n \in 0..(MemSize - 1) :
    dst + n <= MemSize /\ Call("memset", <<dst, n>>, memset(Memory, dst, -1, n))

Readline == Idle /\ \E typed \in Typed : Call("readline", typed, readline(typed))

Tokens == Idle /\ \E line \in CmdLines : Call("gettoken", line, gettokens(line))

Ranges ==
  Idle /\ \E va, pa, len \in 0..(AddrSize - 1) :
    Call("range", <<va, pa, len>>, <<sys_dev(va, pa, len), sys_print_cons(va, len)>>)

LoadSegments == Idle /\ \E phs \in Programs : Call("load_segments", phs, load_segments(phs))

Headers ==
  Idle /\ \E phnum \in PhNums, junk \in Junk :
    LET ehdr == [f \in Fields |-> CASE f = E_PHOFF -> SIZEOF_EHDR
                                   [] f = E_PHENTSIZE -> SIZEOF_PHDR
                                   [] f = E_PHNUM -> phnum]
    IN  Call("headers", <<phnum>>, phdr_offsets(ehdr, junk))

InitStack ==
  Idle /\ \E argc \in 0..MaxArgc : \E lens \in [1..argc -> 0..MaxStr] :
    Call("init_stack", lens, init_stack(lens))

Next ==
  \/ PrintNum \/ Printf \/ Debugf \/ Memcpy \/ Memset \/ Readline \/ Tokens \/ Ranges
  \/ LoadSegments \/ Headers \/ InitStack

Spec == Init /\ [][Next]_vars

-----------------------------------------------------------------------------
\* vprintfmt prints what its format says, for every format and in particular for one that
\* ends inside a specifier, and never reads behind the end of the format.
FormatExact ==
  op = "vprintfmt" =>
    /\ out.done /\ out.pos = Len(in[1]) + 1
    /\ out.out = Formatted(in[1], Args)

\* print_num, which fills a buffer backwards and reverses part of it, prints sign, padding
\* and digits in their order, in a field no longer than it must be.
NumberExact ==
  op = "print_num" =>
    out = Field(IF in[3] THEN <<"-">> ELSE <<>>, Numeral(in[1], in[2], in[7]), in[4], in[5], in[6])

\* debugf loses, repeats and reorders nothing, wherever its buffer fills up.
OutputKept == op = "debugf" => out = in[1] \o in[2] \o in[3]

\* What is printed is what the format and its arguments say, on its whole way through
\* vprintfmt, print_num and the buffer of debugf.
PrintExact == FormatExact /\ NumberExact /\ OutputKept

\* memcpy and memset change exactly the n bytes they are told to, and their word accesses
\* are aligned, as the processor demands.
BytesExact ==
  /\ op = "memcpy" => /\ out.ok
                      /\ out.mem = [a \in DOMAIN Memory |->
                           IF a \in in[1]..(in[1] + in[3] - 1) THEN in[2] + (a - in[1]) ELSE a]
  /\ op = "memset" => /\ out.ok
                      /\ out.mem = [a \in DOMAIN Memory |->
                           IF a \in in[1]..(in[1] + in[2] - 1) THEN -1 ELSE a]

\* What the user sees on the line: a backspace takes the last character away.
Edited(typed) ==
  LET key[s \in Seq(Keys)] ==
        [c \in Keys |-> IF c # DEL THEN Append(s, c) ELSE IF s = <<>> THEN s ELSE Front(s)]
  IN  Through(key, <<>>, typed)
FirstNL(typed) == CHOOSE i \in 1..Len(typed) : typed[i] = NL /\ \A j \in 1..(i - 1) : typed[j] # NL

\* The line typed, which the end of the input may cut short, and whether it ever filled the
\* buffer.
TypedLine(typed) == IF NL \in ToSet(typed) THEN SubSeq(typed, 1, FirstNL(typed) - 1) ELSE typed
Fills(line) == \E i \in 1..Len(line) : Len(Edited(SubSeq(line, 1, i))) = BUFSIZE

\* readline returns the line as the user edited it, and an empty one if it ever filled the
\* buffer, whether a newline or the end of the input follows.  The end of the input ends the
\* shell only in a line that never did.
LineExact ==
  op = "readline" =>
    out = IF Fills(TypedLine(in)) THEN <<>>
          ELSE IF NL \in ToSet(in) THEN Edited(TypedLine(in)) ELSE <<"exit">>

\* The words and symbols of a line, character by character.
WordsOf(line) ==
  LET flush(a) == IF a.cur = <<>> THEN a.out ELSE Append(a.out, a.cur)
      read[a \in [cur : Seq(Keys), out : Seq(Seq(Keys))]] ==
        [c \in Keys |->
          CASE c \in WHITESPACE -> [cur |-> <<>>, out |-> flush(a)]
            [] c \in SYMBOLS -> [cur |-> <<>>, out |-> Append(flush(a), <<c>>)]
            [] OTHER -> [a EXCEPT !.cur = Append(@, c)]]
  IN  flush(Through(read, [cur |-> <<>>, out |-> <<>>], line))

\* Every token is the string it should be at the time gettoken returns it, although the
\* line is cut up in place and words need no space before a symbol.
TokensExact == op = "gettoken" => out = WordsOf(in)

\* The shell runs the words and symbols of the line as the user edited it: what readline
\* and gettoken make of the characters typed.
InputExact == LineExact /\ TokensExact

\* A system call that copies to or from a device, or prints, touches user addresses and
\* the registers of one device only: no length makes an end wrap around into range.
RangesSafe ==
  op = "range" =>
    LET va == in[1]
        pa == in[2]
        len == in[3]
    IN  /\ out[1] <=> \/ len = 0
                      \/ /\ UTEMP <= va /\ va + len <= UTOP
                         /\ \E d \in Devices : d[1] <= pa /\ pa + len <= d[1] + d[2]
        /\ out[2] <=> va < UTOP /\ va + len <= UTOP

\* The pages of a segment, and what each byte in them should be.
Extent(ph) == RoundDown(ph.p_vaddr, BY2PG)..(RoundUp(ph.p_vaddr + ph.p_memsz, BY2PG) - 1)
FilePart(ph) == ph.p_vaddr..(ph.p_vaddr + ph.p_filesz - 1)
SegmentByte(ph, a) == IF a \in FilePart(ph) THEN ph.p_offset + (a - ph.p_vaddr) + 1 ELSE 0

\* The segments that are loaded right: they start on a page, or their file part fills the
\* first page, or there is nothing behind it.  Otherwise the page with the file part is
\* mapped a second time, zeroed.
Loadable(ph) ==
  LET offset == ph.p_vaddr % BY2PG
  IN  offset = 0 \/ ph.p_filesz >= BY2PG - offset \/ ph.p_filesz = ph.p_memsz

\* What a linker script like user.lds makes: such segments, no two of them on one page.
PageAligned(phs) ==
  /\ \A k \in 1..Len(phs) : Loadable(phs[k])
  /\ \A j, k \in 1..Len(phs) : j # k => Extent(phs[j]) \intersect Extent(phs[k]) = {}

\* The segments of a PageAligned program are in memory together, each with its file part,
\* zeroes up to its size in memory and nothing else in its pages, and no other page is.
SegmentsExact ==
  op = "load_segments" /\ PageAligned(in) =>
    /\ DOMAIN out = UNION {Extent(in[k]) : k \in 1..Len(in)}
    /\ \A k \in 1..Len(in) : \A a \in Extent(in[k]) : out[a] = SegmentByte(in[k], a)

\* "Map all section at correct virtual address": the file part of every segment is in memory
\* where the header says, if no two segments share a byte.
SegmentsMapped ==
  op = "load_segments"
    /\ (\A j, k \in 1..Len(in) : j # k =>
          in[j].p_vaddr + in[j].p_memsz <= in[k].p_vaddr \/ in[k].p_vaddr + in[k].p_memsz <= in[j].p_vaddr) =>
    \A k \in 1..Len(in) : \A a \in FilePart(in[k]) : a \in DOMAIN out /\ out[a] = SegmentByte(in[k], a)

\* spawn reads every program header, once, although each one it reads overwrites part of
\* the ELF header that says how many there are and how long they are.
HeadersRead ==
  op = "headers" => out = [k \in 1..in[1] |-> SIZEOF_EHDR + (k - 1) * SIZEOF_PHDR]

\* What the program reads in its page: a word, and n + 1 characters.
Word(page, a) == CHOOSE v \in {w[2] : w \in {x \in page.words : x[1] = a}} : TRUE
Character(page, a) == CHOOSE v \in {w[2] : w \in {x \in page.chars : x[1] = a}} : TRUE
CharsFrom(page, a, n) == [j \in 0..n |-> Character(page, a + j)]

\* argc and argv are at the stack pointer, each argv[i] is a string of its own that ends
\* where it should, all inside the page, the words aligned and none on top of a string.
ArgumentsFound(lens, page) ==
  LET argc == Word(page, page.sp)
      argv == Word(page, page.sp + 4)
      bytes == {c[1] : c \in page.chars}
      words == {w[1] : w \in page.words}
  IN  /\ argc = Len(lens)
      /\ \A i \in 1..argc : CharsFrom(page, Word(page, argv + 4 * (i - 1)), lens[i]) =
           [j \in 0..lens[i] |-> IF j = lens[i] THEN <<0, 0>> ELSE <<i, j>>]
      /\ bytes \union UNION {w..(w + 3) : w \in words} \subseteq PageBytes(USTACKBASE)
      /\ \A w \in words : w % 4 = 0 /\ (w..(w + 3)) \intersect bytes = {}
      /\ Cardinality(words) = argc + 3

\* If the arguments fit, the new program finds the argc strings.  Nothing is said of the
\* word after the last one.
StackExact == op = "init_stack" /\ out.ok => ArgumentsFound(in, out)

\* "Set args[argc] to 0 to null-terminate the args array": argv ends with a null pointer.
ArgsTerminated ==
  op = "init_stack" /\ out.ok => Word(out, Word(out, out.sp + 4) + 4 * Len(in)) = 0

\* A program whose segments are PageAligned starts with them in memory, those its file
\* announces, and with the strings it was called with.
ProgramLoaded == SegmentsExact /\ HeadersRead /\ StackExact
=============================================================================
