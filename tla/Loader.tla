------------------------------- MODULE Loader -------------------------------
(***************************************************************************)
(* How a program gets into memory: elf_load_seg (lib/elfloader.c) with the *)
(* mappers of the kernel (load_icode_mapper, kern/env.c) and of spawn      *)
(* (spawn_mapper, user/lib/spawn.c) for one segment after the other, the   *)
(* loop of spawn over the program headers, and the stack page with the     *)
(* arguments (init_stack).                                                 *)
(***************************************************************************)
EXTENDS SequencesExt, Loops

CONSTANTS
  BY2PG,          \* size of a page
  USTACKBASE,     \* USTACKTOP - BY2PG, where the child has its stack page
  UTEMPPAGE       \* UTEMP, where the parent has it

\* Pages hold words, and the stack page begins where a page does.
ASSUME LoaderAssumption ==
  /\ BY2PG \in Nat \ {0} /\ BY2PG % 4 = 0 /\ USTACKBASE \in Nat /\ UTEMPPAGE \in Nat
  /\ USTACKBASE % BY2PG = 0 /\ USTACKBASE % 4 = 0

RoundDown(a, n) == n * (a \div n)
RoundUp(a, n) == RoundDown(a + n - 1, n)
Smaller(a, b) == IF a < b THEN a ELSE b
Larger(a, b) == IF a < b THEN b ELSE a

-----------------------------------------------------------------------------
(* Memory is a function from the bytes of the mapped pages; 0 is a zero byte *)

PageBytes(va) == RoundDown(va, BY2PG)..(RoundDown(va, BY2PG) + BY2PG - 1)

\* Both mappers: a zeroed page replaces what was mapped there; len bytes of the file,
\* from index src on, are copied to offset.  src < 0 is NULL.
map_page(mem, va, offset, src, len) ==
  LET page == RoundDown(va, BY2PG)
      byte(a) == IF src >= 0 /\ a - page \in offset..(offset + len - 1)
                 THEN src + (a - page - offset) + 1 ELSE 0
  IN  [a \in DOMAIN mem \union PageBytes(va) |-> IF a \in PageBytes(va) THEN byte(a) ELSE mem[a]]

\* Mutant: the file part is loaded as if the segment started on a page.
elf_load_seg_aligned(mem, bin, va, bin_size, sgsize) ==
  LET n == RoundUp(bin_size, BY2PG) \div BY2PG
      file(m, k) == map_page(m, va + (k - 1) * BY2PG, 0, bin + (k - 1) * BY2PG,
                             Smaller(bin_size - (k - 1) * BY2PG, BY2PG))
      zero(m, k) == IF (k - 1) * BY2PG < sgsize /\ k > n
                    THEN map_page(m, va + (k - 1) * BY2PG, 0, -1, 0) ELSE m
  IN  FoldLeft(zero, FoldLeft(file, mem, [k \in 1..n |-> k]), [k \in 1..(sgsize + 1) |-> k])

\* One turn: while there is file left, then while the segment goes on.
load_turn(bin, va, bin_size, sgsize, s) ==
  CASE s.i < bin_size ->
         [m |-> map_page(s.m, va + s.i, 0, bin + s.i, Smaller(bin_size - s.i, BY2PG)), i |-> s.i + BY2PG]
    [] s.i >= bin_size /\ s.i < sgsize -> [m |-> map_page(s.m, va + s.i, 0, -1, 0), i |-> s.i + BY2PG]
    [] OTHER -> s

\* What comes before the first whole page.
load_start(mem, bin, va, bin_size) ==
  LET offset == va % BY2PG
      first == Smaller(bin_size, BY2PG - offset)
  IN  IF offset = 0 THEN [m |-> mem, i |-> 0]
      ELSE [m |-> map_page(mem, va, offset, bin, first), i |-> first]

\* Byte i of the file is i + 1, and the segment's begin with byte bin.
elf_load_seg(mem, bin, va, bin_size, sgsize) ==
  LET after[k \in 0..Larger(bin_size, sgsize)] ==
        IF k = 0 THEN load_start(mem, bin, va, bin_size)
        ELSE load_turn(bin, va, bin_size, sgsize, after[k - 1])
  IN  after[Larger(bin_size, sgsize)].m

\* Elf32_Phdr
Phdrs == [p_offset : Nat, p_vaddr : Nat, p_filesz : Nat, p_memsz : Nat]

\* spawn and load_icode: the segments of a program, in the order of its headers, each into
\* the memory that the ones before it left.
load_segments(phs) ==
  LET loaded[k \in 0..Len(phs)] ==
        IF k = 0 THEN <<>>
        ELSE elf_load_seg(loaded[k - 1], phs[k].p_offset, phs[k].p_vaddr, phs[k].p_filesz, phs[k].p_memsz)
  IN  loaded[Len(phs)]

-----------------------------------------------------------------------------
(***************************************************************************)
(* spawn reads every program header into elfbuf, over the ELF header that  *)
(* the loop takes its count and its stride from: elfbuf[f] is the field at *)
(* byte f.                                                                 *)
(***************************************************************************)
E_PHOFF == 28
E_PHENTSIZE == 42
E_PHNUM == 44
SIZEOF_PHDR == 32
SIZEOF_EHDR == 52

\* readn of n bytes of a program header: the fields it reaches are overwritten.
Overwrite(buf, n, junk) == [f \in DOMAIN buf |-> IF f < n THEN junk ELSE buf[f]]

Fields == {E_PHOFF, E_PHENTSIZE, E_PHNUM}
Reading ==
  [buf : [Fields -> Nat], idx : Nat, off : Nat, seen : Seq(Nat)]

\* Mutant: a header of the wrong kind is read.
phdr_offsets_ehdr(buf, junk) ==
  LET read[s \in Reading] ==
        IF s.idx >= s.buf[E_PHNUM] THEN s
        ELSE LET b == Overwrite(s.buf, SIZEOF_EHDR, junk)
             IN  [buf |-> b, idx |-> s.idx + 1, off |-> s.off + b[E_PHENTSIZE],
                  seen |-> Append(s.seen, s.off)]
  IN  Iterate(read, [buf |-> buf, idx |-> 0, off |-> buf[E_PHOFF], seen |-> <<>>],
              buf[E_PHNUM] + junk).seen

\* ELF_FOREACH_PHDR_OFF: the offsets of the file that are read as program headers.  E_PHNUM
\* is what it was or junk, so there are no more turns than that.
phdr_offsets(buf, junk) ==
  LET read[s \in Reading] ==
        IF s.idx >= s.buf[E_PHNUM] THEN s
        ELSE LET b == Overwrite(s.buf, s.buf[E_PHENTSIZE], junk)
             IN  [buf |-> b, idx |-> s.idx + 1, off |-> s.off + b[E_PHENTSIZE],
                  seen |-> Append(s.seen, s.off)]
  IN  Iterate(read, [buf |-> buf, idx |-> 0, off |-> buf[E_PHOFF], seen |-> <<>>],
              buf[E_PHNUM] + junk).seen

-----------------------------------------------------------------------------
(* init_stack: argument i is a string of lens[i] characters, written <<i, j>> *)

\* Where string i starts, counted from the first, and how long they are together.
StringOff(lens, i) ==
  LET off[k \in 0..Len(lens)] == IF k = 0 THEN 0 ELSE off[k - 1] + lens[k] + 1
  IN  off[i - 1]
Total(lens) == StringOff(lens, Len(lens) + 1)

\* The bytes and words it writes, as <<address in the child, value>>, where nwords is the
\* length of the args array.
StackPage(lens, nwords) ==
  LET argc == Len(lens)
      tot == Total(lens)
      strings == UTEMPPAGE + BY2PG - tot
      args == UTEMPPAGE + BY2PG - RoundUp(tot, 4) - 4 * nwords
      child(a) == USTACKBASE - UTEMPPAGE + a
      chars == UNION {{<<child(strings) + StringOff(lens, i) + j,
                         IF j = lens[i] THEN <<0, 0>> ELSE <<i, j>>>> : j \in 0..lens[i]} : i \in 1..argc}
      words == {<<child(args) + 4 * (i - 1), child(strings) + StringOff(lens, i)>> : i \in 1..argc}
                 \union {<<child(args) + 4 * argc, child(strings) + tot - 1>>,
                         <<child(args) - 4, child(args)>>, <<child(args) - 8, argc>>}
  IN  [ok |-> RoundUp(tot, 4) + 4 * (argc + 3) <= BY2PG, sp |-> child(args) - 8,
       chars |-> chars, words |-> words]

\* Mutant: the terminator of the args array is not counted.
init_stack_tight(lens) == StackPage(lens, Len(lens))

init_stack(lens) == StackPage(lens, Len(lens) + 1)
=============================================================================
