------------------------------- MODULE FsImage -------------------------------
(***************************************************************************)
(* tools/fsformat.c: the disk image a host builds from files and           *)
(* directories.  An image d is the array disk, where the super block (1)   *)
(* holds the root File, and nextbno.  A struct File* is the pair of its    *)
(* block and its index there.  What a data block holds is the path of its  *)
(* host file and the number of the block in that file.                     *)
(***************************************************************************)
EXTENDS Integers, FiniteSets, SequencesExt

CONSTANTS
  NBLOCK,     \* blocks of the disk
  BY2BLK,     \* bytes of a block
  BIT2BLK,    \* bits of a bitmap block
  BIT2WORD,   \* bits of a word (32)
  BIT2BYTE,   \* bits of a byte (8)
  NDIRECT,    \* direct pointers of a file
  NINDIRECT,  \* largest number of blocks of a file
  FILE2BLK    \* File records of a block

CeilDiv(a, b) == (a + b - 1) \div b

ASSUME ImageAssumption ==
  /\ {NBLOCK, BY2BLK, BIT2BLK, BIT2WORD, BIT2BYTE, NINDIRECT, FILE2BLK} \subseteq Nat \ {0}
  /\ NDIRECT \in 0..NINDIRECT
  /\ BIT2BLK % BIT2WORD = 0 /\ BIT2WORD % BIT2BYTE = 0
  /\ 2 + CeilDiv(NBLOCK, BIT2BLK) <= NBLOCK    \* the super block and the bitmap

nbitblock == NBLOCK \div BIT2BLK + (IF NBLOCK % BIT2BLK # 0 THEN 1 ELSE 0)

Block == 0..(NBLOCK - 1)
Word == 0..(BIT2BLK \div BIT2WORD - 1)
Bit == 0..(BIT2WORD - 1)
Slots == 0..(FILE2BLK - 1)

NoFile == [f_name |-> "", f_size |-> 0, f_type |-> "FTYPE_REG",
           f_direct |-> [i \in 0..(NDIRECT - 1) |-> 0], f_indirect |-> 0]

\* disk is a static array: a block is zero until it is written.
Zero == [type |-> "BLOCK_FREE", files |-> [k \in Slots |-> NoFile],
         index |-> [i \in 0..(NINDIRECT - 1) |-> 0], bits |-> {}, data |-> <<<<>>, 0>>]

Root == <<1, 0>>
File(d, f) == d.blk[f[1]].files[f[2]]
SetFile(d, f, rec) == [d EXCEPT !.blk[f[1]].files[f[2]] = rec]

\* A set bit is a free block.  The bits beyond the disk are cleared from a byte on.
init_disk ==
  LET diff == (NBLOCK % BIT2BLK) \div BIT2BYTE
      cut == IF NBLOCK # nbitblock * BIT2BLK THEN diff * BIT2BYTE ELSE BIT2BLK
      ones(i) == {wb \in Word \X Bit : i < nbitblock - 1 \/ wb[1] * BIT2WORD + wb[2] < cut}
      blk == [b \in Block |->
                CASE b = 0 -> [Zero EXCEPT !.type = "BLOCK_BOOT"]
                  [] b = 1 -> [Zero EXCEPT !.type = "BLOCK_SUPER",
                                 !.files[0] = [NoFile EXCEPT !.f_name = "/", !.f_type = "FTYPE_DIR"]]
                  [] b \in 2..(1 + nbitblock) -> [Zero EXCEPT !.type = "BLOCK_BMAP", !.bits = ones(b - 2)]
                  [] OTHER -> Zero]
  IN  [blk |-> blk, nextbno |-> 2 + nbitblock, assert |-> TRUE]

\* The block is the old nextbno.  Nothing checks that disk has it: at NBLOCK the code writes
\* behind the array, which is undefined, and here d only counts on.  So what is said of images
\* is said of those that fit, nextbno <= NBLOCK.
next_block(d, type) ==
  LET typed == [d EXCEPT !.blk[d.nextbno].type = type]
  IN  [typed EXCEPT !.nextbno = @ + 1]

\* Mutant: only the blocks of files are marked as used.
flush_bitmap_files_only(d) ==
  LET used(b) == {wb \in Word \X Bit : \E i \in (2 + nbitblock)..(d.nextbno - 1) :
                    b = 2 + i \div BIT2BLK /\ wb = <<(i % BIT2BLK) \div BIT2WORD, i % BIT2WORD>>}
  IN  [d EXCEPT !.blk = [b \in Block |-> [d.blk[b] EXCEPT !.bits = @ \ used(b)]]]

\* Mutant: the last block written is not marked as used.
flush_bitmap_short(d) ==
  LET used(b) == {wb \in Word \X Bit : \E i \in 0..(d.nextbno - 2) :
                    b = 2 + i \div BIT2BLK /\ wb = <<(i % BIT2BLK) \div BIT2WORD, i % BIT2WORD>>}
  IN  [d EXCEPT !.blk = [b \in Block |-> [d.blk[b] EXCEPT !.bits = @ \ used(b)]]]

flush_bitmap(d) ==
  LET used(b) == {wb \in Word \X Bit : \E i \in 0..(d.nextbno - 1) :
                    b = 2 + i \div BIT2BLK /\ wb = <<(i % BIT2BLK) \div BIT2WORD, i % BIT2WORD>>}
  IN  [d EXCEPT !.blk = [b \in Block |-> [d.blk[b] EXCEPT !.bits = @ \ used(b)]]]

\* Mutant: a file that is too large is not noticed.
save_block_link_unchecked(d, f, nblk, bno) ==
  LET fresh == File(d, f).f_indirect = 0
      e == IF ~fresh THEN d
           ELSE SetFile(next_block(d, "BLOCK_INDEX"), f, [File(d, f) EXCEPT !.f_indirect = d.nextbno])
  IN  CASE nblk >= NINDIRECT -> d
        [] nblk < NDIRECT -> SetFile(d, f, [File(d, f) EXCEPT !.f_direct[nblk] = bno])
        [] OTHER -> [e EXCEPT !.blk[File(e, f).f_indirect].index[nblk] = bno]

\* Mutant: the indirect block starts with the first block that has no direct pointer.
save_block_link_shifted(d, f, nblk, bno) ==
  LET fresh == File(d, f).f_indirect = 0
      e == IF ~fresh THEN d
           ELSE SetFile(next_block(d, "BLOCK_INDEX"), f, [File(d, f) EXCEPT !.f_indirect = d.nextbno])
  IN  CASE nblk >= NINDIRECT -> [d EXCEPT !.assert = FALSE]
        [] nblk < NDIRECT -> SetFile(d, f, [File(d, f) EXCEPT !.f_direct[nblk] = bno])
        [] OTHER -> [e EXCEPT !.blk[File(e, f).f_indirect].index[nblk - NDIRECT] = bno]

save_block_link(d, f, nblk, bno) ==
  LET fresh == File(d, f).f_indirect = 0
      e == IF ~fresh THEN d
           ELSE SetFile(next_block(d, "BLOCK_INDEX"), f, [File(d, f) EXCEPT !.f_indirect = d.nextbno])
  IN  CASE nblk >= NINDIRECT -> [d EXCEPT !.assert = FALSE]
        [] nblk < NDIRECT -> SetFile(d, f, [File(d, f) EXCEPT !.f_direct[nblk] = bno])
        [] OTHER -> [e EXCEPT !.blk[File(e, f).f_indirect].index[nblk] = bno]

make_link_block(d, dirf, nblk) ==
  LET e == save_block_link(next_block(d, "BLOCK_FILE"), dirf, nblk, d.nextbno)
  IN  SetFile(e, dirf, [File(e, dirf) EXCEPT !.f_size = @ + BY2BLK])

\* The disk block of the i-th block of a file, 0 if there is none.
block_of(d, f, i) ==
  IF i < NDIRECT THEN File(d, f).f_direct[i]
  ELSE IF File(d, f).f_indirect = 0 THEN 0
  ELSE d.blk[File(d, f).f_indirect].index[i]

\* Every File of a directory, in the order of its blocks.
Entries(d, dirf) ==
  LET nblk == File(d, dirf).f_size \div BY2BLK
  IN  [n \in 1..(nblk * FILE2BLK) |->
         <<block_of(d, dirf, (n - 1) \div FILE2BLK), (n - 1) % FILE2BLK>>]

\* The first File of the directory with this name, <<>> if there is none.
first_file(d, dirf, name) ==
  LET files == Entries(d, dirf)
      hits == {n \in DOMAIN files : File(d, files[n]).f_name = name}
  IN  IF hits = {} THEN <<>> ELSE files[Min(hits)]

\* An unused File of the directory, or the first of a new block.
create_file(d, dirf) ==
  LET unused == first_file(d, dirf, "")
  IN  IF unused # <<>> THEN [d |-> d, f |-> unused]
      ELSE [d |-> make_link_block(d, dirf, File(d, dirf).f_size \div BY2BLK),
            f |-> <<d.nextbno, 0>>]

\* A block of the file is read into disk[nextbno], then that block is taken.
copy_block(d, f, path, iblk) ==
  LET bno == d.nextbno
      read == [d EXCEPT !.blk[bno].data = <<path, iblk>>]
  IN  IF d.assert THEN save_block_link(next_block(read, "BLOCK_DATA"), f, iblk, bno) ELSE d

write_file(d, dirf, path, size) ==
  LET c == create_file(d, dirf)
      named == SetFile(c.d, c.f, [File(c.d, c.f) EXCEPT
                 !.f_name = Last(path), !.f_size = size, !.f_type = "FTYPE_REG"])
      nblk == CeilDiv(size, BY2BLK)
      after[i \in 0..nblk] == IF i = 0 THEN named ELSE copy_block(after[i - 1], c.f, path, i - 1)
  IN  after[nblk]

\* The File of the directory; what it holds is written next.
write_directory(d, dirf, path) ==
  LET c == create_file(d, dirf)
  IN  SetFile(c.d, c.f, [File(c.d, c.f) EXCEPT !.f_name = Last(path), !.f_type = "FTYPE_DIR"])
=============================================================================
