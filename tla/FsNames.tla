------------------------------- MODULE FsNames -------------------------------
(***************************************************************************)
(* From the host's files to the names the file server knows: fsformat      *)
(* builds the image (FsImage), the server boots from it (fs_init), finds   *)
(* files by path and removes them (fs/fs.c).  blk is the server's view of  *)
(* the blocks, a cached page or else the disk; what of it reaches the disk *)
(* and when is the subject of FsBlocks.  A path is its sequence of names:  *)
(* skip_slash drops the slashes between, before and after them.            *)
(***************************************************************************)
EXTENDS FsImage

CONSTANTS
  HostFile,   \* host files and directories, [name, dir, size, kids]
  Hosts,      \* what fsformat is given: sequences of them
  Others,     \* names that no host file has
  TooLong     \* a name of MAXNAMELEN characters or more

ASSUME HostAssumption ==
  /\ \A f \in HostFile : f.name # "" /\ f.size \in Nat /\ f.kids \in Seq(HostFile)
  /\ Hosts \subseteq Seq(HostFile)

VARIABLES
  host,     \* the files fsformat is given
  todo,     \* what it has still to write: host file, directory it goes to, its path
  img,      \* the blocks
  boot,     \* the server: where it is, its pages of blocks 0 and 1, the disk's block 1
  gone      \* history: paths removed

vars == <<host, todo, img, boot, gone>>

Pcs == {"format", "failed", "off", "read_super", "smash", "restore", "read_bitmap", "serve",
        "panic"}

TypeOK ==
  /\ host \in Hosts
  /\ img.nextbno \in 0..NBLOCK
  /\ \A b \in Block : \A k \in Slots :
       LET f == img.blk[b].files[k]
       IN  (img.assert => f.f_size <= NINDIRECT * BY2BLK) /\ f.f_indirect \in Block
  /\ boot.pc \in Pcs /\ boot.cut \in BOOLEAN
  /\ {boot.page0, boot.page1, boot.disk1} \subseteq {"none", "boot", "super", "oops"}

Tasks(seq, dirf, path) ==
  [n \in 1..Len(seq) |-> [file |-> seq[n], dirf |-> dirf, path |-> Append(path, seq[n].name)]]

Init ==
  /\ host \in Hosts
  /\ todo = Tasks(host, Root, <<>>)
  /\ img = init_disk
  /\ boot = [pc |-> "format", page0 |-> "none", page1 |-> "none", disk1 |-> "none", cut |-> FALSE]
  /\ gone = {}

-----------------------------------------------------------------------------
(* fsformat *)

\* One argument, or one entry of a directory, depth first.
fsformat ==
  LET t == Head(todo)
      after(d) == boot' = IF d.assert THEN boot ELSE [boot EXCEPT !.pc = "failed"]
  IN  /\ boot.pc = "format" /\ todo # <<>>
      /\ img' = IF t.file.dir THEN write_directory(img, t.dirf, t.path)
                ELSE write_file(img, t.dirf, t.path, t.file.size)
      /\ todo' = IF t.file.dir
                 THEN Tasks(t.file.kids, create_file(img, t.dirf).f, t.path) \o Tail(todo)
                 ELSE Tail(todo)
      /\ after(img')
      /\ UNCHANGED <<host, gone>>

finish_fs ==
  /\ boot.pc = "format" /\ todo = <<>>
  /\ img' = flush_bitmap(img)
  /\ boot' = [boot EXCEPT !.pc = "off", !.disk1 = "super"]
  /\ UNCHANGED <<host, todo, gone>>

-----------------------------------------------------------------------------
(* fs_init *)

\* The bitmap is an array of words that starts in block 2.
block_is_free(d, bno) ==
  LET w == bno \div BIT2WORD
      per == BIT2BLK \div BIT2WORD
  IN  bno < NBLOCK /\ <<w % per, bno % BIT2WORD>> \in d.blk[2 + w \div per].bits

Step(from, b) == boot.pc = from /\ boot' = b /\ UNCHANGED <<host, todo, img, gone>>

read_super ==
  Step("off", [boot EXCEPT !.page1 = boot.disk1,
                           !.pc = IF boot.disk1 = "super" THEN "read_super" ELSE "panic"])

\* check_write_block: the page of block 0 keeps a copy while block 1 is smashed.
check_write_block ==
  \/ Step("read_super", [boot EXCEPT !.pc = "smash", !.page0 = boot.page1,
                                     !.page1 = "oops", !.disk1 = "oops"])
  \/ Step("smash", [boot EXCEPT !.pc = IF boot.disk1 = "oops" THEN "restore" ELSE "panic",
                                !.page1 = boot.page0])
  \/ Step("restore", [boot EXCEPT !.pc = "read_bitmap", !.disk1 = boot.page1])

read_bitmap ==
  Step("read_bitmap", [boot EXCEPT !.pc =
    IF \E b \in 0..(1 + nbitblock) : block_is_free(img, b) THEN "panic" ELSE "serve"])

\* The machine is switched off while the server starts.
PowerCut ==
  \E pc \in {"read_super", "smash", "restore", "read_bitmap"} :
    Step(pc, [boot EXCEPT !.pc = "off", !.page0 = "none", !.page1 = "none",
                          !.cut = @ \/ boot.disk1 = "oops"])

-----------------------------------------------------------------------------
(* Paths *)

\* file_get_block would allocate a missing block; directories have none missing (Sound).
dir_lookup(d, dir, name) ==
  LET found == first_file(d, dir, name)
  IN  IF found = <<>> THEN [ret |-> "E_NOT_FOUND", file |-> dir]
      ELSE [ret |-> "ok", file |-> found]

\* One name of the path.
walk_name(d, w, name) ==
  IF w.ret # "ok" THEN w
  ELSE IF name = TooLong THEN [w EXCEPT !.ret = "E_BAD_PATH"]
  ELSE IF File(d, w.file).f_type # "FTYPE_DIR" THEN [w EXCEPT !.ret = "E_NOT_FOUND"]
  ELSE dir_lookup(d, w.file, name)

walk_path(d, path) ==
  LET at[n \in 0..Len(path)] == IF n = 0 THEN [ret |-> "ok", file |-> Root]
                                ELSE walk_name(d, at[n - 1], path[n])
  IN  at[Len(path)]

SetFree(d, bno) ==
  LET w == bno \div BIT2WORD
      per == BIT2BLK \div BIT2WORD
  IN  [d EXCEPT !.blk[2 + w \div per].bits = @ \union {<<w % per, bno % BIT2WORD>>}]

free_block(d, bno) == IF bno = 0 \/ bno >= NBLOCK THEN d ELSE SetFree(d, bno)

file_clear_block(d, f, i) ==
  LET e == free_block(d, block_of(d, f, i))
  IN  IF i >= NINDIRECT \/ block_of(d, f, i) = 0 THEN d
      ELSE IF i < NDIRECT THEN SetFile(e, f, [File(e, f) EXCEPT !.f_direct[i] = 0])
      ELSE [e EXCEPT !.blk[File(d, f).f_indirect].index[i] = 0]

\* Mutant: the last block of a file that does not fill it is not counted.
file_truncate_short(d, f) ==
  LET old_nblocks == File(d, f).f_size \div BY2BLK
      after[i \in 0..old_nblocks] == IF i = 0 THEN d ELSE file_clear_block(after[i - 1], f, i - 1)
      e == after[old_nblocks]
      g == free_block(e, File(e, f).f_indirect)
  IN  SetFile(g, f, [File(g, f) EXCEPT !.f_indirect = 0, !.f_size = 0])

\* file_truncate(f, 0)
file_truncate(d, f) ==
  LET old_nblocks == File(d, f).f_size \div BY2BLK + 1
      after[i \in 0..old_nblocks] == IF i = 0 THEN d ELSE file_clear_block(after[i - 1], f, i - 1)
      e == after[old_nblocks]
      g == free_block(e, File(e, f).f_indirect)
  IN  SetFile(g, f, [File(g, f) EXCEPT !.f_indirect = 0, !.f_size = 0])

file_remove(path) ==
  LET w == walk_path(img, path)
      d == file_truncate(img, w.file)
  IN  /\ boot.pc = "serve" /\ w.ret = "ok"
      /\ img' = SetFile(d, w.file, [File(d, w.file) EXCEPT !.f_name = ""])
      /\ gone' = gone \union {path}
      /\ UNCHANGED <<host, todo, boot>>

-----------------------------------------------------------------------------
\* The paths of the host's files, with what they name, four levels deep.
Level(S) == UNION {{[path |-> Append(h.path, k.name), file |-> k] : k \in ToSet(h.file.kids)} : h \in S}
HostFiles ==
  LET top == {[path |-> <<>>, file |-> [name |-> "/", dir |-> TRUE, size |-> 0, kids |-> host]]}
  IN  top \union Level(top) \union Level(Level(top)) \union Level(Level(Level(top)))

Next ==
  \/ fsformat \/ finish_fs \/ read_super \/ check_write_block \/ read_bitmap \/ PowerCut
  \/ \E h \in HostFiles : file_remove(h.path)

Spec == Init /\ [][Next]_vars

-----------------------------------------------------------------------------
Gone(path) ==
  \/ path # <<>> /\ <<>> \in gone
  \/ \E i \in 1..Len(path) : SubSeq(path, 1, i) \in gone

\* Looking up a path finds exactly the host's file of that path, with its type, its size
\* and its blocks in order, unless it or a directory above it was removed; any other
\* path is not found.  Nothing a removal or the layout of directories in blocks does
\* makes another file disappear, reappear or show wrong contents.
PathsExact ==
  boot.pc = "serve" =>
    /\ \A h \in HostFiles :
         LET w == walk_path(img, h.path)
             f == File(img, w.file)
         IN  IF Gone(h.path) /\ h.path # <<>> THEN w.ret = "E_NOT_FOUND"
             ELSE /\ w.ret = "ok"
                  /\ f.f_type = IF h.file.dir THEN "FTYPE_DIR" ELSE "FTYPE_REG"
                  /\ ~h.file.dir =>
                       /\ f.f_size = h.file.size
                       /\ \A i \in 0..(CeilDiv(f.f_size, BY2BLK) - 1) :
                            img.blk[block_of(img, w.file, i)].data = <<h.path, i>>
    /\ \A h \in HostFiles : \A name \in Others \union {TooLong} :
         walk_path(img, Append(h.path, name)).ret # "ok"

\* The Files that a name leads to, and the blocks they own, with the number of the
\* pointers to them.
Live == {walk_path(img, h.path).file : h \in {x \in HostFiles : walk_path(img, x.path).ret = "ok"}}
NBlocks(f) == CeilDiv(File(img, f).f_size, BY2BLK)
Owned(f) == {block_of(img, f, i) : i \in 0..(NBlocks(f) - 1)}
             \union ({File(img, f).f_indirect} \ {0})
Reserved == 0..(1 + nbitblock)
InUse == UNION {Owned(f) : f \in Live}
Lost == \E h \in HostFiles : h.file.dir /\ h.file.kids # <<>> /\ h.path \in gone

\* No block belongs to two files or to a file and the system, none that a name leads to
\* is marked free, and none is missing from a file or directory.
Sound ==
  boot.pc = "serve" =>
    /\ 0 \notin InUse /\ InUse \intersect Reserved = {}
    /\ \A f, g \in Live : f # g => Owned(f) \intersect Owned(g) = {}
    /\ \A f \in Live : Cardinality(Owned(f)) =
         NBlocks(f) + (IF File(img, f).f_indirect = 0 THEN 0 ELSE 1)
    /\ \A b \in InUse \union Reserved : ~block_is_free(img, b)

\* Until a directory that holds something is removed (its files then keep their blocks for
\* ever), every block that no name leads to is free, up to the byte the bitmap of the last
\* block is rounded to.
NoneLost ==
  boot.pc = "serve" /\ ~Lost =>
    \A b \in 0..(BIT2BYTE * (NBLOCK \div BIT2BYTE) - 1) :
      b \in InUse \union Reserved \/ block_is_free(img, b)

\* The server starts from the image fsformat made, and starts again after the power
\* failed, unless it failed while the super block on the disk was smashed by the test
\* in check_write_block.
Boots == boot.pc = "panic" => boot.cut
=============================================================================
