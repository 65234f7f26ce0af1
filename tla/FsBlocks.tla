------------------------------ MODULE FsBlocks ------------------------------
(***************************************************************************)
(* fs/fs.c: the block cache, the free block bitmap, and the map from the   *)
(* blocks of a file to disk blocks, driven by the requests that fs/serv.c  *)
(* serves one at a time.                                                   *)
(*                                                                         *)
(* Block 1 is the super block, 2 the bitmap, 3 the block of the root       *)
(* directory, which holds the File records; all three stay in the cache.   *)
(* The words of a block are its contents as file_block_walk reads them:    *)
(* block numbers in an indirect block, whatever a client stored elsewhere. *)
(* A request is one step: the server has one thread.                       *)
(*                                                                         *)
(* Clients share the pages of the blocks the server mapped for them, and   *)
(* store words there between requests.  Nothing takes a page back: the     *)
(* client keeps it while its file is truncated or removed by another one,  *)
(* and while the block, freed, becomes a block of another file or an       *)
(* indirect block.  Nor does the server compare the offset of a request    *)
(* with the size of the file: the client loops over the size it was given  *)
(* when it opened the file.  The history strayed says which of this has    *)
(* touched an indirect block; only then can the file system break.         *)
(***************************************************************************)
EXTENDS Integers, FiniteSets

CONSTANTS
  FileName,     \* the files of the root directory
  NBlk,         \* super->s_nblocks
  NDIRECT,      \* direct pointers of a file
  NINDIRECT,    \* largest number of blocks of a file
  BY2BLK,       \* size of a block
  Bnos,         \* the blocks of a file that clients ask for
  Words         \* what clients store in a word of a file

DirBlk == 3
Data == 4..(NBlk - 1)
BlockNo == 0..NBlk      \* 0: none; NBlk: beyond the disk
Slot == NDIRECT..(NINDIRECT - 1)
Size == 0..(NINDIRECT * BY2BLK)

ASSUME FsAssumption ==
  /\ NBlk \in Nat /\ NBlk > DirBlk
  /\ NDIRECT \in Nat /\ NINDIRECT \in Nat /\ NDIRECT < NINDIRECT
  /\ BY2BLK \in Nat \ {0}
  /\ Bnos \subseteq 0..(NINDIRECT - 1)
  /\ Words \subseteq BlockNo

MaxPages == 2    \* a request maps at most an indirect block and a block

Content == [Slot -> BlockNo]
Zeroed == [w \in Slot |-> 0]
Unmapped == <<>>
Clean == {Unmapped, Zeroed}    \* a page that map_block gives, or has zeroes

FileRec == [f_name : BOOLEAN,     \* whether the name is not empty
            f_size : Size,
            f_direct : [0..(NDIRECT - 1) -> BlockNo],
            f_indirect : BlockNo]

VARIABLES
  fs,       \* the server's memory, the disk, and whether the server panicked
  strayed   \* what has befallen indirect blocks, a history

vars == <<fs, strayed>>

FsState == [bitmap : SUBSET Data, \* free blocks
            files  : [FileName -> FileRec],
            cache  : [Data -> Content \union {Unmapped}],
            dirty  : SUBSET (Data \union {DirBlk}),
            disk_bitmap : SUBSET Data,
            disk_files  : [FileName -> FileRec],
            disk   : [Data -> Content],
            lent   : SUBSET Data,  \* blocks whose page a client has
            pages  : 0..MaxPages,  \* pages the kernel gives during the request
            panic  : BOOLEAN]

\* late:     a block of an indirect block was asked for beyond the end of the file
\* stale:    a client stored in the page of an indirect block, once lent to it
\* leftover: an indirect block was made of a page with old words in it
Strays == {"late", "stale", "leftover"}

TypeOK ==
  /\ fs \in FsState
  /\ strayed \subseteq Strays
  /\ \A b \in fs.lent : fs.cache[b] # Unmapped

\* A disk with empty files, as fsformat writes it, read by fs_init.  They may have been
\* larger and truncated since: there are clients that opened them then.
Empty == [f_name |-> TRUE, f_size |-> 0,
          f_direct |-> [i \in 0..(NDIRECT - 1) |-> 0], f_indirect |-> 0]

Init ==
  /\ fs = [bitmap |-> Data, files |-> [f \in FileName |-> Empty],
           cache |-> [b \in Data |-> Unmapped], dirty |-> {},
           disk_bitmap |-> Data, disk_files |-> [f \in FileName |-> Empty],
           disk |-> [b \in Data |-> Zeroed],
           lent |-> {}, pages |-> 0, panic |-> FALSE]
  /\ strayed = {}

-----------------------------------------------------------------------------
(***************************************************************************)
(* The block cache.                                                        *)
(***************************************************************************)
block_is_dirty(s, b) == b \in s.dirty

\* What write_block writes for block b; the page stays dirty.
write_block(s, b) == IF b \in Data THEN s.cache[b] ELSE s.files

flush_blocks(s, B) ==
  LET W == {b \in B : block_is_dirty(s, b)}
  IN  [s EXCEPT
         !.disk = [b \in Data |-> IF b \in W THEN write_block(s, b) ELSE s.disk[b]],
         !.disk_files = IF DirBlk \in W THEN write_block(s, DirBlk) ELSE s.disk_files]

\* A block in use is in the cache, so that the map_block of read_block, whose error
\* is not looked at, is not called.
read_block(s, b) ==
  IF b >= NBlk \/ b \in s.bitmap THEN [s EXCEPT !.panic = TRUE]
  ELSE IF b \in Data /\ s.cache[b] = Unmapped THEN [s EXCEPT !.cache[b] = s.disk[b]]
  ELSE s

\* A page from syscall_mem_alloc is zero; a page that is mapped already is kept.
map_block(s, b) ==
  IF s.cache[b] = Unmapped /\ s.pages > 0
    THEN [s EXCEPT !.cache[b] = Zeroed, !.pages = @ - 1] ELSE s

dirty_block(s, b) ==
  IF b = DirBlk \/ (b \in Data /\ s.cache[b] # Unmapped)
    THEN [s EXCEPT !.dirty = @ \union {b}] ELSE s

\* The cached page of a freed block stays mapped.
free_block(s, b) ==
  IF b = 0 \/ b >= NBlk THEN s ELSE [s EXCEPT !.bitmap = @ \union ({b} \intersect Data)]

\* The block alloc_block returns, 0 standing for -E_NO_DISK.
alloc_block_num(s) ==
  IF s.bitmap = {} THEN 0 ELSE CHOOSE b \in s.bitmap : \A c \in s.bitmap : b <= c

\* The bitmap goes to the disk at once, and not again if there is no page for the
\* block.
alloc_block_at(s, b) ==
  LET rest == s.bitmap \ {b}
      taken == [s EXCEPT !.bitmap = rest, !.disk_bitmap = rest]
      mapped == map_block(taken, b)
  IN  IF mapped.cache[b] = Unmapped
        THEN [s |-> free_block(taken, b), ret |-> "E_NO_MEM", bno |-> 0]
      ELSE [s |-> mapped, ret |-> "ok", bno |-> b]

alloc_block(s) ==
  LET b == alloc_block_num(s)
  IN  IF b = 0 THEN [s |-> s, ret |-> "E_NO_DISK", bno |-> 0] ELSE alloc_block_at(s, b)

-----------------------------------------------------------------------------
(***************************************************************************)
(* Files.  ptr_get and ptr_set access the slot that file_block_walk found. *)
(***************************************************************************)
ptr_get(s, f, bno) ==
  IF bno < NDIRECT THEN s.files[f].f_direct[bno] ELSE s.cache[s.files[f].f_indirect][bno]

ptr_set(s, f, bno, b) ==
  IF bno < NDIRECT THEN [s EXCEPT !.files[f].f_direct[bno] = b]
  ELSE [s EXCEPT !.cache[s.files[f].f_indirect][bno] = b]

\* The outcome of a read_block: user_panic does not return.
Read(s) == [s |-> s, ret |-> IF s.panic THEN "panic" ELSE "ok"]

\* The indirect block is created if it is needed, missing and asked for.
file_block_walk(s, f, bno, alloc) ==
  LET ind == s.files[f].f_indirect
      new == alloc_block(s)
  IN  CASE bno < NDIRECT -> [s |-> s, ret |-> "ok"]
        [] bno >= NINDIRECT -> [s |-> s, ret |-> "E_INVAL"]
        [] bno \in Slot /\ ind # 0 -> Read(read_block(s, ind))
        [] bno \in Slot /\ ind = 0 /\ ~alloc -> [s |-> s, ret |-> "E_NOT_FOUND"]
        [] bno \in Slot /\ ind = 0 /\ alloc /\ new.ret # "ok" -> [s |-> new.s, ret |-> new.ret]
        [] bno \in Slot /\ ind = 0 /\ alloc /\ new.ret = "ok" ->
             Read(read_block([new.s EXCEPT !.files[f].f_indirect = new.bno], new.bno))

\* Mutant of file_map_block: the error of alloc_block is taken for a block.
file_map_block_unchecked(s, f, bno, alloc) ==
  LET w == file_block_walk(s, f, bno, alloc)
      b == ptr_get(w.s, f, bno)
      new == alloc_block(w.s)
  IN  IF w.ret # "ok" THEN [s |-> w.s, ret |-> w.ret, bno |-> 0]
      ELSE IF b # 0 THEN [s |-> w.s, ret |-> "ok", bno |-> b]
      ELSE IF ~alloc THEN [s |-> w.s, ret |-> "E_NOT_FOUND", bno |-> 0]
      ELSE IF new.ret # "ok" THEN [s |-> ptr_set(new.s, f, bno, -1), ret |-> "ok", bno |-> -1]
      ELSE [s |-> ptr_set(new.s, f, bno, new.bno), ret |-> "ok", bno |-> new.bno]

file_map_block(s, f, bno, alloc) ==
  LET w == file_block_walk(s, f, bno, alloc)
      b == ptr_get(w.s, f, bno)
      new == alloc_block(w.s)
  IN  IF w.ret # "ok" THEN [s |-> w.s, ret |-> w.ret, bno |-> 0]
      ELSE IF b # 0 THEN [s |-> w.s, ret |-> "ok", bno |-> b]
      ELSE IF ~alloc THEN [s |-> w.s, ret |-> "E_NOT_FOUND", bno |-> 0]
      ELSE IF new.ret # "ok" THEN [s |-> new.s, ret |-> new.ret, bno |-> 0]
      ELSE [s |-> ptr_set(new.s, f, bno, new.bno), ret |-> "ok", bno |-> new.bno]

\* Mutant of file_clear_block: the pointer is not reset.
file_clear_block_keep(s, f, bno) ==
  LET w == file_block_walk(s, f, bno, FALSE)
  IN  IF w.ret # "ok" THEN w.s ELSE free_block(w.s, ptr_get(w.s, f, bno))

file_clear_block(s, f, bno) ==
  LET w == file_block_walk(s, f, bno, FALSE)
      b == ptr_get(w.s, f, bno)
  IN  IF w.ret # "ok" \/ b = 0 THEN w.s ELSE ptr_set(free_block(w.s, b), f, bno, 0)

file_get_block(s, f, bno) ==
  LET m == file_map_block(s, f, bno, TRUE)
      rd == Read(read_block(m.s, m.bno))
  IN  IF m.ret # "ok" THEN m ELSE [m EXCEPT !.s = rd.s, !.ret = rd.ret]

nblocks(size) == size \div BY2BLK + 1

\* The loops of file_truncate.
clear_blocks(s, f, new, old) ==
  LET n == IF new < old THEN old - new ELSE 0
      cleared[i \in 0..n] ==
        IF i = 0 THEN s ELSE file_clear_block(cleared[i - 1], f, new + i - 1)
  IN  cleared[n]

\* Mutant of file_truncate: the indirect block is freed before the blocks that
\* hang on it.
file_truncate_early(s, f, newsize) ==
  LET new == IF newsize = 0 THEN 0 ELSE nblocks(newsize)
      old == nblocks(s.files[f].f_size)
      s1 == IF new <= NDIRECT
              THEN [free_block(s, s.files[f].f_indirect) EXCEPT !.files[f].f_indirect = 0]
              ELSE s
  IN  [clear_blocks(s1, f, new, old) EXCEPT !.files[f].f_size = newsize]

file_truncate(s, f, newsize) ==
  LET new == IF newsize = 0 THEN 0 ELSE nblocks(newsize)
      old == nblocks(s.files[f].f_size)
      cleared == clear_blocks(s, f, new, old)
      ind == cleared.files[f].f_indirect
      s2 == IF new <= NDIRECT /\ ind # 0
              THEN [free_block(cleared, ind) EXCEPT !.files[f].f_indirect = 0]
              ELSE cleared
  IN  [s2 EXCEPT !.files[f].f_size = newsize]

\* Walking the file may read its indirect block.
flush_block(s, f, bno) ==
  LET m == file_map_block(s, f, bno, FALSE)
  IN  IF m.ret # "ok" THEN m.s ELSE flush_blocks(m.s, {m.bno})

file_flush(s, f) ==
  LET n == nblocks(s.files[f].f_size)
      flushed[i \in 0..n] == IF i = 0 THEN s ELSE flush_block(flushed[i - 1], f, i - 1)
  IN  flushed[n]

\* file_flush of f_dir, the root directory.
dir_flush(s) == flush_blocks(s, {DirBlk})

file_set_size(s, f, newsize) ==
  LET s1 == IF s.files[f].f_size > newsize THEN file_truncate(s, f, newsize) ELSE s
  IN  dir_flush([s1 EXCEPT !.files[f].f_size = newsize])

file_dirty(s, f, bno) ==
  LET m == file_map_block(s, f, bno, FALSE)
  IN  IF m.ret # "ok" THEN m.s ELSE dirty_block(m.s, m.bno)

file_remove(s, f) ==
  dir_flush(file_flush([file_truncate(s, f, 0) EXCEPT !.files[f].f_name = FALSE], f))

fs_sync(s) == flush_blocks(s, Data \union {DirBlk})

-----------------------------------------------------------------------------
(***************************************************************************)
(* Requests.  The files are open, so that requests keep coming for a file  *)
(* that has been removed.                                                  *)
(***************************************************************************)
\* The request is for a block whose pointer file_truncate will not look at.
Late(s, f, bno) ==
  IF bno \in Slot /\ bno >= nblocks(s.files[f].f_size) THEN {"late"} ELSE {}

\* The indirect block that t has and s has not keeps old words.
Leftover(s, t, f) ==
  IF s.files[f].f_indirect = 0 /\ t.files[f].f_indirect # 0
       /\ s.cache[t.files[f].f_indirect] \notin Clean
    THEN {"leftover"} ELSE {}

\* The reply carries the page of the block.  (A page of block 1, 2 or 3 is lent only if
\* a word of an indirect block is wrong, and then anything may happen already.)
map_reply(r, f, bno) ==
  LET given == IF r.ret = "ok" THEN {r.bno} \intersect Data ELSE {}
  IN  /\ fs' = [r.s EXCEPT !.pages = 0, !.lent = @ \union given]
      /\ strayed' = strayed \union Late(fs, f, bno) \union Leftover(fs, r.s, f)

\* n is the memory the kernel has left.
serve_map(f, bno) ==
  \E n \in 0..MaxPages : map_reply(file_get_block([fs EXCEPT !.pages = n], f, bno), f, bno)

serve_set_size(f, size) == fs' = file_set_size(fs, f, size)

serve_dirty(f, bno) == fs' = file_dirty(fs, f, bno)

\* A client closes the root directory, after ls for instance.
serve_dirty_dir == fs' = dirty_block(fs, DirBlk)

serve_close(f) == fs' = dir_flush(file_flush(fs, f))

\* walk_path finds the file unless it has been removed.
serve_remove(f) == fs.files[f].f_name /\ fs' = file_remove(fs, f)

serve_sync == fs' = fs_sync(fs)

\* The loops of open, ftruncate and file_close in user/lib/file.c: any block below a
\* size that the file had once, now or before another client truncated or removed it.
Maps == \E f \in FileName, bno \in Bnos : serve_map(f, bno)

Requests ==
  \/ \E f \in FileName :
       \/ \E bno \in Bnos : serve_dirty(f, bno)
       \/ \E size \in Size : serve_set_size(f, size)
       \/ serve_close(f)
       \/ serve_remove(f)
  \/ serve_dirty_dir
  \/ serve_sync

\* A client stores a word in a page that it has been given, whatever the block of the
\* page is used for by now.
ClientWrite(b, i, w) ==
  /\ b \in fs.lent
  /\ fs' = [fs EXCEPT !.cache[b][i] = w]
  /\ strayed' = strayed \union
       (IF \E f \in FileName : fs.files[f].f_indirect = b THEN {"stale"} ELSE {})

Writes == \E b \in Data, i \in Slot, w \in Words : ClientWrite(b, i, w)

Next == ~fs.panic /\ (Maps \/ (Requests /\ UNCHANGED strayed) \/ Writes)

Spec == Init /\ [][Next]_vars

-----------------------------------------------------------------------------
(***************************************************************************)
(* Properties.                                                             *)
(***************************************************************************)

\* The places that refer to block b: direct pointers, pointers to an indirect
\* block, and the words of indirect blocks.
BlockRefs(b) ==
  {x \in FileName \X (0..NINDIRECT) :
     LET r == fs.files[x[1]]
     IN  \/ x[2] < NDIRECT /\ r.f_direct[x[2]] = b
         \/ x[2] \in Slot /\ r.f_indirect \in Data /\ fs.cache[r.f_indirect] # Unmapped
              /\ fs.cache[r.f_indirect][x[2]] = b
         \/ x[2] = NINDIRECT /\ r.f_indirect = b}

\* A block in use belongs to one place of one file, and a free block to none.
BitmapExact ==
  ~fs.panic => \A b \in Data :
    Cardinality(BlockRefs(b)) = IF b \in fs.bitmap THEN 0 ELSE 1

\* The bitmap is exact: no sequence of mapping, extending, truncating and removing
\* leaks a block or gives it to two files, whatever clients store in the pages they
\* hold, as long as nothing has befallen an indirect block.
BlocksExact == strayed = {} => BitmapExact

\* read_block never meets a block that is free or beyond the disk, its user_panic
\* calls are unreachable, under the same condition.
NoFsPanic == strayed = {} => ~fs.panic

\* What the comment of file_truncate says of the blocks "that were used by the old
\* bigger version but not by our new smaller self": they are freed.  Fails when a
\* client that opened the larger file maps a block after the truncation: the indirect
\* block is freed later with the block still hanging on it.
TruncateFrees == strayed \subseteq {"late"} => BitmapExact

\* What the comment of file_get_block says, "return 0 on success, and read the data to
\* blk, return <0 on error": it returns.  Fails when the indirect block is made of a
\* page that still has what a client stored in it: its words are taken for blocks.
GetBlockReturns == strayed \subseteq {"leftover"} => ~fs.panic
=============================================================================
