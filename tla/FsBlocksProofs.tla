--------------------------- MODULE FsBlocksProofs ---------------------------
(***************************************************************************)
(* The blocks of files for any number of files and blocks: the types, and, *)
(* until a late request, a stale store or leftover words touch an indirect *)
(* block, that the bitmap is exact and that the server does not panic.     *)
(***************************************************************************)
EXTENDS FsBlocks, FiniteSetTheorems, WellFoundedInduction, TLAPS

Place == 0..NINDIRECT

\* The block number at a place of file f.
Word(s, f, i) ==
  IF i < NDIRECT THEN s.files[f].f_direct[i]
  ELSE IF i = NINDIRECT THEN s.files[f].f_indirect
  ELSE IF s.files[f].f_indirect # 0 THEN s.cache[s.files[f].f_indirect][i] ELSE 0

\* Indirect blocks are blocks of the disk; what is in use, dirty or
\* lent is in the cache.
Typed(s) ==
  /\ s \in FsState
  /\ \A f \in FileName : s.files[f].f_indirect # 0 =>
       s.files[f].f_indirect \in Data /\ s.cache[s.files[f].f_indirect] # Unmapped
  /\ \A b \in Data : b \in s.dirty \/ b \notin s.bitmap \/ b \in s.lent => s.cache[b] # Unmapped

\* Every place that is not empty has a block of its own, and every block in use has a
\* place.
Exact(s) ==
  /\ \A f \in FileName, i \in Place : Word(s, f, i) # 0 =>
       /\ Word(s, f, i) \in Data \ s.bitmap
       /\ \A g \in FileName, j \in Place : Word(s, g, j) = Word(s, f, i) => g = f /\ j = i
  /\ \A b \in Data \ s.bitmap : \E f \in FileName, i \in Place : Word(s, f, i) = b

\* An indirect block holds blocks below the size of the file only, so that truncating
\* the file to its direct pointers empties it.
Within(s) ==
  \A f \in FileName, i \in Slot : Word(s, f, i) # 0 => i < nblocks(s.files[f].f_size)

Good(s) == Typed(s) /\ Exact(s) /\ Within(s) /\ ~s.panic

\* No file has an indirect block.
NoIndirect(s) == \A f \in FileName : s.files[f].f_indirect = 0

-----------------------------------------------------------------------------
(* Sets of block numbers, contents and the fields of a state. *)

LEMMA Least ==
  ASSUME NEW S, S \subseteq Nat, S # {}
  PROVE  \E x \in S : \A y \in S : x <= y
<1>1. \E x \in S : \A y \in S : ~(<<y, x>> \in OpToRel(<, Nat))
  BY NatLessThanWellFounded, WFMin, Zenon
<1>2. PICK x \in S : \A y \in S : ~(<<y, x>> \in OpToRel(<, Nat))
  BY <1>1, Zenon
<1>3. \A y \in S : ~(y < x)
  BY <1>2, Zenon DEF OpToRel
<1> QED BY <1>3

\* The numbers the modules compare blocks with.
LEMMA Numbers ==
  /\ Data \subseteq Nat \ {0, DirBlk} /\ Data \subseteq BlockNo /\ 0 \in BlockNo
  /\ \A b \in Data : b < NBlk
  /\ Slot # {} /\ Slot \subseteq Place /\ 0..(NDIRECT - 1) \subseteq Place /\ NINDIRECT \in Place
  /\ NINDIRECT \notin Slot
  /\ \A i \in Place : i < NDIRECT \/ i \in Slot \/ i = NINDIRECT
  /\ \A i \in Slot : ~(i < NDIRECT)
<1> USE DEF DirBlk
<1>1. NBlk \in Nat /\ NBlk > 3
  BY FsAssumption
<1>2. NDIRECT \in Nat /\ NINDIRECT \in Nat /\ NDIRECT < NINDIRECT
  BY FsAssumption
<1>3. /\ Data \subseteq Nat \ {0, DirBlk} /\ Data \subseteq BlockNo /\ 0 \in BlockNo
      /\ \A b \in Data : b < NBlk
  BY <1>1 DEF Data, BlockNo
<1>4. /\ Slot # {} /\ Slot \subseteq Place /\ 0..(NDIRECT - 1) \subseteq Place
      /\ NINDIRECT \in Place /\ NINDIRECT \notin Slot
      /\ \A i \in Place : i < NDIRECT \/ i \in Slot \/ i = NINDIRECT
      /\ \A i \in Slot : ~(i < NDIRECT)
  <2>1. NDIRECT \in Slot
    BY <1>2 DEF Slot
  <2>2. Slot \subseteq Place /\ 0..(NDIRECT - 1) \subseteq Place
    BY <1>2 DEF Slot, Place
  <2>3. NINDIRECT \in Place /\ NINDIRECT \notin Slot
    BY <1>2 DEF Slot, Place
  <2>4. \A i \in Place : i < NDIRECT \/ i \in Slot \/ i = NINDIRECT
    BY <1>2 DEF Slot, Place
  <2>5. \A i \in Slot : ~(i < NDIRECT)
    BY <1>2 DEF Slot
  <2> QED BY <2>1, <2>2, <2>3, <2>4, <2>5
<1> QED BY <1>3, <1>4

LEMMA Mapped ==
  /\ Zeroed \in Content
  /\ \A c \in Content : c # Unmapped
<1>1. Zeroed \in Content
  BY Numbers DEF Zeroed, Content
<1>2. ASSUME NEW c \in Content
      PROVE  c # Unmapped
  <2>1. DOMAIN c = Slot
    BY DEF Content
  <2>2. DOMAIN Unmapped = {}
    BY DEF Unmapped
  <2> QED BY <2>1, <2>2, Numbers
<1> QED BY <1>1, <1>2

LEMMA Fields ==
  ASSUME NEW s \in FsState
  PROVE  /\ s.bitmap \subseteq Data /\ s.dirty \subseteq Data \union {DirBlk}
         /\ s.disk_bitmap \subseteq Data
         /\ s.files \in [FileName -> FileRec] /\ s.disk_files \in [FileName -> FileRec]
         /\ s.cache \in [Data -> Content \union {Unmapped}] /\ s.disk \in [Data -> Content]
         /\ \A f \in FileName : /\ s.files[f].f_direct \in [0..(NDIRECT - 1) -> BlockNo]
                                /\ s.files[f].f_indirect \in BlockNo /\ s.files[f].f_size \in Size
                                /\ s.files[f].f_name \in BOOLEAN
<1>1. /\ s.bitmap \subseteq Data /\ s.dirty \subseteq Data \union {DirBlk}
      /\ s.disk_bitmap \subseteq Data
      /\ s.files \in [FileName -> FileRec] /\ s.disk_files \in [FileName -> FileRec]
      /\ s.cache \in [Data -> Content \union {Unmapped}] /\ s.disk \in [Data -> Content]
  BY DEF FsState
<1>2. ASSUME NEW f \in FileName
      PROVE  /\ s.files[f].f_direct \in [0..(NDIRECT - 1) -> BlockNo]
             /\ s.files[f].f_indirect \in BlockNo /\ s.files[f].f_size \in Size
             /\ s.files[f].f_name \in BOOLEAN
  <2>1. s.files[f] \in FileRec
    BY <1>1
  <2> QED BY <2>1 DEF FileRec
<1> QED BY <1>1, <1>2

-----------------------------------------------------------------------------
(* What the operations change, and that they keep the types. *)

\* A state that differs from s in its cache, its disk and what is dirty.
LEMMA SetCache ==
  ASSUME NEW s, s \in FsState, NEW c \in [Data -> Content \union {Unmapped}]
  PROVE  LET t == [s EXCEPT !.cache = c]
         IN  /\ t \in FsState /\ t.cache = c
             /\ t.files = s.files /\ t.bitmap = s.bitmap /\ t.dirty = s.dirty /\ t.lent = s.lent
             /\ t.panic = s.panic
BY DEF FsState

\* The block that alloc_block_num takes is free.
LEMMA AllocNum ==
  ASSUME NEW s, s \in FsState, alloc_block_num(s) # 0
  PROVE  alloc_block_num(s) \in s.bitmap
<1>1. s.bitmap # {} /\ s.bitmap \subseteq Nat
  BY Fields, Numbers DEF alloc_block_num
<1>2. \E b \in s.bitmap : \A c \in s.bitmap : b <= c
  BY <1>1, Least
<1> QED BY <1>1, <1>2 DEF alloc_block_num

\* alloc_block gives a free block with a page, or changes nothing but the disk's bitmap.
LEMMA Alloc ==
  ASSUME NEW s, Typed(s)
  PROVE  LET a == alloc_block(s)
             b == a.bno
             t == a.s
         IN  /\ Typed(t) /\ t.files = s.files /\ t.panic = s.panic
             /\ a.ret # "ok" => t.bitmap = s.bitmap /\ t.cache = s.cache
             /\ a.ret = "ok" =>
                  /\ b \in s.bitmap /\ b \in Data /\ t.bitmap = s.bitmap \ {b}
                  /\ t.cache[b] # Unmapped
                  /\ t.cache[b] = IF s.cache[b] = Unmapped THEN Zeroed ELSE s.cache[b]
                  /\ \A c \in Data \ {b} : t.cache[c] = s.cache[c]
<1> DEFINE b == alloc_block_num(s)
           u == [s EXCEPT !.bitmap = s.bitmap \ {b}, !.disk_bitmap = s.bitmap \ {b}]
           v == [u EXCEPT !.bitmap = u.bitmap \union ({b} \intersect Data)]
           c == [s.cache EXCEPT ![b] = Zeroed]
           t == map_block(u, b)
           a == alloc_block(s)
<1>1. s \in FsState
  BY DEF Typed
<1>2. CASE b = 0
  <2>1. a = [s |-> s, ret |-> "E_NO_DISK", bno |-> 0]
    BY <1>2 DEF alloc_block
  <2> HIDE DEF a
  <2>2. a.s = s /\ a.ret # "ok"
    BY <2>1
  <2> QED BY <2>2 DEF a
<1>3. CASE b # 0
  <2>1. b \in s.bitmap /\ b \in Data
    BY <1>1, <1>3, AllocNum, Fields
  <2>2. a = IF t.cache[b] = Unmapped THEN [s |-> free_block(u, b), ret |-> "E_NO_MEM", bno |-> 0]
            ELSE [s |-> t, ret |-> "ok", bno |-> b]
    BY <1>3 DEF alloc_block, alloc_block_at
  <2> HIDE DEF b
  <2>3. /\ u \in FsState /\ u.files = s.files /\ u.bitmap = s.bitmap \ {b} /\ u.pages = s.pages
        /\ u.cache = s.cache /\ u.dirty = s.dirty /\ u.lent = s.lent /\ u.panic = s.panic
    BY <1>1 DEF FsState
  <2> HIDE DEF u, a
  <2>4. s.pages \in 0..2
    BY <1>1 DEF FsState, MaxPages
  <2>5. CASE s.cache[b] = Unmapped /\ ~(s.pages > 0)
    <3>1. t = u
      BY <2>3, <2>5 DEF map_block
    <3>2. free_block(u, b) = v
      BY <1>3, <2>1, Numbers, FsAssumption DEF free_block, Data
    <3>3. u.bitmap \union ({b} \intersect Data) = s.bitmap
      BY <2>1, <2>3
    <3>4. /\ v \in FsState /\ v.files = s.files /\ v.bitmap = s.bitmap /\ v.cache = s.cache
          /\ v.dirty = s.dirty /\ v.lent = s.lent /\ v.panic = s.panic
      BY <1>1, <2>3, <3>3 DEF FsState
    <3> HIDE DEF t, v
    <3>5. a.s = v /\ a.ret # "ok"
      BY <2>2, <2>3, <2>5, <3>1, <3>2
    <3>6. Typed(v)
      BY <3>4 DEF Typed
    <3> QED BY <3>4, <3>5, <3>6 DEF a
  <2>6. CASE ~(s.cache[b] = Unmapped /\ ~(s.pages > 0))
    <3> DEFINE w == [u EXCEPT !.cache = c, !.pages = u.pages - 1]
    <3>1. t = IF s.cache[b] = Unmapped THEN w ELSE u
      BY <2>3, <2>6 DEF map_block
    <3>2. c \in [Data -> Content \union {Unmapped}]
      BY <1>1, Fields, Mapped
    <3>3. s.pages > 0 => u.pages - 1 \in 0..2
      BY <2>3, <2>4
    <3> HIDE DEF c
    <3>4. s.pages > 0 =>
            /\ w \in FsState /\ w.files = u.files /\ w.bitmap = u.bitmap /\ w.cache = c
            /\ w.dirty = u.dirty /\ w.lent = u.lent /\ w.panic = u.panic
      BY <2>3, <3>2, <3>3 DEF FsState, MaxPages
    <3> HIDE DEF w, t
    <3>5. /\ t \in FsState /\ t.files = s.files /\ t.bitmap = s.bitmap \ {b}
          /\ t.dirty = s.dirty /\ t.lent = s.lent /\ t.panic = s.panic
          /\ t.cache = IF s.cache[b] = Unmapped THEN c ELSE s.cache
      BY <2>3, <2>6, <3>1, <3>4
    <3>6. /\ t.cache[b] = IF s.cache[b] = Unmapped THEN Zeroed ELSE s.cache[b]
          /\ \A x \in Data \ {b} : t.cache[x] = s.cache[x]
      BY <1>1, <2>1, <3>5, Fields DEF c
    <3>7. t.cache[b] # Unmapped
      BY <3>6, Mapped
    <3>8. \A x \in Data : s.cache[x] # Unmapped => t.cache[x] # Unmapped
      BY <3>6, <3>7
    <3>9. Typed(t)
      BY <3>5, <3>7, <3>8 DEF Typed
    <3>10. a.s = t /\ a.ret = "ok" /\ a.bno = b
      BY <2>2, <3>7
    <3> QED BY <2>1, <3>5, <3>6, <3>7, <3>9, <3>10 DEF a
  <2> QED BY <2>5, <2>6
<1> QED BY <1>2, <1>3

\* Loading a block keeps what is cached.
LEMMA ReadBlock ==
  ASSUME NEW s, Typed(s), NEW b \in BlockNo
  PROVE  LET t == read_block(s, b)
         IN  /\ Typed(t) /\ t.files = s.files /\ t.bitmap = s.bitmap
             /\ \A c \in Data : s.cache[c] # Unmapped => t.cache[c] = s.cache[c]
             /\ b \in Data \ s.bitmap => t = s
             /\ b \in Data /\ ~t.panic => t.cache[b] # Unmapped
<1> DEFINE c == [s.cache EXCEPT ![b] = s.disk[b]]
<1>1. s \in FsState
  BY DEF Typed
<1>2. CASE b >= NBlk \/ b \in s.bitmap
  <2>1. read_block(s, b) = [s EXCEPT !.panic = TRUE]
    BY <1>2 DEF read_block
  <2>2. [s EXCEPT !.panic = TRUE] \in FsState
    BY <1>1 DEF FsState
  <2>3. b \notin Data \ s.bitmap
    BY <1>2, Numbers, FsAssumption DEF Data, BlockNo
  <2>4. [s EXCEPT !.panic = TRUE].panic
    BY <1>1 DEF FsState
  <2> QED BY <1>1, <2>1, <2>2, <2>3, <2>4 DEF Typed, FsState
<1>3. CASE ~(b >= NBlk \/ b \in s.bitmap) /\ b \in Data /\ s.cache[b] = Unmapped
  <2>1. read_block(s, b) = [s EXCEPT !.cache = c]
    BY <1>3 DEF read_block
  <2>2. c \in [Data -> Content \union {Unmapped}]
    BY <1>1, Fields
  <2>3. \A x \in Data : s.cache[x] # Unmapped => c[x] = s.cache[x]
    BY <1>1, <1>3, Fields
  <2>4. s.cache[b] # Unmapped
    BY <1>3 DEF Typed
  <2> QED BY <1>3, <2>4
<1>4. CASE ~(b >= NBlk \/ b \in s.bitmap) /\ ~(b \in Data /\ s.cache[b] = Unmapped)
  <2>1. read_block(s, b) = s
    BY <1>4 DEF read_block
  <2> QED BY <1>4, <2>1
<1> QED BY <1>2, <1>3, <1>4

\* What file_block_walk has found.
Found(s, f, bno) ==
  \/ bno \in 0..(NDIRECT - 1)
  \/ bno \in Slot /\ s.files[f].f_indirect # 0

LEMMA PtrGet ==
  ASSUME NEW s, Typed(s), NEW f \in FileName, NEW bno, Found(s, f, bno)
  PROVE  ptr_get(s, f, bno) \in BlockNo /\ ptr_get(s, f, bno) = Word(s, f, bno)
<1>1. s \in FsState
  BY DEF Typed
<1>2. CASE bno \in 0..(NDIRECT - 1)
  <2>1. bno < NDIRECT
    BY <1>2, FsAssumption
  <2> QED BY <1>1, <1>2, <2>1, Fields DEF ptr_get, Word
<1>3. CASE bno \in Slot /\ s.files[f].f_indirect # 0
  <2>1. ~(bno < NDIRECT) /\ bno # NINDIRECT
    BY <1>3, Numbers
  <2>2. s.cache[s.files[f].f_indirect] \in Content
    BY <1>1, <1>3, Fields DEF Typed
  <2> QED BY <1>3, <2>1, <2>2 DEF ptr_get, Word, Content
<1> QED BY <1>2, <1>3 DEF Found

\* A pointer of the file itself.
LEMMA PtrSetDirect ==
  ASSUME NEW s, Typed(s), NEW f \in FileName, NEW bno \in 0..(NDIRECT - 1), NEW b \in BlockNo
  PROVE  LET t == ptr_set(s, f, bno, b)
         IN  /\ Typed(t) /\ t.bitmap = s.bitmap /\ t.panic = s.panic /\ t.cache = s.cache
             /\ \A g \in FileName : /\ t.files[g].f_indirect = s.files[g].f_indirect
                                    /\ t.files[g].f_size = s.files[g].f_size
                                    /\ g # f => t.files[g] = s.files[g]
             /\ t.files[f].f_direct = [s.files[f].f_direct EXCEPT ![bno] = b]
<1> DEFINE d == [s.files[f].f_direct EXCEPT ![bno] = b]
           r == [s.files[f] EXCEPT !.f_direct = d]
           fl == [s.files EXCEPT ![f] = r]
           t == ptr_set(s, f, bno, b)
<1>1. s \in FsState
  BY DEF Typed
<1>2. d \in [0..(NDIRECT - 1) -> BlockNo]
  BY <1>1, Fields
<1>3. t = [s EXCEPT !.files = fl]
  <2>1. bno < NDIRECT
    BY FsAssumption
  <2> QED BY <2>1 DEF ptr_set
<1> HIDE DEF d
<1>4. s.files[f] \in FileRec
  BY <1>1, Fields
<1>5. /\ r \in FileRec /\ r.f_direct = d /\ r.f_indirect = s.files[f].f_indirect
      /\ r.f_size = s.files[f].f_size
  BY <1>2, <1>4 DEF FileRec
<1> HIDE DEF r
<1>6. /\ fl \in [FileName -> FileRec] /\ fl[f] = r
      /\ \A g \in FileName : g # f => fl[g] = s.files[g]
  BY <1>1, <1>5, Fields
<1> HIDE DEF fl, t
<1>7. /\ t \in FsState /\ t.files = fl /\ t.bitmap = s.bitmap /\ t.panic = s.panic
      /\ t.cache = s.cache /\ t.dirty = s.dirty /\ t.lent = s.lent
  BY <1>1, <1>3, <1>6 DEF FsState
<1>8. \A g \in FileName : /\ t.files[g].f_indirect = s.files[g].f_indirect
                          /\ t.files[g].f_size = s.files[g].f_size
                          /\ g # f => t.files[g] = s.files[g]
  BY <1>5, <1>6, <1>7
<1>9. Typed(t)
  BY <1>7, <1>8 DEF Typed
<1> QED BY <1>5, <1>6, <1>7, <1>8, <1>9 DEF t, d

\* A word of its indirect block.
LEMMA PtrSetSlot ==
  ASSUME NEW s, Typed(s), NEW f \in FileName, NEW bno \in Slot, s.files[f].f_indirect # 0,
         NEW b \in BlockNo
  PROVE  LET t == ptr_set(s, f, bno, b)
             ind == s.files[f].f_indirect
         IN  /\ Typed(t) /\ t.bitmap = s.bitmap /\ t.panic = s.panic /\ t.files = s.files
             /\ \A x \in Data \ {ind} : t.cache[x] = s.cache[x]
             /\ t.cache[ind] = [s.cache[ind] EXCEPT ![bno] = b]
<1> DEFINE ind == s.files[f].f_indirect
           c == [s.cache[ind] EXCEPT ![bno] = b]
           ca == [s.cache EXCEPT ![ind] = c]
           t == ptr_set(s, f, bno, b)
<1>1. s \in FsState /\ ind \in Data
  BY DEF Typed
<1>2. s.cache[ind] \in Content
  BY <1>1, Fields DEF Typed
<1>3. c \in Content
  BY <1>2 DEF Content
<1>4. t = [s EXCEPT !.cache = ca]
  <2>1. ~(bno < NDIRECT)
    BY Numbers
  <2> QED BY <2>1 DEF ptr_set
<1> HIDE DEF c
<1>5. /\ ca \in [Data -> Content \union {Unmapped}] /\ ca[ind] = c
      /\ \A x \in Data \ {ind} : ca[x] = s.cache[x]
  BY <1>1, <1>3, Fields
<1> HIDE DEF ca, t
<1>6. /\ t \in FsState /\ t.files = s.files /\ t.bitmap = s.bitmap /\ t.panic = s.panic
      /\ t.cache = ca /\ t.dirty = s.dirty /\ t.lent = s.lent
  BY <1>1, <1>4, <1>5, SetCache
<1>7. \A x \in Data : s.cache[x] # Unmapped => t.cache[x] # Unmapped
  BY <1>3, <1>5, <1>6, Mapped
<1>8. Typed(t)
  BY <1>6, <1>7 DEF Typed
<1> QED BY <1>5, <1>6, <1>8 DEF t, c

LEMMA PtrSet ==
  ASSUME NEW s, Typed(s), NEW f \in FileName, NEW bno, Found(s, f, bno), NEW b \in BlockNo
  PROVE  Typed(ptr_set(s, f, bno, b))
BY PtrSetDirect, PtrSetSlot DEF Found

\* A new record of file f.
LEMMA SetFile ==
  ASSUME NEW s, Typed(s), NEW f \in FileName, NEW r \in FileRec,
         r.f_indirect # 0 => r.f_indirect \in Data /\ s.cache[r.f_indirect] # Unmapped
  PROVE  LET t == [s EXCEPT !.files = [s.files EXCEPT ![f] = r]]
         IN  /\ Typed(t) /\ t.files[f] = r
             /\ \A g \in FileName : g # f => t.files[g] = s.files[g]
             /\ t.bitmap = s.bitmap /\ t.cache = s.cache /\ t.dirty = s.dirty /\ t.lent = s.lent
             /\ t.panic = s.panic
<1> DEFINE fl == [s.files EXCEPT ![f] = r]
           t == [s EXCEPT !.files = fl]
<1>1. s \in FsState
  BY DEF Typed
<1>2. /\ fl \in [FileName -> FileRec] /\ fl[f] = r
      /\ \A g \in FileName : g # f => fl[g] = s.files[g]
  BY <1>1, Fields
<1> HIDE DEF fl
<1>3. /\ t \in FsState /\ t.files = fl /\ t.bitmap = s.bitmap /\ t.panic = s.panic
      /\ t.cache = s.cache /\ t.dirty = s.dirty /\ t.lent = s.lent
  BY <1>1, <1>2 DEF FsState
<1> HIDE DEF t
<1>4. Typed(t)
  BY <1>2, <1>3 DEF Typed
<1> QED BY <1>2, <1>3, <1>4 DEF t, fl

LEMMA SetIndirect ==
  ASSUME NEW s, Typed(s), NEW f \in FileName, NEW b \in BlockNo,
         b # 0 => b \in Data /\ s.cache[b] # Unmapped
  PROVE  LET t == [s EXCEPT !.files[f].f_indirect = b]
         IN  /\ Typed(t) /\ t.files[f].f_indirect = b
             /\ t.files[f].f_direct = s.files[f].f_direct /\ t.files[f].f_size = s.files[f].f_size
             /\ \A g \in FileName : g # f => t.files[g] = s.files[g]
             /\ t.bitmap = s.bitmap /\ t.cache = s.cache /\ t.dirty = s.dirty /\ t.lent = s.lent
             /\ t.panic = s.panic
<1> DEFINE r == [s.files[f] EXCEPT !.f_indirect = b]
<1>1. s.files[f] \in FileRec
  BY Fields DEF Typed
<1>2. /\ r \in FileRec /\ r.f_indirect = b
      /\ r.f_direct = s.files[f].f_direct /\ r.f_size = s.files[f].f_size
  BY <1>1 DEF FileRec
<1>3. [s EXCEPT !.files[f].f_indirect = b] = [s EXCEPT !.files = [s.files EXCEPT ![f] = r]]
  OBVIOUS
<1> HIDE DEF r
<1> QED BY <1>2, <1>3, SetFile

LEMMA SetSize ==
  ASSUME NEW s, Typed(s), NEW f \in FileName, NEW size \in Size
  PROVE  LET t == [s EXCEPT !.files[f].f_size = size]
         IN  /\ Typed(t) /\ t.files[f].f_size = size
             /\ t.files[f].f_direct = s.files[f].f_direct
             /\ t.files[f].f_indirect = s.files[f].f_indirect
             /\ \A g \in FileName : g # f => t.files[g] = s.files[g]
             /\ t.bitmap = s.bitmap /\ t.cache = s.cache /\ t.dirty = s.dirty /\ t.lent = s.lent
             /\ t.panic = s.panic
<1> DEFINE r == [s.files[f] EXCEPT !.f_size = size]
<1>1. s.files[f] \in FileRec
  BY Fields DEF Typed
<1>2. /\ r \in FileRec /\ r.f_size = size
      /\ r.f_direct = s.files[f].f_direct /\ r.f_indirect = s.files[f].f_indirect
  BY <1>1 DEF FileRec
<1>3. [s EXCEPT !.files[f].f_size = size] = [s EXCEPT !.files = [s.files EXCEPT ![f] = r]]
  OBVIOUS
<1> HIDE DEF r
<1>4. r.f_indirect # 0 => r.f_indirect \in Data /\ s.cache[r.f_indirect] # Unmapped
  BY <1>2 DEF Typed
<1> QED BY <1>2, <1>3, <1>4, SetFile

LEMMA SetName ==
  ASSUME NEW s, Typed(s), NEW f \in FileName
  PROVE  LET t == [s EXCEPT !.files[f].f_name = FALSE]
         IN  /\ Typed(t) /\ t.files[f].f_size = s.files[f].f_size
             /\ t.files[f].f_direct = s.files[f].f_direct
             /\ t.files[f].f_indirect = s.files[f].f_indirect
             /\ \A g \in FileName : g # f => t.files[g] = s.files[g]
             /\ t.bitmap = s.bitmap /\ t.cache = s.cache /\ t.dirty = s.dirty /\ t.lent = s.lent
             /\ t.panic = s.panic
<1> DEFINE r == [s.files[f] EXCEPT !.f_name = FALSE]
<1>1. s.files[f] \in FileRec
  BY Fields DEF Typed
<1>2. /\ r \in FileRec /\ r.f_size = s.files[f].f_size
      /\ r.f_direct = s.files[f].f_direct /\ r.f_indirect = s.files[f].f_indirect
  BY <1>1 DEF FileRec
<1>3. [s EXCEPT !.files[f].f_name = FALSE] = [s EXCEPT !.files = [s.files EXCEPT ![f] = r]]
  OBVIOUS
<1> HIDE DEF r
<1>4. r.f_indirect # 0 => r.f_indirect \in Data /\ s.cache[r.f_indirect] # Unmapped
  BY <1>2 DEF Typed
<1> QED BY <1>2, <1>3, <1>4, SetFile

\* alloc_block for the indirect block of a file; read_block finds it in the cache.
LEMMA NewIndirect ==
  ASSUME NEW s, Typed(s), NEW f \in FileName, alloc_block(s).ret = "ok"
  PROVE  LET b == alloc_block(s).bno
             u == [alloc_block(s).s EXCEPT !.files[f].f_indirect = b]
         IN  /\ Typed(u) /\ read_block(u, b) = u /\ b \in s.bitmap /\ b \in Data
             /\ u.files[f].f_indirect = b /\ u.files[f].f_direct = s.files[f].f_direct
             /\ u.files[f].f_size = s.files[f].f_size
             /\ \A g \in FileName : g # f => u.files[g] = s.files[g]
             /\ u.bitmap = s.bitmap \ {b} /\ u.panic = s.panic
             /\ u.cache[b] = IF s.cache[b] = Unmapped THEN Zeroed ELSE s.cache[b]
             /\ \A c \in Data \ {b} : u.cache[c] = s.cache[c]
<1> DEFINE b == alloc_block(s).bno
           t == alloc_block(s).s
           u == [t EXCEPT !.files[f].f_indirect = b]
<1>1. /\ Typed(t) /\ b \in s.bitmap /\ b \in Data
      /\ t.files = s.files /\ t.bitmap = s.bitmap \ {b} /\ t.panic = s.panic
      /\ t.cache[b] # Unmapped
      /\ t.cache[b] = IF s.cache[b] = Unmapped THEN Zeroed ELSE s.cache[b]
      /\ \A c \in Data \ {b} : t.cache[c] = s.cache[c]
  BY Alloc
<1> HIDE DEF b, t
<1>2. /\ Typed(u) /\ u.files[f].f_indirect = b
      /\ u.files[f].f_direct = t.files[f].f_direct /\ u.files[f].f_size = t.files[f].f_size
      /\ \A g \in FileName : g # f => u.files[g] = t.files[g]
      /\ u.bitmap = t.bitmap /\ u.cache = t.cache /\ u.panic = t.panic
  BY <1>1, SetIndirect, Numbers
<1> HIDE DEF u
<1>3. read_block(u, b) = u
  BY <1>1, <1>2, ReadBlock, Numbers
<1> QED BY <1>1, <1>2, <1>3 DEF u, t, b

-----------------------------------------------------------------------------
(* Finding, mapping and clearing a block of a file. *)

\* The cases of file_block_walk.
LEMMA WalkCases ==
  ASSUME NEW s, NEW f, NEW bno \in Nat, NEW alloc \in BOOLEAN
  PROVE  LET w == file_block_walk(s, f, bno, alloc)
             ind == s.files[f].f_indirect
             new == alloc_block(s)
             u == [new.s EXCEPT !.files[f].f_indirect = new.bno]
         IN  /\ bno \in 0..(NDIRECT - 1) \/ bno \in Slot \/ bno >= NINDIRECT
             /\ bno \in 0..(NDIRECT - 1) => w = [s |-> s, ret |-> "ok"]
             /\ bno >= NINDIRECT => w = [s |-> s, ret |-> "E_INVAL"]
             /\ bno \in Slot /\ ind # 0 => w = Read(read_block(s, ind))
             /\ bno \in Slot /\ ind = 0 /\ ~alloc => w = [s |-> s, ret |-> "E_NOT_FOUND"]
             /\ bno \in Slot /\ ind = 0 /\ alloc /\ new.ret # "ok" =>
                  w = [s |-> new.s, ret |-> new.ret]
             /\ bno \in Slot /\ ind = 0 /\ alloc /\ new.ret = "ok" =>
                  w = Read(read_block(u, new.bno))
<1>1. bno \in 0..(NDIRECT - 1) <=> bno < NDIRECT
  BY FsAssumption
<1>2. bno \in Slot <=> ~(bno < NDIRECT) /\ ~(bno >= NINDIRECT)
  BY FsAssumption DEF Slot
<1>3. ~(bno < NDIRECT /\ bno >= NINDIRECT)
  BY FsAssumption
<1> QED BY <1>1, <1>2, <1>3 DEF file_block_walk

\* The sizes of files are those of s.
Sizes(s, t) == \A g \in FileName : t.files[g].f_size = s.files[g].f_size

LEMMA WalkTypes ==
  ASSUME NEW s, Typed(s), NEW f \in FileName, NEW bno \in Nat, NEW alloc \in BOOLEAN
  PROVE  LET w == file_block_walk(s, f, bno, alloc)
         IN  /\ Typed(w.s) /\ Sizes(s, w.s)
             /\ w.ret = "ok" => Found(w.s, f, bno)
             /\ ~alloc => w.s.files = s.files
<1> DEFINE w == file_block_walk(s, f, bno, alloc)
           ind == s.files[f].f_indirect
           new == alloc_block(s)
           b == new.bno
           u == [new.s EXCEPT !.files[f].f_indirect = b]
<1>1. CASE bno \in 0..(NDIRECT - 1)
  <2>1. w = [s |-> s, ret |-> "ok"]
    BY <1>1, WalkCases
  <2> HIDE DEF w
  <2>2. w.s = s /\ w.ret = "ok"
    BY <2>1
  <2> QED BY <1>1, <2>2 DEF Sizes, Found, w
<1>2. CASE bno >= NINDIRECT \/ (bno \in Slot /\ ind = 0 /\ ~alloc)
  <2>1. w = [s |-> s, ret |-> "E_INVAL"] \/ w = [s |-> s, ret |-> "E_NOT_FOUND"]
    BY <1>2, WalkCases
  <2> HIDE DEF w
  <2>2. w.s = s /\ w.ret # "ok"
    BY <2>1
  <2> QED BY <2>2 DEF Sizes, w
<1>3. CASE bno \in Slot /\ ind # 0
  <2>1. w.s = read_block(s, ind)
    <3>1. w = Read(read_block(s, ind))
      BY <1>3, WalkCases
    <3> HIDE DEF w
    <3> QED BY <3>1 DEF Read
  <2>2. ind \in BlockNo
    BY Fields DEF Typed
  <2>3. Typed(w.s) /\ w.s.files = s.files
    BY <2>1, <2>2, ReadBlock
  <2> QED BY <1>3, <2>3 DEF Sizes, Found
<1>4. CASE bno \in Slot /\ ind = 0 /\ alloc /\ new.ret # "ok"
  <2>1. w = [s |-> new.s, ret |-> new.ret]
    BY <1>4, WalkCases
  <2>2. Typed(new.s) /\ new.s.files = s.files
    BY Alloc
  <2> HIDE DEF w, new
  <2>3. w.s = new.s /\ w.ret # "ok"
    BY <1>4, <2>1
  <2> QED BY <1>4, <2>2, <2>3 DEF Sizes, w
<1>5. CASE bno \in Slot /\ ind = 0 /\ alloc /\ new.ret = "ok"
  <2>1. w.s = read_block(u, b)
    <3>1. w = Read(read_block(u, b))
      BY <1>5, WalkCases
    <3> HIDE DEF w
    <3> QED BY <3>1 DEF Read
  <2>2. /\ Typed(u) /\ read_block(u, b) = u /\ u.files[f].f_indirect = b /\ b \in Data
        /\ u.files[f].f_size = s.files[f].f_size
        /\ \A g \in FileName : g # f => u.files[g] = s.files[g]
    BY <1>5, NewIndirect
  <2> HIDE DEF u, w, b
  <2> QED BY <1>5, <2>1, <2>2, Numbers DEF Sizes, Found, w
<1> QED BY <1>1, <1>2, <1>3, <1>4, <1>5, WalkCases

\* The cases of file_map_block.
LEMMA MapCases ==
  ASSUME NEW s, NEW f, NEW bno, NEW alloc \in BOOLEAN
  PROVE  LET m == file_map_block(s, f, bno, alloc)
             w == file_block_walk(s, f, bno, alloc)
             b == ptr_get(w.s, f, bno)
             new == alloc_block(w.s)
         IN  /\ w.ret # "ok" => m = [s |-> w.s, ret |-> w.ret, bno |-> 0]
             /\ w.ret = "ok" /\ b # 0 => m = [s |-> w.s, ret |-> "ok", bno |-> b]
             /\ w.ret = "ok" /\ b = 0 /\ ~alloc =>
                  m = [s |-> w.s, ret |-> "E_NOT_FOUND", bno |-> 0]
             /\ w.ret = "ok" /\ b = 0 /\ alloc /\ new.ret # "ok" =>
                  m = [s |-> new.s, ret |-> new.ret, bno |-> 0]
             /\ w.ret = "ok" /\ b = 0 /\ alloc /\ new.ret = "ok" =>
                  m = [s |-> ptr_set(new.s, f, bno, new.bno), ret |-> "ok", bno |-> new.bno]
BY DEF file_map_block

LEMMA MapTypes ==
  ASSUME NEW s, Typed(s), NEW f \in FileName, NEW bno \in Nat, NEW alloc \in BOOLEAN
  PROVE  LET m == file_map_block(s, f, bno, alloc)
         IN  Typed(m.s) /\ m.bno \in BlockNo
<1> DEFINE m == file_map_block(s, f, bno, alloc)
           w == file_block_walk(s, f, bno, alloc)
           b == ptr_get(w.s, f, bno)
           new == alloc_block(w.s)
           n == new.bno
<1>1. Typed(w.s) /\ (w.ret = "ok" => Found(w.s, f, bno))
  BY WalkTypes
<1>2. w.ret = "ok" => b \in BlockNo
  BY <1>1, PtrGet
<1>3. CASE ~(w.ret = "ok" /\ b = 0 /\ alloc)
  <2>1. m.s = w.s /\ (m.bno = 0 \/ (w.ret = "ok" /\ m.bno = b))
    <3> HIDE DEF w, b, new
    <3> QED BY <1>3, MapCases DEF w, b, new
  <2> HIDE DEF m, w, b, new
  <2> QED BY <1>1, <1>2, <2>1, Numbers DEF m
<1>4. Typed(new.s) /\ new.s.files = w.s.files /\ (new.ret = "ok" => n \in BlockNo)
  BY <1>1, Alloc, Numbers
<1>5. CASE w.ret = "ok" /\ b = 0 /\ alloc /\ new.ret # "ok"
  <2>1. m = [s |-> new.s, ret |-> new.ret, bno |-> 0]
    BY <1>5, MapCases, ZenonT(60)
  <2> HIDE DEF m, new
  <2> QED BY <1>4, <2>1, Numbers DEF m
<1>6. CASE w.ret = "ok" /\ b = 0 /\ alloc /\ new.ret = "ok"
  <2>1. m.s = ptr_set(new.s, f, bno, n) /\ m.bno = n
    <3>1. m = [s |-> ptr_set(new.s, f, bno, n), ret |-> "ok", bno |-> n]
      BY <1>6, MapCases, ZenonT(60)
    <3> HIDE DEF m
    <3> QED BY <3>1
  <2>2. Found(new.s, f, bno)
    BY <1>1, <1>4, <1>6 DEF Found
  <2> HIDE DEF w, b, new, n
  <2>3. Typed(ptr_set(new.s, f, bno, n))
    BY <1>4, <1>6, <2>2, PtrSet
  <2> QED BY <1>4, <1>6, <2>1, <2>3
<1> QED BY <1>3, <1>5, <1>6

LEMMA FreeBlock ==
  ASSUME NEW s, Typed(s), NEW b \in BlockNo
  PROVE  LET t == free_block(s, b)
         IN  /\ Typed(t) /\ t.files = s.files /\ t.cache = s.cache /\ t.panic = s.panic
             /\ t.bitmap = s.bitmap \union ({b} \intersect Data)
<1> DEFINE t == [s EXCEPT !.bitmap = s.bitmap \union ({b} \intersect Data)]
<1>1. s \in FsState
  BY DEF Typed
<1>2. /\ t \in FsState /\ t.files = s.files /\ t.cache = s.cache /\ t.panic = s.panic
      /\ t.dirty = s.dirty /\ t.lent = s.lent /\ t.bitmap = s.bitmap \union ({b} \intersect Data)
  BY <1>1 DEF FsState
<1> HIDE DEF t
<1>3. Typed(t)
  BY <1>2 DEF Typed
<1>4. CASE b = 0 \/ b >= NBlk
  <2>1. {b} \intersect Data = {}
    BY <1>4, Numbers, FsAssumption DEF Data
  <2> QED BY <1>4, <2>1 DEF free_block
<1>5. CASE ~(b = 0 \/ b >= NBlk)
  <2>1. free_block(s, b) = t
    BY <1>5 DEF free_block, t
  <2> QED BY <1>2, <1>3, <2>1
<1> QED BY <1>4, <1>5

LEMMA ClearTypes ==
  ASSUME NEW s, Typed(s), NEW f \in FileName, NEW bno \in Nat
  PROVE  Typed(file_clear_block(s, f, bno))
<1> DEFINE w == file_block_walk(s, f, bno, FALSE)
           b == ptr_get(w.s, f, bno)
<1>1. Typed(w.s) /\ (w.ret = "ok" => Found(w.s, f, bno))
  BY WalkTypes
<1>2. CASE w.ret # "ok" \/ b = 0
  BY <1>1, <1>2 DEF file_clear_block
<1>3. CASE ~(w.ret # "ok" \/ b = 0)
  <2>1. file_clear_block(s, f, bno) = ptr_set(free_block(w.s, b), f, bno, 0)
    BY <1>3 DEF file_clear_block
  <2>2. b \in BlockNo
    BY <1>1, <1>3, PtrGet
  <2> HIDE DEF w, b
  <2>3. Typed(free_block(w.s, b)) /\ free_block(w.s, b).files = w.s.files
    BY <1>1, <2>2, FreeBlock
  <2>4. Found(free_block(w.s, b), f, bno)
    BY <1>1, <1>3, <2>3 DEF Found
  <2> QED BY <2>1, <2>3, <2>4, PtrSet, Numbers
<1> QED BY <1>2, <1>3

-----------------------------------------------------------------------------
(* The loops. *)

\* Counting up to n.
LEMMA Counting ==
  ASSUME NEW n \in Nat, NEW S, 0 \in S, \A i \in 0..(n - 1) : i \in S => i + 1 \in S
  PROVE  \A i \in 0..n : i \in S
<1> SUFFICES ASSUME \E i \in 0..n : i \notin S
             PROVE  FALSE
  OBVIOUS
<1> DEFINE R == {i \in 0..n : i \notin S}
<1>1. R \subseteq Nat /\ R # {}
  OBVIOUS
<1>2. PICK k \in R : \A j \in R : k <= j
  <2> HIDE DEF R
  <2> QED BY <1>1, Least
<1>3. k \in 0..n /\ k \notin S /\ k # 0
  OBVIOUS
<1>4. k - 1 \in 0..(n - 1) /\ k - 1 \in 0..n /\ ~(k <= k - 1)
  BY <1>3
<1>5. k - 1 \in S
  BY <1>2, <1>4
<1>6. (k - 1) + 1 \in S
  BY <1>4, <1>5
<1>7. (k - 1) + 1 = k
  BY <1>3
<1> QED BY <1>3, <1>6, <1>7

Clearing(c, s, f, new, n) ==
  c = [i \in 0..n |-> IF i = 0 THEN s ELSE file_clear_block(c[i - 1], f, new + i - 1)]

\* The states of a loop that clears n blocks from the new-th.
LEMMA ClearingExists ==
  ASSUME NEW s, NEW f, NEW new \in Nat, NEW n \in Nat
  PROVE  \E c : Clearing(c, s, f, new, n)
<1> DEFINE S == {k \in 0..n : \E c : Clearing(c, s, f, new, k)}
<1>1. 0 \in S
  <2>1. Clearing([i \in 0..0 |-> s], s, f, new, 0)
    BY DEF Clearing
  <2> QED BY <2>1
<1>2. ASSUME NEW k \in 0..(n - 1), k \in S
      PROVE  k + 1 \in S
  <2>1. PICK c : Clearing(c, s, f, new, k)
    BY <1>2
  <2> DEFINE d == [i \in 0..(k + 1) |-> IF i \in 0..k THEN c[i]
                                        ELSE file_clear_block(c[k], f, new + (k + 1) - 1)]
  <2>2. \A i \in 0..k : c[i] = IF i = 0 THEN s ELSE file_clear_block(c[i - 1], f, new + i - 1)
    BY <2>1, Zenon DEF Clearing
  <2>3. \A i \in 0..k : d[i] = c[i]
    OBVIOUS
  <2>4. d[k + 1] = file_clear_block(c[k], f, new + (k + 1) - 1)
    OBVIOUS
  <2>5. DOMAIN d = 0..(k + 1) /\ d = [i \in 0..(k + 1) |-> d[i]]
    OBVIOUS
  <2> HIDE DEF d
  <2>6. ASSUME NEW i \in 0..(k + 1)
        PROVE  d[i] = IF i = 0 THEN s ELSE file_clear_block(d[i - 1], f, new + i - 1)
    <3>1. CASE i \in 0..k
      <4>1. i = 0 \/ i - 1 \in 0..k
        OBVIOUS
      <4> QED BY <2>2, <2>3, <3>1, <4>1
    <3>2. CASE i = k + 1
      <4>1. i # 0 /\ i - 1 = k /\ k \in 0..k
        BY <3>2
      <4> QED BY <2>3, <2>4, <3>2, <4>1
    <3> QED BY <3>1, <3>2
  <2>7. Clearing(d, s, f, new, k + 1)
    BY <2>5, <2>6 DEF Clearing
  <2> QED BY <2>7
<1> HIDE DEF S
<1>3. n \in S
  BY <1>1, <1>2, Counting
<1> QED BY <1>3 DEF S

\* The blocks that clear_blocks clears.
Turns(new, old) == IF new < old THEN old - new ELSE 0

LEMMA ClearLoop ==
  ASSUME NEW s, NEW f, NEW new \in Nat, NEW old \in Nat
  PROVE  \E c : /\ clear_blocks(s, f, new, old) = c[Turns(new, old)]
                /\ c[0] = s
                /\ \A i \in 1..Turns(new, old) : c[i] = file_clear_block(c[i - 1], f, new + i - 1)
<1> DEFINE n == Turns(new, old)
           c == CHOOSE g : Clearing(g, s, f, new, n)
<1>1. n \in Nat
  BY DEF Turns
<1>2. clear_blocks(s, f, new, old) = c[n]
  BY DEF clear_blocks, Clearing, Turns
<1>3. \E g : Clearing(g, s, f, new, n)
  <2> HIDE DEF n
  <2> QED BY <1>1, ClearingExists
<1>4. Clearing(c, s, f, new, n)
  BY <1>3
<1> HIDE DEF c, n
<1>5. \A i \in 0..n : c[i] = IF i = 0 THEN s ELSE file_clear_block(c[i - 1], f, new + i - 1)
  BY <1>4, Zenon DEF Clearing
<1>6. c[0] = s /\ \A i \in 1..n : c[i] = file_clear_block(c[i - 1], f, new + i - 1)
  BY <1>1, <1>5
<1> QED BY <1>2, <1>6 DEF n

Flushing(c, s, f, n) ==
  c = [i \in 0..n |-> IF i = 0 THEN s ELSE flush_block(c[i - 1], f, i - 1)]

LEMMA FlushingExists ==
  ASSUME NEW s, NEW f, NEW n \in Nat
  PROVE  \E c : Flushing(c, s, f, n)
<1> DEFINE S == {k \in 0..n : \E c : Flushing(c, s, f, k)}
<1>1. 0 \in S
  <2>1. Flushing([i \in 0..0 |-> s], s, f, 0)
    BY DEF Flushing
  <2> QED BY <2>1
<1>2. ASSUME NEW k \in 0..(n - 1), k \in S
      PROVE  k + 1 \in S
  <2>1. PICK c : Flushing(c, s, f, k)
    BY <1>2
  <2> DEFINE d == [i \in 0..(k + 1) |-> IF i \in 0..k THEN c[i] ELSE flush_block(c[k], f, k)]
  <2>2. \A i \in 0..k : c[i] = IF i = 0 THEN s ELSE flush_block(c[i - 1], f, i - 1)
    BY <2>1, Zenon DEF Flushing
  <2>3. \A i \in 0..k : d[i] = c[i]
    OBVIOUS
  <2>4. d[k + 1] = flush_block(c[k], f, k)
    OBVIOUS
  <2>5. DOMAIN d = 0..(k + 1) /\ d = [i \in 0..(k + 1) |-> d[i]]
    OBVIOUS
  <2> HIDE DEF d
  <2>6. ASSUME NEW i \in 0..(k + 1)
        PROVE  d[i] = IF i = 0 THEN s ELSE flush_block(d[i - 1], f, i - 1)
    <3>1. CASE i \in 0..k
      <4>1. i = 0 \/ i - 1 \in 0..k
        OBVIOUS
      <4> QED BY <2>2, <2>3, <3>1, <4>1
    <3>2. CASE i = k + 1
      <4>1. i # 0 /\ i - 1 = k /\ k \in 0..k
        BY <3>2
      <4> QED BY <2>3, <2>4, <3>2, <4>1
    <3> QED BY <3>1, <3>2
  <2>7. Flushing(d, s, f, k + 1)
    BY <2>5, <2>6 DEF Flushing
  <2> QED BY <2>7
<1> HIDE DEF S
<1>3. n \in S
  BY <1>1, <1>2, Counting
<1> QED BY <1>3 DEF S

LEMMA FlushLoop ==
  ASSUME NEW s, NEW f, nblocks(s.files[f].f_size) \in Nat
  PROVE  \E c : /\ file_flush(s, f) = c[nblocks(s.files[f].f_size)]
                /\ c[0] = s
                /\ \A i \in 1..nblocks(s.files[f].f_size) : c[i] = flush_block(c[i - 1], f, i - 1)
<1> DEFINE n == nblocks(s.files[f].f_size)
           c == CHOOSE g : Flushing(g, s, f, n)
<1>1. file_flush(s, f) = c[n]
  BY DEF file_flush, Flushing
<1>2. \E g : Flushing(g, s, f, n)
  <2> HIDE DEF n
  <2> QED BY FlushingExists DEF n
<1>3. Flushing(c, s, f, n)
  BY <1>2
<1> HIDE DEF c
<1>4. \A i \in 0..n : c[i] = IF i = 0 THEN s ELSE flush_block(c[i - 1], f, i - 1)
  BY <1>3, Zenon DEF Flushing
<1>5. c[0] = s /\ \A i \in 1..n : c[i] = flush_block(c[i - 1], f, i - 1)
  BY <1>4
<1> QED BY <1>1, <1>5

LEMMA NBlocks ==
  ASSUME NEW size \in Nat
  PROVE  nblocks(size) \in Nat /\ nblocks(size) > 0
<1>1. size \div BY2BLK \in Nat
  BY FsAssumption
<1> QED BY <1>1 DEF nblocks

LEMMA SizeNat == Size \subseteq Nat /\ 0 \in Size
<1>1. NINDIRECT * BY2BLK \in Nat
  BY FsAssumption
<1> QED BY <1>1 DEF Size

\* Writing blocks to the disk leaves the server's memory alone.
LEMMA FlushBlocks ==
  ASSUME NEW s, Typed(s), NEW B
  PROVE  LET t == flush_blocks(s, B)
         IN  /\ Typed(t) /\ t.files = s.files /\ t.bitmap = s.bitmap /\ t.cache = s.cache
             /\ t.panic = s.panic
<1> DEFINE W == {b \in B : block_is_dirty(s, b)}
           dk == [b \in Data |-> IF b \in W THEN write_block(s, b) ELSE s.disk[b]]
           df == IF DirBlk \in W THEN write_block(s, DirBlk) ELSE s.disk_files
           t == [s EXCEPT !.disk = dk, !.disk_files = df]
<1>1. s \in FsState
  BY DEF Typed
<1>2. flush_blocks(s, B) = t
  BY DEF flush_blocks
<1>3. dk \in [Data -> Content]
  <2>1. ASSUME NEW b \in Data
        PROVE  (IF b \in W THEN write_block(s, b) ELSE s.disk[b]) \in Content
    BY <1>1, Fields DEF write_block, block_is_dirty, Typed
  <2> QED BY <2>1
<1>4. df \in [FileName -> FileRec]
  BY <1>1, Fields, Numbers DEF write_block
<1> HIDE DEF dk, df
<1>5. /\ t \in FsState /\ t.files = s.files /\ t.bitmap = s.bitmap /\ t.panic = s.panic
      /\ t.cache = s.cache /\ t.dirty = s.dirty /\ t.lent = s.lent
  BY <1>1, <1>3, <1>4 DEF FsState
<1> HIDE DEF t
<1>6. Typed(t)
  BY <1>5 DEF Typed
<1> QED BY <1>2, <1>5, <1>6

LEMMA DirtyBlock ==
  ASSUME NEW s, Typed(s), NEW b
  PROVE  LET t == dirty_block(s, b)
         IN  /\ Typed(t) /\ t.files = s.files /\ t.bitmap = s.bitmap /\ t.cache = s.cache
             /\ t.panic = s.panic
<1> DEFINE t == [s EXCEPT !.dirty = s.dirty \union {b}]
<1>1. CASE b = DirBlk \/ (b \in Data /\ s.cache[b] # Unmapped)
  <2>1. dirty_block(s, b) = t
    BY <1>1 DEF dirty_block
  <2>2. s \in FsState
    BY DEF Typed
  <2>3. /\ t \in FsState /\ t.files = s.files /\ t.bitmap = s.bitmap /\ t.panic = s.panic
        /\ t.cache = s.cache /\ t.dirty = s.dirty \union {b} /\ t.lent = s.lent
    BY <1>1, <2>2 DEF FsState
  <2> HIDE DEF t
  <2>4. \A x \in Data : x \in t.dirty => x \in s.dirty \/ x = b
    BY <2>3
  <2>5. \A x \in Data : x \in t.dirty \/ x \notin t.bitmap \/ x \in t.lent => t.cache[x] # Unmapped
    BY <1>1, <2>3, <2>4, Numbers DEF Typed
  <2>6. Typed(t)
    BY <2>3, <2>5 DEF Typed
  <2> QED BY <2>1, <2>3, <2>6
<1>2. CASE ~(b = DirBlk \/ (b \in Data /\ s.cache[b] # Unmapped))
  BY <1>2 DEF dirty_block
<1> QED BY <1>1, <1>2

LEMMA ClearAllTypes ==
  ASSUME NEW s, Typed(s), NEW f \in FileName, NEW new \in Nat, NEW old \in Nat
  PROVE  Typed(clear_blocks(s, f, new, old))
<1> DEFINE n == Turns(new, old)
<1>1. PICK c : /\ clear_blocks(s, f, new, old) = c[n] /\ c[0] = s
               /\ \A i \in 1..n : c[i] = file_clear_block(c[i - 1], f, new + i - 1)
  BY ClearLoop
<1>2. n \in Nat
  BY DEF Turns
<1> HIDE DEF n
<1> DEFINE S == {i \in 0..n : Typed(c[i])}
<1>3. 0 \in S
  BY <1>1, <1>2
<1>4. ASSUME NEW i \in 0..(n - 1), i \in S
      PROVE  i + 1 \in S
  <2>1. c[i + 1] = file_clear_block(c[i], f, new + i)
    <3>1. i + 1 \in 1..n /\ (i + 1) - 1 = i /\ new + (i + 1) - 1 = new + i
      BY <1>2
    <3> QED BY <1>1, <3>1
  <2>2. Typed(c[i]) /\ new + i \in Nat /\ i + 1 \in 0..n
    BY <1>2, <1>4
  <2> QED BY <2>1, <2>2, ClearTypes
<1> HIDE DEF S
<1>5. n \in S
  BY <1>2, <1>3, <1>4, Counting
<1> QED BY <1>1, <1>5 DEF S

LEMMA TruncateTypes ==
  ASSUME NEW s, Typed(s), NEW f \in FileName, NEW size \in Size
  PROVE  Typed(file_truncate(s, f, size))
<1> DEFINE new == IF size = 0 THEN 0 ELSE nblocks(size)
           old == nblocks(s.files[f].f_size)
           c == clear_blocks(s, f, new, old)
           ind == c.files[f].f_indirect
           d == [free_block(c, ind) EXCEPT !.files[f].f_indirect = 0]
           e == IF new <= NDIRECT /\ ind # 0 THEN d ELSE c
<1>1. file_truncate(s, f, size) = [e EXCEPT !.files[f].f_size = size]
  BY DEF file_truncate
<1>2. new \in Nat /\ old \in Nat
  <2>1. s.files[f].f_size \in Size
    BY Fields DEF Typed
  <2> QED BY <2>1, NBlocks, SizeNat
<1>3. Typed(c)
  BY <1>2, ClearAllTypes
<1> HIDE DEF c, new, old
<1>4. ind \in BlockNo
  BY <1>3, Fields DEF Typed
<1> HIDE DEF ind
<1>5. Typed(free_block(c, ind))
  BY <1>3, <1>4, FreeBlock
<1>6. Typed(d)
  BY <1>5, SetIndirect, Numbers
<1> HIDE DEF d
<1>7. Typed(e)
  BY <1>3, <1>6
<1> HIDE DEF e
<1> QED BY <1>1, <1>7, SetSize

LEMMA FlushTypes ==
  ASSUME NEW s, Typed(s), NEW f \in FileName
  PROVE  Typed(file_flush(s, f))
<1> DEFINE n == nblocks(s.files[f].f_size)
<1>1. n \in Nat
  <2>1. s.files[f].f_size \in Size
    BY Fields DEF Typed
  <2> QED BY <2>1, NBlocks, SizeNat
<1>2. PICK c : /\ file_flush(s, f) = c[n] /\ c[0] = s
               /\ \A i \in 1..n : c[i] = flush_block(c[i - 1], f, i - 1)
  BY <1>1, FlushLoop
<1> HIDE DEF n
<1> DEFINE S == {i \in 0..n : Typed(c[i])}
<1>3. 0 \in S
  BY <1>1, <1>2
<1>4. ASSUME NEW i \in 0..(n - 1), i \in S
      PROVE  i + 1 \in S
  <2>1. c[i + 1] = flush_block(c[i], f, i)
    <3>1. i + 1 \in 1..n /\ (i + 1) - 1 = i
      BY <1>1
    <3> QED BY <1>2, <3>1
  <2>2. Typed(c[i]) /\ i \in Nat /\ i + 1 \in 0..n
    BY <1>1, <1>4
  <2>3. Typed(file_map_block(c[i], f, i, FALSE).s)
    BY <2>2, MapTypes
  <2>4. Typed(flush_block(c[i], f, i))
    BY <2>3, FlushBlocks DEF flush_block
  <2> QED BY <2>1, <2>2, <2>4
<1> HIDE DEF S
<1>5. n \in S
  BY <1>1, <1>3, <1>4, Counting
<1> QED BY <1>2, <1>5 DEF S

-----------------------------------------------------------------------------
(* Types. *)

LEMMA InitTyped == Init => Typed(fs)
<1> SUFFICES ASSUME Init
             PROVE  Typed(fs)
  OBVIOUS
<1> DEFINE z == [i \in 0..(NDIRECT - 1) |-> 0]
<1>1. z \in [0..(NDIRECT - 1) -> BlockNo]
  BY Numbers
<1>2. Empty \in FileRec /\ Empty.f_indirect = 0
  <2> HIDE DEF z
  <2> QED BY <1>1, Numbers, SizeNat DEF Empty, FileRec, z
<1> HIDE DEF z
<1>3. [f \in FileName |-> Empty] \in [FileName -> FileRec]
  BY <1>2
<1>4. [b \in Data |-> Zeroed] \in [Data -> Content]
  BY Mapped
<1>5. fs \in FsState
  BY <1>3, <1>4 DEF Init, FsState, MaxPages
<1>6. \A f \in FileName : fs.files[f].f_indirect = 0
  BY <1>2 DEF Init
<1>7. fs.dirty = {} /\ fs.bitmap = Data /\ fs.lent = {}
  BY DEF Init
<1> QED BY <1>5, <1>6, <1>7 DEF Typed

\* A store of a client changes the page of one block.
LEMMA WriteTypes ==
  ASSUME Typed(fs), NEW b \in Data, NEW i \in Slot, NEW w \in Words, ClientWrite(b, i, w)
  PROVE  /\ Typed(fs') /\ fs'.files = fs.files /\ fs'.bitmap = fs.bitmap /\ fs'.panic = fs.panic
         /\ \A x \in Data : x # b => fs'.cache[x] = fs.cache[x]
<1> DEFINE c == [fs.cache[b] EXCEPT ![i] = w]
           ca == [fs.cache EXCEPT ![b] = c]
<1>1. b \in fs.lent /\ fs' = [fs EXCEPT !.cache = ca]
  BY DEF ClientWrite
<1>2. fs \in FsState
  BY DEF Typed
<1>3. fs.cache[b] \in Content
  BY <1>1, <1>2, Fields DEF Typed
<1>4. c \in Content
  BY <1>3, FsAssumption DEF Content
<1> HIDE DEF c
<1>5. /\ ca \in [Data -> Content \union {Unmapped}] /\ ca[b] = c
      /\ \A x \in Data : x # b => ca[x] = fs.cache[x]
  BY <1>2, <1>4, Fields
<1> HIDE DEF ca
<1>6. /\ fs' \in FsState /\ fs'.cache = ca /\ fs'.files = fs.files /\ fs'.bitmap = fs.bitmap
      /\ fs'.dirty = fs.dirty /\ fs'.lent = fs.lent /\ fs'.panic = fs.panic
  BY <1>1, <1>2, <1>5, SetCache
<1>7. \A x \in Data : fs.cache[x] # Unmapped => fs'.cache[x] # Unmapped
  BY <1>4, <1>5, <1>6, Mapped
<1> QED BY <1>5, <1>6, <1>7 DEF Typed

\* What the kernel has left, and the page given with the reply.
LEMMA SetPages ==
  ASSUME NEW s, Typed(s), NEW n \in 0..MaxPages
  PROVE  LET t == [s EXCEPT !.pages = n]
         IN  /\ Typed(t) /\ t.files = s.files /\ t.bitmap = s.bitmap /\ t.cache = s.cache
             /\ t.panic = s.panic
<1> DEFINE t == [s EXCEPT !.pages = n]
<1>1. s \in FsState
  BY DEF Typed
<1>2. /\ t \in FsState /\ t.files = s.files /\ t.bitmap = s.bitmap /\ t.cache = s.cache
      /\ t.panic = s.panic /\ t.dirty = s.dirty /\ t.lent = s.lent
  BY <1>1 DEF FsState
<1> HIDE DEF t
<1>3. Typed(t)
  BY <1>2 DEF Typed
<1> QED BY <1>2, <1>3 DEF t

LEMMA SetLent ==
  ASSUME NEW s, Typed(s), NEW L, L \subseteq Data, \A b \in L : s.cache[b] # Unmapped
  PROVE  LET t == [s EXCEPT !.pages = 0, !.lent = s.lent \union L]
         IN  /\ Typed(t) /\ t.files = s.files /\ t.bitmap = s.bitmap /\ t.cache = s.cache
             /\ t.panic = s.panic
<1> DEFINE M == s.lent \union L
           t == [s EXCEPT !.pages = 0, !.lent = M]
<1>1. s \in FsState
  BY DEF Typed
<1>2. M \subseteq Data /\ 0 \in 0..MaxPages
  BY <1>1 DEF FsState, MaxPages
<1>3. \A b \in M : b \in s.lent \/ b \in L
  OBVIOUS
<1> HIDE DEF M
<1>4. /\ t \in FsState /\ t.files = s.files /\ t.bitmap = s.bitmap /\ t.cache = s.cache
      /\ t.panic = s.panic /\ t.dirty = s.dirty /\ t.lent = M
  BY <1>1, <1>2 DEF FsState
<1> HIDE DEF t
<1>5. \A b \in Data : b \in t.dirty \/ b \notin t.bitmap \/ b \in t.lent => t.cache[b] # Unmapped
  BY <1>3, <1>4 DEF Typed
<1>6. Typed(t)
  BY <1>4, <1>5 DEF Typed
<1> QED BY <1>4, <1>6 DEF t, M

LEMMA GetTypes ==
  ASSUME NEW s, Typed(s), NEW f \in FileName, NEW bno \in Nat
  PROVE  LET g == file_get_block(s, f, bno)
         IN  /\ Typed(g.s)
             /\ g.ret = "ok" /\ g.bno \in Data => g.s.cache[g.bno] # Unmapped
<1> DEFINE m == file_map_block(s, f, bno, TRUE)
           rd == Read(read_block(m.s, m.bno))
           g == file_get_block(s, f, bno)
<1>1. Typed(m.s) /\ m.bno \in BlockNo
  BY MapTypes
<1> HIDE DEF m
<1>2. rd.s = read_block(m.s, m.bno) /\ (rd.ret = "ok" => ~rd.s.panic)
  BY DEF Read
<1> HIDE DEF rd
<1>3. Typed(rd.s) /\ (rd.ret = "ok" /\ m.bno \in Data => rd.s.cache[m.bno] # Unmapped)
  BY <1>1, <1>2, ReadBlock
<1>4. g = IF m.ret # "ok" THEN m ELSE [m EXCEPT !.s = rd.s, !.ret = rd.ret]
  BY DEF file_get_block, m, rd
<1>5. m = [s |-> m.s, ret |-> m.ret, bno |-> m.bno]
  BY Zenon DEF m, file_map_block
<1> HIDE DEF g
<1>6. CASE m.ret # "ok"
  BY <1>1, <1>4, <1>6 DEF g
<1>7. CASE m.ret = "ok"
  <2>1. g.s = rd.s /\ g.ret = rd.ret /\ g.bno = m.bno
    BY <1>4, <1>5, <1>7
  <2> QED BY <1>3, <2>1 DEF g
<1> QED BY <1>6, <1>7

\* The state that the reply to a map request leaves.
LEMMA ServeMap ==
  ASSUME Typed(fs), NEW f \in FileName, NEW bno \in Bnos, serve_map(f, bno)
  PROVE  \E n \in 0..MaxPages :
           LET s == [fs EXCEPT !.pages = n]
               g == file_get_block(s, f, bno)
           IN  /\ Typed(s) /\ s.files = fs.files /\ s.bitmap = fs.bitmap
               /\ s.cache = fs.cache /\ s.panic = fs.panic
               /\ Typed(fs') /\ fs'.files = g.s.files /\ fs'.bitmap = g.s.bitmap
               /\ fs'.cache = g.s.cache /\ fs'.panic = g.s.panic
               /\ strayed' = strayed \union Late(fs, f, bno) \union Leftover(fs, g.s, f)
<1>1. PICK n \in 0..MaxPages :
        LET r == file_get_block([fs EXCEPT !.pages = n], f, bno)
            given == IF r.ret = "ok" THEN {r.bno} \intersect Data ELSE {}
        IN  /\ fs' = [r.s EXCEPT !.pages = 0, !.lent = @ \union given]
            /\ strayed' = strayed \union Late(fs, f, bno) \union Leftover(fs, r.s, f)
  BY DEF serve_map, map_reply
<1> DEFINE s == [fs EXCEPT !.pages = n]
           g == file_get_block(s, f, bno)
           given == IF g.ret = "ok" THEN {g.bno} \intersect Data ELSE {}
<1>2. /\ fs' = [g.s EXCEPT !.pages = 0, !.lent = g.s.lent \union given]
      /\ strayed' = strayed \union Late(fs, f, bno) \union Leftover(fs, g.s, f)
  BY <1>1
<1>3. /\ Typed(s) /\ s.files = fs.files /\ s.bitmap = fs.bitmap
      /\ s.cache = fs.cache /\ s.panic = fs.panic
  BY SetPages
<1> HIDE DEF s
<1>4. Typed(g.s) /\ (g.ret = "ok" /\ g.bno \in Data => g.s.cache[g.bno] # Unmapped)
  <2>1. bno \in Nat
    BY FsAssumption
  <2> QED BY <1>3, <2>1, GetTypes
<1> HIDE DEF g
<1>5. given \subseteq Data /\ \A b \in given : g.s.cache[b] # Unmapped
  BY <1>4
<1> HIDE DEF given
<1>6. /\ Typed(fs') /\ fs'.files = g.s.files /\ fs'.bitmap = g.s.bitmap
      /\ fs'.cache = g.s.cache /\ fs'.panic = g.s.panic
  BY <1>2, <1>4, <1>5, SetLent
<1> QED BY <1>2, <1>3, <1>6 DEF g, s

LEMMA SetSizeTypes ==
  ASSUME NEW s, Typed(s), NEW f \in FileName, NEW size \in Size
  PROVE  Typed(file_set_size(s, f, size))
<1> DEFINE c == IF s.files[f].f_size > size THEN file_truncate(s, f, size) ELSE s
           d == [c EXCEPT !.files[f].f_size = size]
<1>1. Typed(c)
  BY TruncateTypes
<1>2. file_set_size(s, f, size) = dir_flush(d)
  BY DEF file_set_size
<1> HIDE DEF c
<1>3. Typed(d)
  BY <1>1, SetSize
<1> HIDE DEF d
<1> QED BY <1>2, <1>3, FlushBlocks DEF dir_flush

LEMMA RemoveTypes ==
  ASSUME NEW s, Typed(s), NEW f \in FileName
  PROVE  Typed(file_remove(s, f))
<1> DEFINE c == file_truncate(s, f, 0)
           d == [c EXCEPT !.files[f].f_name = FALSE]
           e == file_flush(d, f)
<1>1. file_remove(s, f) = dir_flush(e)
  BY DEF file_remove
<1>2. Typed(c)
  BY TruncateTypes, SizeNat
<1> HIDE DEF c
<1>3. Typed(d)
  BY <1>2, SetName
<1> HIDE DEF d
<1>4. Typed(e)
  BY <1>3, FlushTypes
<1> HIDE DEF e
<1> QED BY <1>1, <1>4, FlushBlocks DEF dir_flush

LEMMA TypedStep ==
  ASSUME Typed(fs), Next
  PROVE  Typed(fs')
<1>1. CASE Maps
  BY <1>1, ServeMap DEF Maps
<1>2. ASSUME NEW f \in FileName, NEW bno \in Bnos, serve_dirty(f, bno)
      PROVE  Typed(fs')
  <2> DEFINE m == file_map_block(fs, f, bno, FALSE)
  <2>1. Typed(m.s)
    <3>1. bno \in Nat
      BY FsAssumption
    <3> QED BY <3>1, MapTypes
  <2>2. fs' = IF m.ret # "ok" THEN m.s ELSE dirty_block(m.s, m.bno)
    BY <1>2 DEF serve_dirty, file_dirty
  <2> HIDE DEF m
  <2> QED BY <2>1, <2>2, DirtyBlock
<1>3. ASSUME NEW f \in FileName, NEW size \in Size, serve_set_size(f, size)
      PROVE  Typed(fs')
  BY <1>3, SetSizeTypes DEF serve_set_size
<1>4. ASSUME NEW f \in FileName, serve_close(f)
      PROVE  Typed(fs')
  BY <1>4, FlushTypes, FlushBlocks DEF serve_close, dir_flush
<1>5. ASSUME NEW f \in FileName, serve_remove(f)
      PROVE  Typed(fs')
  BY <1>5, RemoveTypes DEF serve_remove
<1>6. CASE serve_dirty_dir
  BY <1>6, DirtyBlock DEF serve_dirty_dir
<1>7. CASE serve_sync
  BY <1>7, FlushBlocks DEF serve_sync, fs_sync
<1>8. CASE Writes
  BY <1>8, WriteTypes DEF Writes
<1>9. CASE Requests
  BY <1>2, <1>3, <1>4, <1>5, <1>6, <1>7, <1>9 DEF Requests
<1> QED BY <1>1, <1>8, <1>9 DEF Next

LEMMA MapHistory ==
  ASSUME NEW f \in FileName, NEW bno \in Bnos, serve_map(f, bno)
  PROVE  \E S \in SUBSET Strays : strayed' = strayed \union S
<1>1. PICK n \in 0..MaxPages :
        LET r == file_get_block([fs EXCEPT !.pages = n], f, bno)
            given == IF r.ret = "ok" THEN {r.bno} \intersect Data ELSE {}
        IN  /\ fs' = [r.s EXCEPT !.pages = 0, !.lent = @ \union given]
            /\ strayed' = strayed \union Late(fs, f, bno) \union Leftover(fs, r.s, f)
  BY DEF serve_map, map_reply
<1> DEFINE t == file_get_block([fs EXCEPT !.pages = n], f, bno).s
<1>2. strayed' = strayed \union Late(fs, f, bno) \union Leftover(fs, t, f)
  BY <1>1
<1> HIDE DEF t
<1>3. Late(fs, f, bno) \subseteq Strays /\ Leftover(fs, t, f) \subseteq Strays
  BY DEF Late, Leftover, Strays
<1> DEFINE S == Late(fs, f, bno) \union Leftover(fs, t, f)
<1>4. S \in SUBSET Strays /\ strayed' = strayed \union S
  BY <1>2, <1>3
<1> HIDE DEF S
<1> QED BY <1>4

\* The history names the three ways.
LEMMA StrayedStep ==
  ASSUME Next
  PROVE  strayed \subseteq strayed' /\ (strayed \subseteq Strays => strayed' \subseteq Strays)
<1>1. ASSUME NEW f \in FileName, NEW bno \in Bnos, serve_map(f, bno)
      PROVE  \E S \in SUBSET Strays : strayed' = strayed \union S
  BY <1>1, MapHistory
<1>2. ASSUME NEW b \in Data, NEW i \in Slot, NEW w \in Words, ClientWrite(b, i, w)
      PROVE  \E S \in SUBSET Strays : strayed' = strayed \union S
  BY <1>2 DEF ClientWrite, Strays
<1>3. (\E S \in SUBSET Strays : strayed' = strayed \union S) \/ strayed' = strayed
  BY <1>1, <1>2 DEF Next, Maps, Writes
<1> QED BY <1>3

\* The server's memory and the disk keep their types whatever is requested and
\* whatever clients write: an indirect block that is walked is in the cache, and a
\* block that is written to the disk was loaded or mapped before.
THEOREM FsTypes == Spec => []TypeOK
<1> DEFINE I == Typed(fs) /\ strayed \subseteq Strays
<1>1. Init => I
  BY InitTyped DEF Init
<1>2. I /\ [Next]_vars => I'
  <2> SUFFICES ASSUME I, [Next]_vars
               PROVE  I'
    OBVIOUS
  <2>1. CASE Next
    BY <2>1, TypedStep, StrayedStep
  <2>2. CASE UNCHANGED vars
    BY <2>2 DEF vars
  <2> QED BY <2>1, <2>2
<1>3. I => TypeOK
  BY DEF Typed, TypeOK, FsState
<1> QED BY <1>1, <1>2, <1>3, PTL DEF Spec

-----------------------------------------------------------------------------
(* Places and blocks. *)

LEMMA WordType ==
  ASSUME NEW s, Typed(s), NEW f \in FileName, NEW i \in Place
  PROVE  /\ Word(s, f, i) \in BlockNo
         /\ i \in 0..(NDIRECT - 1) => Word(s, f, i) = s.files[f].f_direct[i]
         /\ i = NINDIRECT => Word(s, f, i) = s.files[f].f_indirect
         /\ i \in Slot => Word(s, f, i) = IF s.files[f].f_indirect # 0
                                            THEN s.cache[s.files[f].f_indirect][i] ELSE 0
<1>1. s \in FsState
  BY DEF Typed
<1>2. i \in Slot => ~(i < NDIRECT) /\ i # NINDIRECT
  BY Numbers
<1>3. i < NDIRECT <=> i \in 0..(NDIRECT - 1)
  BY FsAssumption DEF Place
<1>4. i = NINDIRECT => ~(i < NDIRECT)
  BY FsAssumption
<1>5. s.files[f].f_indirect # 0 => s.cache[s.files[f].f_indirect] \in Content
  BY <1>1, Fields DEF Typed
<1>6. i < NDIRECT \/ i \in Slot \/ i = NINDIRECT
  BY Numbers
<1>7. i \in 0..(NDIRECT - 1) => s.files[f].f_direct[i] \in BlockNo
  BY <1>1, Fields
<1>8. s.files[f].f_indirect \in BlockNo
  BY <1>1, Fields
<1> QED BY <1>2, <1>3, <1>4, <1>5, <1>6, <1>7, <1>8, Numbers DEF Word, Content

\* A file that is not f has the words it had if its record and its indirect block are
\* as they were.
LEMMA WordSame ==
  ASSUME NEW s, NEW t, Typed(s), Typed(t), NEW g \in FileName, NEW i \in Place,
         t.files[g].f_direct = s.files[g].f_direct,
         t.files[g].f_indirect = s.files[g].f_indirect,
         s.files[g].f_indirect # 0 =>
           t.cache[s.files[g].f_indirect] = s.cache[s.files[g].f_indirect]
  PROVE  Word(t, g, i) = Word(s, g, i)
BY DEF Word

SameWords(s, t) == \A g \in FileName, i \in Place : Word(t, g, i) = Word(s, g, i)

\* Block b is put in place i of file f.
Put(s, t, f, i, b) ==
  \A g \in FileName, j \in Place : Word(t, g, j) = IF g = f /\ j = i THEN b ELSE Word(s, g, j)

LEMMA ExactSame ==
  ASSUME NEW s, NEW t, Exact(s), SameWords(s, t), t.bitmap = s.bitmap
  PROVE  Exact(t)
BY DEF Exact, SameWords

LEMMA ExactLink ==
  ASSUME NEW s, NEW t, Exact(s), NEW f \in FileName, NEW i \in Place, NEW b \in s.bitmap,
         b \in Data, Word(s, f, i) = 0, Put(s, t, f, i, b), t.bitmap = s.bitmap \ {b}
  PROVE  Exact(t)
<1>1. b # 0 /\ \A g \in FileName, j \in Place : Word(s, g, j) # b
  BY Numbers DEF Exact
<1>2. ASSUME NEW g \in FileName, NEW j \in Place, Word(t, g, j) # 0
      PROVE  /\ Word(t, g, j) \in Data \ t.bitmap
             /\ \A h \in FileName, k \in Place : Word(t, h, k) = Word(t, g, j) => h = g /\ k = j
  <2>1. CASE g = f /\ j = i
    BY <1>1, <2>1 DEF Put
  <2>2. CASE ~(g = f /\ j = i)
    <3>1. Word(t, g, j) = Word(s, g, j)
      BY <2>2 DEF Put
    <3> QED BY <1>1, <1>2, <2>2, <3>1 DEF Exact, Put
  <2> QED BY <2>1, <2>2
<1>3. ASSUME NEW c \in Data \ t.bitmap
      PROVE  \E g \in FileName, j \in Place : Word(t, g, j) = c
  <2>1. CASE c = b
    BY <2>1 DEF Put
  <2>2. CASE c # b
    <3>1. PICK g \in FileName, j \in Place : Word(s, g, j) = c
      BY <1>3, <2>2 DEF Exact
    <3>2. c # 0
      BY Numbers
    <3> QED BY <3>1, <3>2 DEF Put
  <2> QED BY <2>1, <2>2
<1> QED BY <1>2, <1>3 DEF Exact

LEMMA ExactUnlink ==
  ASSUME NEW s, NEW t, Exact(s), NEW f \in FileName, NEW i \in Place, Word(s, f, i) # 0,
         Put(s, t, f, i, 0), t.bitmap = s.bitmap \union {Word(s, f, i)}
  PROVE  Exact(t)
<1>1. ASSUME NEW g \in FileName, NEW j \in Place, Word(t, g, j) # 0
      PROVE  /\ Word(t, g, j) \in Data \ t.bitmap
             /\ \A h \in FileName, k \in Place : Word(t, h, k) = Word(t, g, j) => h = g /\ k = j
  <2>1. ~(g = f /\ j = i) /\ Word(t, g, j) = Word(s, g, j)
    BY <1>1 DEF Put
  <2>2. Word(s, g, j) # Word(s, f, i)
    BY <1>1, <2>1 DEF Exact
  <2> QED BY <1>1, <2>1, <2>2 DEF Exact, Put
<1>2. ASSUME NEW c \in Data \ t.bitmap
      PROVE  \E g \in FileName, j \in Place : Word(t, g, j) = c
  <2>1. PICK g \in FileName, j \in Place : Word(s, g, j) = c
    BY <1>2 DEF Exact
  <2> QED BY <1>2, <2>1 DEF Put
<1> QED BY <1>1, <1>2 DEF Exact

\* The indirect blocks of two files differ, and are in use.
LEMMA Indirects ==
  ASSUME NEW s, Good(s), NEW f \in FileName, s.files[f].f_indirect # 0
  PROVE  /\ s.files[f].f_indirect \in Data \ s.bitmap
         /\ \A g \in FileName : s.files[g].f_indirect = s.files[f].f_indirect => g = f
<1>1. \A g \in FileName : Word(s, g, NINDIRECT) = s.files[g].f_indirect
  BY WordType, Numbers DEF Good
<1> QED BY <1>1, Numbers DEF Good, Exact

LEMMA WalkGood ==
  ASSUME NEW s, Good(s), NEW f \in FileName, NEW bno \in Nat
  PROVE  LET w == file_block_walk(s, f, bno, FALSE)
         IN  w.s = s /\ (w.ret = "ok" <=> Found(s, f, bno))
<1> DEFINE w == file_block_walk(s, f, bno, FALSE)
           ind == s.files[f].f_indirect
<1>0. /\ bno \in 0..(NDIRECT - 1) => bno \notin Slot
      /\ bno >= NINDIRECT => bno \notin Slot /\ bno \notin 0..(NDIRECT - 1)
  BY FsAssumption DEF Slot
<1>1. CASE bno \in 0..(NDIRECT - 1)
  <2>1. w = [s |-> s, ret |-> "ok"]
    BY <1>1, WalkCases
  <2> HIDE DEF w
  <2>2. w.s = s /\ w.ret = "ok"
    BY <2>1
  <2> QED BY <1>1, <2>2 DEF Found, w
<1>2. CASE bno >= NINDIRECT \/ (bno \in Slot /\ ind = 0)
  <2>1. w = [s |-> s, ret |-> "E_INVAL"] \/ w = [s |-> s, ret |-> "E_NOT_FOUND"]
    BY <1>2, WalkCases
  <2> HIDE DEF w
  <2>2. w.s = s /\ w.ret # "ok"
    BY <2>1
  <2>3. ~Found(s, f, bno)
    BY <1>0, <1>2 DEF Found
  <2> QED BY <2>2, <2>3 DEF w
<1>3. CASE bno \in Slot /\ ind # 0
  <2>1. w = Read(read_block(s, ind))
    BY <1>3, WalkCases
  <2>2. ind \in Data \ s.bitmap
    BY <1>3, Indirects
  <2>3. read_block(s, ind) = s
    BY <2>2, ReadBlock, Numbers DEF Good
  <2> HIDE DEF w
  <2>4. w.s = s /\ w.ret = "ok"
    BY <2>1, <2>3 DEF Read, Good
  <2> QED BY <1>3, <2>4 DEF Found, w
<1> QED BY <1>1, <1>2, <1>3, WalkCases

LEMMA MapGood ==
  ASSUME NEW s, Good(s), NEW f \in FileName, NEW bno \in Nat
  PROVE  LET m == file_map_block(s, f, bno, FALSE)
         IN  /\ m.s = s
             /\ m.ret = "ok" => /\ Found(s, f, bno) /\ bno \in Place \ {NINDIRECT}
                                /\ m.bno = Word(s, f, bno) /\ m.bno # 0
<1> DEFINE m == file_map_block(s, f, bno, FALSE)
           w == file_block_walk(s, f, bno, FALSE)
           b == ptr_get(w.s, f, bno)
<1>1. w.s = s /\ (w.ret = "ok" <=> Found(s, f, bno))
  BY WalkGood
<1>2. Found(s, f, bno) => b = Word(s, f, bno) /\ bno \in Place \ {NINDIRECT}
  <2>1. Found(s, f, bno) => bno \in Place \ {NINDIRECT}
    BY Numbers, FsAssumption DEF Found
  <2> HIDE DEF w
  <2> QED BY <1>1, <2>1, PtrGet DEF Good
<1>3. /\ w.ret # "ok" => m = [s |-> w.s, ret |-> w.ret, bno |-> 0]
      /\ w.ret = "ok" /\ b # 0 => m = [s |-> w.s, ret |-> "ok", bno |-> b]
      /\ w.ret = "ok" /\ b = 0 => m = [s |-> w.s, ret |-> "E_NOT_FOUND", bno |-> 0]
  BY MapCases
<1> HIDE DEF m, w, b
<1>4. m.s = s /\ (m.ret = "ok" => Found(s, f, bno) /\ m.bno = b /\ b # 0)
  BY <1>1, <1>3
<1> QED BY <1>2, <1>4 DEF m

\* Setting a slot that the walk has found changes that place, and no other.
LEMMA PutPtr ==
  ASSUME NEW s, Typed(s), NEW f \in FileName, NEW bno, Found(s, f, bno), NEW b \in BlockNo,
         \A g \in FileName :
           s.files[f].f_indirect # 0 /\ s.files[g].f_indirect = s.files[f].f_indirect => g = f
  PROVE  LET t == ptr_set(s, f, bno, b)
         IN  /\ Typed(t) /\ Put(s, t, f, bno, b) /\ t.bitmap = s.bitmap /\ t.panic = s.panic
             /\ Sizes(s, t)
             /\ \A g \in FileName : t.files[g].f_indirect = s.files[g].f_indirect
             /\ NoIndirect(s) => NoIndirect(t)
<1> DEFINE t == ptr_set(s, f, bno, b)
           ind == s.files[f].f_indirect
<1>1. CASE bno \in 0..(NDIRECT - 1)
  <2>1. /\ Typed(t) /\ t.bitmap = s.bitmap /\ t.panic = s.panic /\ t.cache = s.cache
        /\ \A g \in FileName : /\ t.files[g].f_indirect = s.files[g].f_indirect
                               /\ t.files[g].f_size = s.files[g].f_size
                               /\ g # f => t.files[g] = s.files[g]
        /\ t.files[f].f_direct = [s.files[f].f_direct EXCEPT ![bno] = b]
    BY <1>1, PtrSetDirect
  <2> HIDE DEF t
  <2>2. ASSUME NEW g \in FileName, NEW j \in Place
        PROVE  Word(t, g, j) = IF g = f /\ j = bno THEN b ELSE Word(s, g, j)
    <3>1. CASE g # f
      BY <2>1, <3>1, WordSame
    <3>2. CASE g = f /\ j \in 0..(NDIRECT - 1)
      <4>1. Word(t, f, j) = t.files[f].f_direct[j] /\ Word(s, f, j) = s.files[f].f_direct[j]
        <5>1. j < NDIRECT
          BY <3>2, FsAssumption
        <5> QED BY <5>1 DEF Word
      <4>2. s.files[f].f_direct \in [0..(NDIRECT - 1) -> BlockNo]
        BY Fields DEF Typed
      <4> QED BY <1>1, <2>1, <3>2, <4>1, <4>2
    <3>3. CASE g = f /\ j \notin 0..(NDIRECT - 1)
      <4>1. ~(j < NDIRECT)
        BY <3>3, FsAssumption DEF Place
      <4>2. Word(t, f, j) = Word(s, f, j)
        BY <2>1, <4>1 DEF Word
      <4> QED BY <1>1, <3>3, <4>2
    <3> QED BY <3>1, <3>2, <3>3
  <2>3. NoIndirect(s) => NoIndirect(t)
    BY <2>1 DEF NoIndirect
  <2> QED BY <2>1, <2>2, <2>3 DEF Put, Sizes, t
<1>2. CASE bno \in Slot /\ ind # 0
  <2>1. /\ Typed(t) /\ t.bitmap = s.bitmap /\ t.panic = s.panic /\ t.files = s.files
        /\ \A x \in Data \ {ind} : t.cache[x] = s.cache[x]
        /\ t.cache[ind] = [s.cache[ind] EXCEPT ![bno] = b]
    BY <1>2, PtrSetSlot
  <2> HIDE DEF t
  <2>2. ASSUME NEW g \in FileName, NEW j \in Place
        PROVE  Word(t, g, j) = IF g = f /\ j = bno THEN b ELSE Word(s, g, j)
    <3>1. CASE g # f
      <4>1. s.files[g].f_indirect # 0 => s.files[g].f_indirect \in Data \ {ind}
        BY <1>2, <3>1 DEF Typed
      <4> QED BY <2>1, <3>1, <4>1, WordSame
    <3>2. CASE g = f /\ j \in Slot
      <4>1. Word(t, f, j) = t.cache[ind][j] /\ Word(s, f, j) = s.cache[ind][j]
        <5>1. ~(j < NDIRECT) /\ j # NINDIRECT
          BY <3>2, Numbers
        <5> QED BY <1>2, <2>1, <5>1 DEF Word
      <4>2. s.cache[ind] \in Content
        BY <1>2, Fields DEF Typed
      <4> QED BY <1>2, <2>1, <3>2, <4>1, <4>2 DEF Content
    <3>3. CASE g = f /\ j \notin Slot
      <4>1. j < NDIRECT \/ j = NINDIRECT
        BY <3>3, Numbers
      <4>2. Word(t, f, j) = Word(s, f, j)
        BY <2>1, <4>1 DEF Word
      <4> QED BY <1>2, <3>3, <4>2
    <3> QED BY <3>1, <3>2, <3>3
  <2>3. NoIndirect(s) => NoIndirect(t)
    BY <2>1 DEF NoIndirect
  <2> QED BY <2>1, <2>2, <2>3 DEF Put, Sizes, t
<1> QED BY <1>1, <1>2 DEF Found

\* What clearing block bno of file f, if it has one, makes of s.
Cleared(s, t, f, bno) ==
  /\ Good(t) /\ Sizes(s, t) /\ (NoIndirect(s) => NoIndirect(t))
  /\ \A i \in Slot : i = bno => Word(t, f, i) = 0
  /\ \A i \in Slot : Word(s, f, i) = 0 => Word(t, f, i) = 0

LEMMA ClearGood ==
  ASSUME NEW s, Good(s), NEW f \in FileName, NEW bno \in Nat
  PROVE  Cleared(s, file_clear_block(s, f, bno), f, bno)
<1> DEFINE w == file_block_walk(s, f, bno, FALSE)
           b == ptr_get(s, f, bno)
           u == free_block(s, b)
           t == ptr_set(u, f, bno, 0)
<1>1. w.s = s /\ (w.ret = "ok" <=> Found(s, f, bno))
  BY WalkGood
<1>2. file_clear_block(s, f, bno) = IF w.ret # "ok" \/ b = 0 THEN s ELSE t
  BY <1>1 DEF file_clear_block
<1> HIDE DEF w
<1>3. Found(s, f, bno) => bno \in Place /\ b = Word(s, f, bno) /\ b \in BlockNo
  <2>1. Found(s, f, bno) => bno \in Place
    BY Numbers DEF Found
  <2> QED BY <2>1, PtrGet DEF Good
<1> HIDE DEF b
<1>4. CASE ~Found(s, f, bno)
  <2>1. \A i \in Slot : i = bno => Word(s, f, i) = 0
    BY <1>4, WordType, Numbers DEF Found, Good
  <2> QED BY <1>1, <1>2, <1>4, <2>1 DEF Cleared, Sizes
<1>5. CASE Found(s, f, bno) /\ b = 0
  BY <1>2, <1>3, <1>5 DEF Cleared, Sizes
<1>6. CASE Found(s, f, bno) /\ b # 0
  <2>1. b \in Data \ s.bitmap
    BY <1>3, <1>6 DEF Good, Exact
  <2>2. /\ Typed(u) /\ u.files = s.files /\ u.cache = s.cache /\ u.panic = s.panic
        /\ u.bitmap = s.bitmap \union {b}
    BY <1>3, <1>6, <2>1, FreeBlock DEF Good
  <2> HIDE DEF u
  <2>3. SameWords(s, u) /\ Found(u, f, bno) /\ Sizes(s, u) /\ (NoIndirect(s) => NoIndirect(u))
    BY <1>6, <2>2 DEF SameWords, Word, Found, Sizes, NoIndirect
  <2>4. \A g \in FileName :
          u.files[f].f_indirect # 0 /\ u.files[g].f_indirect = u.files[f].f_indirect => g = f
    BY <2>2, Indirects
  <2>5. /\ Typed(t) /\ Put(u, t, f, bno, 0) /\ t.bitmap = u.bitmap /\ t.panic = u.panic
        /\ Sizes(u, t) /\ (NoIndirect(u) => NoIndirect(t))
    BY <2>2, <2>3, <2>4, PutPtr, Numbers
  <2> HIDE DEF t
  <2>6. Put(s, t, f, bno, 0)
    BY <2>3, <2>5 DEF Put, SameWords
  <2>7. Exact(t)
    BY <1>3, <1>6, <2>2, <2>5, <2>6, ExactUnlink DEF Good
  <2>8. Sizes(s, t)
    BY <2>3, <2>5 DEF Sizes
  <2>9. Within(t)
    BY <2>6, <2>8, Numbers DEF Within, Put, Sizes, Good
  <2>10. Good(t)
    BY <2>2, <2>5, <2>7, <2>9 DEF Good
  <2>11. /\ \A i \in Slot : i = bno => Word(t, f, i) = 0
         /\ \A i \in Slot : Word(s, f, i) = 0 => Word(t, f, i) = 0
    BY <2>6, Numbers DEF Put
  <2>12. Cleared(s, t, f, bno)
    BY <2>3, <2>5, <2>8, <2>10, <2>11 DEF Cleared
  <2> QED BY <1>1, <1>2, <1>6, <2>12
<1> QED BY <1>4, <1>5, <1>6

LEMMA ClearAllGood ==
  ASSUME NEW s, Good(s), NEW f \in FileName, NEW new \in Nat, NEW old \in Nat
  PROVE  LET t == clear_blocks(s, f, new, old)
         IN  /\ Good(t) /\ Sizes(s, t) /\ (NoIndirect(s) => NoIndirect(t))
             /\ \A i \in Slot : (new <= i /\ i < old) \/ Word(s, f, i) = 0 => Word(t, f, i) = 0
<1> DEFINE n == Turns(new, old)
<1>1. PICK c : /\ clear_blocks(s, f, new, old) = c[n] /\ c[0] = s
               /\ \A i \in 1..n : c[i] = file_clear_block(c[i - 1], f, new + i - 1)
  BY ClearLoop
<1>2. n \in Nat /\ \A i \in Nat : i < old => i < new + n
  BY DEF Turns
<1> HIDE DEF n
<1> DEFINE Ok(k) == /\ Good(c[k]) /\ Sizes(s, c[k]) /\ (NoIndirect(s) => NoIndirect(c[k]))
                    /\ \A i \in Slot : (new <= i /\ i < new + k) \/ Word(s, f, i) = 0
                                         => Word(c[k], f, i) = 0
           S == {k \in 0..n : Ok(k)}
<1>3. 0 \in S
  <2>1. \A i \in Slot : ~(new <= i /\ i < new + 0)
    BY FsAssumption DEF Slot
  <2>2. Ok(0)
    BY <1>1, <2>1 DEF Sizes
  <2> QED BY <1>2, <2>2
<1>4. ASSUME NEW k \in 0..(n - 1), k \in S
      PROVE  k + 1 \in S
  <2>1. c[k + 1] = file_clear_block(c[k], f, new + k)
    <3>1. k + 1 \in 1..n /\ (k + 1) - 1 = k /\ new + (k + 1) - 1 = new + k
      BY <1>2
    <3> QED BY <1>1, <3>1
  <2>2. Ok(k)
    BY <1>4
  <2>3. new + k \in Nat /\ k + 1 \in 0..n
    BY <1>2
  <2>4. Cleared(c[k], c[k + 1], f, new + k)
    BY <2>1, <2>2, <2>3, ClearGood
  <2>5. ASSUME NEW i \in Slot, (new <= i /\ i < new + (k + 1)) \/ Word(s, f, i) = 0
        PROVE  Word(c[k + 1], f, i) = 0
    <3>1. i = new + k \/ (new <= i /\ i < new + k) \/ Word(s, f, i) = 0
      BY <1>2, <2>5, FsAssumption DEF Slot
    <3> QED BY <2>2, <2>4, <3>1 DEF Cleared
  <2>6. Good(c[k + 1]) /\ Sizes(s, c[k + 1]) /\ (NoIndirect(s) => NoIndirect(c[k + 1]))
    BY <2>2, <2>4 DEF Cleared, Sizes
  <2> QED BY <2>3, <2>5, <2>6
<1> HIDE DEF S
<1>5. n \in S
  BY <1>2, <1>3, <1>4, Counting
<1>6. Ok(n)
  BY <1>5 DEF S
<1>7. \A i \in Slot : i \in Nat
  BY FsAssumption DEF Slot
<1> QED BY <1>1, <1>2, <1>6, <1>7

\* A change of the size alone.
LEMMA SizeGood ==
  ASSUME NEW s, Good(s), NEW f \in FileName, NEW size \in Size,
         \A i \in Slot : Word(s, f, i) # 0 => i < nblocks(size)
  PROVE  LET t == [s EXCEPT !.files[f].f_size = size]
         IN  /\ Good(t) /\ (NoIndirect(s) => NoIndirect(t)) /\ t.files[f].f_size = size
             /\ SameWords(s, t)
<1> DEFINE t == [s EXCEPT !.files[f].f_size = size]
<1>1. /\ Typed(t) /\ t.files[f].f_size = size
      /\ t.files[f].f_direct = s.files[f].f_direct
      /\ t.files[f].f_indirect = s.files[f].f_indirect
      /\ \A g \in FileName : g # f => t.files[g] = s.files[g]
      /\ t.bitmap = s.bitmap /\ t.cache = s.cache /\ t.dirty = s.dirty /\ t.lent = s.lent
      /\ t.panic = s.panic
  BY SetSize DEF Good
<1> HIDE DEF t
<1>2. ASSUME NEW g \in FileName, NEW i \in Place
      PROVE  Word(t, g, i) = Word(s, g, i)
  <2>1. t.files[g].f_direct = s.files[g].f_direct /\ t.files[g].f_indirect = s.files[g].f_indirect
    BY <1>1
  <2> QED BY <1>1, <2>1, WordSame DEF Good
<1>3. SameWords(s, t)
  BY <1>2 DEF SameWords
<1>4. Exact(t)
  BY <1>1, <1>3, ExactSame DEF Good
<1>5. ASSUME NEW g \in FileName, NEW i \in Slot, Word(t, g, i) # 0
      PROVE  i < nblocks(t.files[g].f_size)
  <2>1. Word(s, g, i) # 0
    BY <1>2, <1>5, Numbers
  <2>2. CASE g = f
    BY <1>1, <2>1, <2>2
  <2>3. CASE g # f
    BY <1>1, <2>1, <2>3 DEF Good, Within
  <2> QED BY <2>2, <2>3
<1>6. NoIndirect(s) => NoIndirect(t)
  <2>1. \A g \in FileName : t.files[g].f_indirect = s.files[g].f_indirect
    BY <1>1
  <2> QED BY <1>1, <2>1 DEF NoIndirect
<1>7. Good(t)
  BY <1>1, <1>4, <1>5 DEF Good, Within
<1> QED BY <1>1, <1>3, <1>6, <1>7 DEF t

\* An empty indirect block is freed.
LEMMA FreeIndirect ==
  ASSUME NEW s, Good(s), NEW f \in FileName, s.files[f].f_indirect # 0,
         \A i \in Slot : Word(s, f, i) = 0
  PROVE  LET ind == s.files[f].f_indirect
             t == [free_block(s, ind) EXCEPT !.files[f].f_indirect = 0]
         IN  /\ Good(t) /\ Sizes(s, t) /\ (NoIndirect(s) => NoIndirect(t))
             /\ \A i \in Slot : Word(t, f, i) = 0
<1> DEFINE ind == s.files[f].f_indirect
           u == free_block(s, ind)
           t == [u EXCEPT !.files[f].f_indirect = 0]
<1>1. ind \in Data \ s.bitmap /\ \A g \in FileName : s.files[g].f_indirect = ind => g = f
  BY Indirects
<1>2. /\ Typed(u) /\ u.files = s.files /\ u.cache = s.cache /\ u.panic = s.panic
      /\ u.bitmap = s.bitmap \union {ind}
  <2>1. {ind} \intersect Data = {ind} /\ ind \in BlockNo
    BY <1>1, Numbers
  <2> HIDE DEF ind
  <2> QED BY <2>1, FreeBlock DEF Good
<1> HIDE DEF u
<1>3. /\ Typed(t) /\ t.files[f].f_indirect = 0
      /\ t.files[f].f_direct = u.files[f].f_direct /\ t.files[f].f_size = u.files[f].f_size
      /\ \A g \in FileName : g # f => t.files[g] = u.files[g]
      /\ t.bitmap = u.bitmap /\ t.cache = u.cache /\ t.dirty = u.dirty /\ t.panic = u.panic
  BY <1>2, SetIndirect, Numbers
<1> HIDE DEF t
<1>4. ASSUME NEW g \in FileName, NEW i \in Place
      PROVE  Word(t, g, i) = IF g = f /\ i = NINDIRECT THEN 0 ELSE Word(s, g, i)
  <2>1. CASE g # f
    BY <1>2, <1>3, <2>1, WordSame DEF Good
  <2>2. CASE g = f /\ i < NDIRECT
    <3>1. i # NINDIRECT
      BY <2>2, FsAssumption
    <3> QED BY <1>2, <1>3, <2>2, <3>1 DEF Word
  <2>3. CASE g = f /\ i = NINDIRECT
    BY <1>3, <2>3, WordType
  <2>4. CASE g = f /\ i \in Slot
    <3>1. Word(t, f, i) = 0
      <4>1. ~(i < NDIRECT) /\ i # NINDIRECT
        BY <2>4, Numbers
      <4> QED BY <1>3, <4>1 DEF Word
    <3>2. i # NINDIRECT
      BY <2>4, Numbers
    <3> QED BY <2>4, <3>1, <3>2
  <2> QED BY <2>1, <2>2, <2>3, <2>4, Numbers
<1>5. Word(s, f, NINDIRECT) = ind
  BY WordType, Numbers DEF Good
<1>6. Put(s, t, f, NINDIRECT, 0)
  BY <1>4 DEF Put
<1>7. Exact(t)
  BY <1>2, <1>3, <1>5, <1>6, Numbers, ExactUnlink DEF Good
<1>8. Sizes(s, t)
  BY <1>2, <1>3 DEF Sizes
<1>9. Within(t)
  BY <1>6, <1>8, Numbers DEF Within, Put, Sizes, Good
<1>10. Good(t)
  BY <1>2, <1>3, <1>7, <1>9 DEF Good
<1>11. NoIndirect(s) => NoIndirect(t)
  BY DEF NoIndirect
<1>12. \A i \in Slot : Word(t, f, i) = 0
  BY <1>4, Numbers
<1> QED BY <1>8, <1>10, <1>11, <1>12 DEF t, u

LEMMA TruncateGood ==
  ASSUME NEW s, Good(s), NEW f \in FileName, NEW size \in Size
  PROVE  LET t == file_truncate(s, f, size)
         IN  /\ Good(t) /\ (NoIndirect(s) => NoIndirect(t)) /\ t.files[f].f_size = size
<1> DEFINE new == IF size = 0 THEN 0 ELSE nblocks(size)
           old == nblocks(s.files[f].f_size)
           c == clear_blocks(s, f, new, old)
           ind == c.files[f].f_indirect
           d == [free_block(c, ind) EXCEPT !.files[f].f_indirect = 0]
           e == IF new <= NDIRECT /\ ind # 0 THEN d ELSE c
<1>1. file_truncate(s, f, size) = [e EXCEPT !.files[f].f_size = size]
  BY DEF file_truncate
<1>2. new \in Nat /\ old \in Nat /\ nblocks(size) \in Nat /\ new <= nblocks(size)
  <2>1. s.files[f].f_size \in Size
    BY Fields DEF Good, Typed
  <2>2. s.files[f].f_size \in Nat /\ size \in Nat
    BY <2>1, SizeNat
  <2>3. old \in Nat /\ nblocks(size) \in Nat
    BY <2>2, NBlocks
  <2> QED BY <2>3
<1>3. /\ Good(c) /\ (NoIndirect(s) => NoIndirect(c))
      /\ \A i \in Slot : (new <= i /\ i < old) \/ Word(s, f, i) = 0 => Word(c, f, i) = 0
  BY <1>2, ClearAllGood
<1>4. ASSUME NEW i \in Slot, new <= i
      PROVE  Word(c, f, i) = 0
  <2>1. Word(s, f, i) # 0 => i < old
    BY DEF Good, Within
  <2> QED BY <1>3, <1>4, <2>1
<1> HIDE DEF c, new, old
<1>5. CASE new <= NDIRECT /\ ind # 0
  <2>1. \A i \in Slot : Word(c, f, i) = 0
    <3>1. \A i \in Slot : new <= i
      BY <1>2, <1>5, FsAssumption DEF Slot
    <3> QED BY <1>4, <3>1
  <2>2. Good(d) /\ (NoIndirect(c) => NoIndirect(d)) /\ \A i \in Slot : Word(d, f, i) = 0
    BY <1>3, <1>5, <2>1, FreeIndirect
  <2>3. e = d
    BY <1>5
  <2> HIDE DEF d, e
  <2>4. Good(e) /\ (NoIndirect(s) => NoIndirect(e)) /\ \A i \in Slot : Word(e, f, i) = 0
    BY <1>3, <2>2, <2>3
  <2> QED BY <1>1, <2>4, SizeGood
<1>6. CASE ~(new <= NDIRECT /\ ind # 0)
  <2>1. e = c
    BY <1>6
  <2> HIDE DEF e
  <2>2. \A i \in Slot : Word(e, f, i) # 0 => i < nblocks(size)
    <3>1. ASSUME NEW i \in Slot, Word(e, f, i) # 0
          PROVE  i < nblocks(size)
      <4>1. ~(new <= i)
        BY <1>4, <2>1, <3>1
      <4>2. i \in Nat
        BY FsAssumption DEF Slot
      <4> QED BY <1>2, <4>1, <4>2
    <3> QED BY <3>1
  <2> QED BY <1>1, <1>3, <2>1, <2>2, SizeGood
<1> QED BY <1>5, <1>6

\* A larger size has no fewer blocks.
LEMMA NBlocksGrow ==
  ASSUME NEW a \in Nat, NEW b \in Nat, a <= b
  PROVE  nblocks(a) <= nblocks(b)
<1> DEFINE q == a \div BY2BLK
           r == b \div BY2BLK
<1>1. /\ q \in Int /\ r \in Int
      /\ BY2BLK * q <= a /\ b < BY2BLK * (r + 1)
  BY FsAssumption
<1>2. BY2BLK \in Nat /\ BY2BLK > 0
  BY FsAssumption
<1> HIDE DEF q, r
<1>3. q < r + 1
  <2> SUFFICES ASSUME q >= r + 1
               PROVE  FALSE
    BY <1>1
  <2>1. BY2BLK * q >= BY2BLK * (r + 1)
    BY <1>1, <1>2
  <2>2. BY2BLK * q \in Int /\ BY2BLK * (r + 1) \in Int
    BY <1>1, <1>2
  <2> QED BY <1>1, <2>1, <2>2
<1> QED BY <1>1, <1>3 DEF nblocks, q, r

LEMMA FlushedGood ==
  ASSUME NEW s, Good(s), NEW t, Typed(t), t.files = s.files, t.bitmap = s.bitmap,
         t.cache = s.cache, t.panic = s.panic
  PROVE  Good(t) /\ (NoIndirect(s) => NoIndirect(t))
<1>1. SameWords(s, t)
  BY DEF SameWords, Word
<1>2. Exact(t)
  BY <1>1, ExactSame DEF Good
<1>3. Within(t)
  BY <1>1, Numbers DEF Within, SameWords, Good
<1>4. NoIndirect(s) => NoIndirect(t)
  BY DEF NoIndirect
<1> QED BY <1>2, <1>3, <1>4 DEF Good

LEMMA DirFlushGood ==
  ASSUME NEW s, Good(s), NEW B
  PROVE  Good(flush_blocks(s, B)) /\ (NoIndirect(s) => NoIndirect(flush_blocks(s, B)))
<1> DEFINE t == flush_blocks(s, B)
<1>1. /\ Typed(t) /\ t.files = s.files /\ t.bitmap = s.bitmap /\ t.cache = s.cache
      /\ t.panic = s.panic
  BY FlushBlocks DEF Good
<1> HIDE DEF t
<1>2. Good(t) /\ (NoIndirect(s) => NoIndirect(t))
  BY <1>1, FlushedGood
<1> QED BY <1>2 DEF t

LEMMA FlushGood ==
  ASSUME NEW s, Good(s), NEW f \in FileName
  PROVE  Good(file_flush(s, f)) /\ (NoIndirect(s) => NoIndirect(file_flush(s, f)))
<1> DEFINE n == nblocks(s.files[f].f_size)
<1>1. n \in Nat
  <2>1. s.files[f].f_size \in Size
    BY Fields DEF Good, Typed
  <2> QED BY <2>1, NBlocks, SizeNat
<1>2. PICK c : /\ file_flush(s, f) = c[n] /\ c[0] = s
               /\ \A i \in 1..n : c[i] = flush_block(c[i - 1], f, i - 1)
  BY <1>1, FlushLoop
<1> HIDE DEF n
<1> DEFINE S == {i \in 0..n : Good(c[i]) /\ (NoIndirect(s) => NoIndirect(c[i]))}
<1>3. 0 \in S
  BY <1>1, <1>2
<1>4. ASSUME NEW i \in 0..(n - 1), i \in S
      PROVE  i + 1 \in S
  <2>1. c[i + 1] = flush_block(c[i], f, i)
    <3>1. i + 1 \in 1..n /\ (i + 1) - 1 = i
      BY <1>1
    <3> QED BY <1>2, <3>1
  <2>2. Good(c[i]) /\ (NoIndirect(s) => NoIndirect(c[i])) /\ i \in Nat /\ i + 1 \in 0..n
    BY <1>1, <1>4
  <2>3. file_map_block(c[i], f, i, FALSE).s = c[i]
    BY <2>2, MapGood
  <2>4. flush_block(c[i], f, i) = c[i] \/ \E B : flush_block(c[i], f, i) = flush_blocks(c[i], B)
    BY <2>3 DEF flush_block
  <2>5. Good(c[i + 1]) /\ (NoIndirect(s) => NoIndirect(c[i + 1]))
    BY <2>1, <2>2, <2>4, DirFlushGood
  <2> QED BY <2>2, <2>5
<1> HIDE DEF S
<1>5. n \in S
  BY <1>1, <1>3, <1>4, Counting
<1> QED BY <1>2, <1>5 DEF S

LEMMA SetSizeGood ==
  ASSUME NEW s, Good(s), NEW f \in FileName, NEW size \in Size
  PROVE  Good(file_set_size(s, f, size)) /\ (NoIndirect(s) => NoIndirect(file_set_size(s, f, size)))
<1> DEFINE c == IF s.files[f].f_size > size THEN file_truncate(s, f, size) ELSE s
           d == [c EXCEPT !.files[f].f_size = size]
<1>1. s.files[f].f_size \in Nat /\ size \in Nat
  BY Fields, SizeNat DEF Good, Typed
<1>2. /\ Good(c) /\ (NoIndirect(s) => NoIndirect(c))
      /\ c.files[f].f_size \in Nat /\ c.files[f].f_size <= size
  BY <1>1, TruncateGood
<1>3. file_set_size(s, f, size) = dir_flush(d)
  BY DEF file_set_size
<1> HIDE DEF c
<1>4. \A i \in Slot : Word(c, f, i) # 0 => i < nblocks(size)
  <2>1. nblocks(c.files[f].f_size) <= nblocks(size)
    BY <1>1, <1>2, NBlocksGrow
  <2>2. nblocks(c.files[f].f_size) \in Nat /\ nblocks(size) \in Nat
    BY <1>1, <1>2, NBlocks
  <2>3. \A i \in Slot : i \in Nat
    BY FsAssumption DEF Slot
  <2>4. \A i \in Slot : Word(c, f, i) # 0 => i < nblocks(c.files[f].f_size)
    BY <1>2 DEF Good, Within
  <2> QED BY <2>1, <2>2, <2>3, <2>4
<1>5. Good(d) /\ (NoIndirect(c) => NoIndirect(d))
  BY <1>2, <1>4, SizeGood
<1> HIDE DEF d
<1>6. Good(dir_flush(d)) /\ (NoIndirect(d) => NoIndirect(dir_flush(d)))
  BY <1>5, DirFlushGood DEF dir_flush
<1> QED BY <1>2, <1>3, <1>5, <1>6

LEMMA RemoveGood ==
  ASSUME NEW s, Good(s), NEW f \in FileName
  PROVE  Good(file_remove(s, f)) /\ (NoIndirect(s) => NoIndirect(file_remove(s, f)))
<1> DEFINE c == file_truncate(s, f, 0)
           d == [c EXCEPT !.files[f].f_name = FALSE]
           e == file_flush(d, f)
<1>1. file_remove(s, f) = dir_flush(e)
  BY DEF file_remove
<1>2. Good(c) /\ (NoIndirect(s) => NoIndirect(c))
  BY TruncateGood, SizeNat
<1> HIDE DEF c
<1>3. /\ Typed(d) /\ d.files[f].f_size = c.files[f].f_size
      /\ d.files[f].f_direct = c.files[f].f_direct
      /\ d.files[f].f_indirect = c.files[f].f_indirect
      /\ \A g \in FileName : g # f => d.files[g] = c.files[g]
      /\ d.bitmap = c.bitmap /\ d.cache = c.cache /\ d.dirty = c.dirty /\ d.panic = c.panic
  BY <1>2, SetName DEF Good
<1> HIDE DEF d
<1>4. \A g \in FileName : /\ d.files[g].f_direct = c.files[g].f_direct
                          /\ d.files[g].f_indirect = c.files[g].f_indirect
                          /\ d.files[g].f_size = c.files[g].f_size
  BY <1>3
<1>5. SameWords(c, d)
  BY <1>3, <1>4 DEF SameWords, Word
<1>6. Good(d)
  <2>1. Exact(d)
    BY <1>2, <1>3, <1>5, ExactSame DEF Good
  <2>2. Within(d)
    BY <1>2, <1>4, <1>5, Numbers DEF Within, SameWords, Good
  <2> QED BY <1>2, <1>3, <2>1, <2>2 DEF Good
<1>7. NoIndirect(c) => NoIndirect(d)
  BY <1>3, <1>4 DEF NoIndirect
<1>8. Good(e) /\ (NoIndirect(d) => NoIndirect(e))
  BY <1>6, FlushGood
<1> HIDE DEF e
<1>9. Good(dir_flush(e)) /\ (NoIndirect(e) => NoIndirect(dir_flush(e)))
  BY <1>8, DirFlushGood DEF dir_flush
<1> QED BY <1>1, <1>2, <1>7, <1>8, <1>9

\* The block that f would get for its indirect block has no words in it.
CleanFor(s, f) ==
  s.files[f].f_indirect = 0 /\ alloc_block(s).ret = "ok" => s.cache[alloc_block(s).bno] \in Clean

LEMMA NewIndirectGood ==
  ASSUME NEW s, Good(s), NEW f \in FileName, s.files[f].f_indirect = 0, alloc_block(s).ret = "ok",
         s.cache[alloc_block(s).bno] \in Clean
  PROVE  LET b == alloc_block(s).bno
             u == [alloc_block(s).s EXCEPT !.files[f].f_indirect = b]
         IN  /\ Good(u) /\ Sizes(s, u) /\ read_block(u, b) = u
             /\ u.files[f].f_indirect = b /\ b # 0
<1> DEFINE b == alloc_block(s).bno
           u == [alloc_block(s).s EXCEPT !.files[f].f_indirect = b]
<1>1. /\ Typed(u) /\ read_block(u, b) = u /\ b \in s.bitmap /\ b \in Data
      /\ u.files[f].f_indirect = b /\ u.files[f].f_direct = s.files[f].f_direct
      /\ u.files[f].f_size = s.files[f].f_size
      /\ \A g \in FileName : g # f => u.files[g] = s.files[g]
      /\ u.bitmap = s.bitmap \ {b} /\ u.panic = s.panic
      /\ u.cache[b] = IF s.cache[b] = Unmapped THEN Zeroed ELSE s.cache[b]
      /\ \A c \in Data \ {b} : u.cache[c] = s.cache[c]
  BY NewIndirect DEF Good
<1> HIDE DEF u, b
<1>2. u.cache[b] = Zeroed
  BY <1>1 DEF Clean, b
<1>3. ASSUME NEW g \in FileName
      PROVE  s.files[g].f_indirect # b
  BY <1>1, <1>3, Indirects, Numbers
<1>4. ASSUME NEW g \in FileName, NEW i \in Place
      PROVE  Word(u, g, i) = IF g = f /\ i = NINDIRECT THEN b ELSE Word(s, g, i)
  <2>1. CASE g # f
    <3>1. s.files[g].f_indirect # 0 => s.files[g].f_indirect \in Data \ {b}
      BY <1>3 DEF Good, Typed
    <3> QED BY <1>1, <2>1, <3>1, WordSame DEF Good
  <2>2. CASE g = f /\ i < NDIRECT
    <3>1. i # NINDIRECT
      BY <2>2, FsAssumption
    <3> QED BY <1>1, <2>2, <3>1 DEF Word
  <2>3. CASE g = f /\ i = NINDIRECT
    BY <1>1, <2>3, WordType
  <2>4. CASE g = f /\ i \in Slot
    <3>1. ~(i < NDIRECT) /\ i # NINDIRECT
      BY <2>4, Numbers
    <3>2. Word(s, f, i) = 0
      BY <3>1 DEF Word
    <3>3. Word(u, f, i) = 0
      BY <1>1, <1>2, <2>4, <3>1 DEF Word, Zeroed
    <3> QED BY <2>4, <3>1, <3>2, <3>3
  <2> QED BY <2>1, <2>2, <2>3, <2>4, Numbers
<1>5. Word(s, f, NINDIRECT) = 0
  BY WordType, Numbers DEF Good
<1>6. Put(s, u, f, NINDIRECT, b)
  BY <1>4 DEF Put
<1>7. Exact(u)
  BY <1>1, <1>5, <1>6, Numbers, ExactLink DEF Good
<1>8. Sizes(s, u)
  BY <1>1 DEF Sizes
<1>9. Within(u)
  BY <1>6, <1>8, Numbers DEF Within, Put, Sizes, Good
<1>10. Good(u)
  BY <1>1, <1>7, <1>9 DEF Good
<1> QED BY <1>1, <1>8, <1>10, Numbers DEF u, b

\* An alloc_block that fails leaves the blocks as they were.
LEMMA AllocFails ==
  ASSUME NEW s, Good(s), alloc_block(s).ret # "ok"
  PROVE  LET t == alloc_block(s).s
         IN  Good(t) /\ Sizes(s, t) /\ (NoIndirect(s) => NoIndirect(t))
<1> DEFINE t == alloc_block(s).s
<1>1. Typed(t) /\ t.files = s.files /\ t.panic = s.panic /\ t.bitmap = s.bitmap /\ t.cache = s.cache
  BY Alloc DEF Good
<1> HIDE DEF t
<1>2. Good(t) /\ (NoIndirect(s) => NoIndirect(t))
  BY <1>1, FlushedGood
<1> QED BY <1>1, <1>2 DEF Sizes, t

LEMMA WalkAllocGood ==
  ASSUME NEW s, Good(s), NEW f \in FileName, NEW bno \in 0..(NINDIRECT - 1),
         bno \in Slot => CleanFor(s, f)
  PROVE  LET w == file_block_walk(s, f, bno, TRUE)
         IN  /\ Good(w.s) /\ Sizes(s, w.s)
             /\ NoIndirect(s) /\ bno \notin Slot => NoIndirect(w.s)
             /\ w.ret = "ok" => Found(w.s, f, bno)
<1> DEFINE w == file_block_walk(s, f, bno, TRUE)
           ind == s.files[f].f_indirect
           new == alloc_block(s)
           b == new.bno
           u == [new.s EXCEPT !.files[f].f_indirect = b]
<1>0. bno \in Nat /\ ~(bno >= NINDIRECT)
  BY FsAssumption
<1>1. CASE bno \in 0..(NDIRECT - 1)
  <2>1. w = [s |-> s, ret |-> "ok"]
    BY <1>0, <1>1, WalkCases
  <2> HIDE DEF w
  <2>2. w.s = s /\ w.ret = "ok"
    BY <2>1
  <2> QED BY <1>1, <2>2 DEF Sizes, Found, w
<1>2. CASE bno \in Slot /\ ind = 0 /\ new.ret # "ok"
  <2>1. w = [s |-> new.s, ret |-> new.ret]
    BY <1>0, <1>2, WalkCases
  <2>2. Good(new.s) /\ Sizes(s, new.s)
    BY <1>2, AllocFails
  <2> HIDE DEF w, new
  <2>3. w.s = new.s /\ w.ret # "ok"
    BY <1>2, <2>1
  <2> QED BY <1>2, <2>2, <2>3 DEF w
<1>3. CASE bno \in Slot /\ ind # 0
  <2>1. w = Read(read_block(s, ind))
    BY <1>0, <1>3, WalkCases
  <2>2. ind \in Data \ s.bitmap
    BY <1>3, Indirects
  <2>3. read_block(s, ind) = s
    BY <2>2, ReadBlock, Numbers DEF Good
  <2> HIDE DEF w
  <2>4. w.s = s
    BY <2>1, <2>3 DEF Read
  <2> QED BY <1>3, <2>4 DEF Found, Sizes, w
<1>4. CASE bno \in Slot /\ ind = 0 /\ new.ret = "ok"
  <2>1. w = Read(read_block(u, b))
    BY <1>0, <1>4, WalkCases
  <2>2. /\ Good(u) /\ Sizes(s, u) /\ read_block(u, b) = u
        /\ u.files[f].f_indirect = b /\ b # 0
    BY <1>4, NewIndirectGood DEF CleanFor
  <2> HIDE DEF w, u, b
  <2>3. w.s = u
    BY <2>1, <2>2 DEF Read
  <2> QED BY <1>4, <2>2, <2>3 DEF Found, w
<1> QED BY <1>0, <1>1, <1>2, <1>3, <1>4, WalkCases

\* A new block for a place that is empty.
LEMMA LinkGood ==
  ASSUME NEW s, Good(s), NEW f \in FileName, NEW bno, Found(s, f, bno), Word(s, f, bno) = 0,
         bno \in Slot => bno < nblocks(s.files[f].f_size), alloc_block(s).ret = "ok"
  PROVE  LET b == alloc_block(s).bno
             t == ptr_set(alloc_block(s).s, f, bno, b)
         IN  /\ Good(t) /\ (NoIndirect(s) => NoIndirect(t)) /\ b \in Data \ t.bitmap
             /\ t.files[f].f_indirect = s.files[f].f_indirect
<1> DEFINE b == alloc_block(s).bno
           u == alloc_block(s).s
           t == ptr_set(u, f, bno, b)
<1>1. /\ Typed(u) /\ b \in s.bitmap /\ b \in Data
      /\ u.files = s.files /\ u.bitmap = s.bitmap \ {b} /\ u.panic = s.panic
      /\ \A c \in Data \ {b} : u.cache[c] = s.cache[c]
  BY Alloc DEF Good
<1> HIDE DEF u, b
<1>2. SameWords(s, u)
  <2>1. ASSUME NEW g \in FileName, NEW i \in Place
        PROVE  Word(u, g, i) = Word(s, g, i)
    <3>1. s.files[g].f_indirect # 0 => s.files[g].f_indirect \in Data \ {b}
      BY <1>1, Indirects
    <3> QED BY <1>1, <3>1, WordSame DEF Good
  <2> QED BY <2>1 DEF SameWords
<1>3. NoIndirect(s) => NoIndirect(u)
  BY <1>1 DEF NoIndirect
<1>4. Found(u, f, bno)
  BY <1>1 DEF Found
<1>5. \A g \in FileName :
        u.files[f].f_indirect # 0 /\ u.files[g].f_indirect = u.files[f].f_indirect => g = f
  BY <1>1, Indirects
<1>6. /\ Typed(t) /\ Put(u, t, f, bno, b) /\ t.bitmap = u.bitmap /\ t.panic = u.panic
      /\ Sizes(u, t) /\ (NoIndirect(u) => NoIndirect(t))
      /\ t.files[f].f_indirect = u.files[f].f_indirect
  BY <1>1, <1>4, <1>5, PutPtr, Numbers
<1> HIDE DEF t
<1>7. Put(s, t, f, bno, b)
  BY <1>2, <1>6 DEF Put, SameWords
<1>8. bno \in Place
  BY Numbers DEF Found
<1>9. Exact(t)
  BY <1>1, <1>6, <1>7, <1>8, ExactLink DEF Good
<1>10. Sizes(s, t)
  BY <1>1, <1>6 DEF Sizes
<1>11. Within(t)
  <2>1. ASSUME NEW g \in FileName, NEW i \in Slot, Word(t, g, i) # 0
        PROVE  i < nblocks(t.files[g].f_size)
    <3>1. t.files[g].f_size = s.files[g].f_size
      BY <1>10 DEF Sizes
    <3>2. CASE g = f /\ i = bno
      BY <3>1, <3>2
    <3>3. CASE ~(g = f /\ i = bno)
      <4>1. Word(s, g, i) # 0
        BY <1>7, <2>1, <3>3, Numbers DEF Put
      <4> QED BY <3>1, <4>1 DEF Good, Within
    <3> QED BY <3>2, <3>3
  <2> QED BY <2>1 DEF Within
<1>12. Good(t)
  BY <1>1, <1>6, <1>9, <1>11 DEF Good
<1> QED BY <1>1, <1>3, <1>6, <1>12 DEF t, u, b

LEMMA MapAllocGood ==
  ASSUME NEW s, Good(s), NEW f \in FileName, NEW bno \in 0..(NINDIRECT - 1),
         bno \in Slot => bno < nblocks(s.files[f].f_size) /\ CleanFor(s, f)
  PROVE  LET m == file_map_block(s, f, bno, TRUE)
         IN  /\ Good(m.s) /\ (NoIndirect(s) /\ bno \notin Slot => NoIndirect(m.s))
             /\ m.ret = "ok" => m.bno \in Data \ m.s.bitmap
<1> DEFINE m == file_map_block(s, f, bno, TRUE)
           w == file_block_walk(s, f, bno, TRUE)
           b == ptr_get(w.s, f, bno)
           new == alloc_block(w.s)
           n == new.bno
           t == ptr_set(new.s, f, bno, n)
<1>1. /\ Good(w.s) /\ Sizes(s, w.s)
      /\ NoIndirect(s) /\ bno \notin Slot => NoIndirect(w.s)
      /\ w.ret = "ok" => Found(w.s, f, bno)
  BY WalkAllocGood
<1>2. /\ w.ret # "ok" => m = [s |-> w.s, ret |-> w.ret, bno |-> 0]
      /\ w.ret = "ok" /\ b # 0 => m = [s |-> w.s, ret |-> "ok", bno |-> b]
      /\ w.ret = "ok" /\ b = 0 /\ new.ret # "ok" => m = [s |-> new.s, ret |-> new.ret, bno |-> 0]
      /\ w.ret = "ok" /\ b = 0 /\ new.ret = "ok" => m = [s |-> t, ret |-> "ok", bno |-> n]
  BY MapCases, ZenonT(60)
<1>3. bno \in Place
  BY FsAssumption DEF Place
<1>4. w.ret = "ok" => b = Word(w.s, f, bno)
  <2> HIDE DEF w
  <2> QED BY <1>1, PtrGet DEF Good
<1>5. w.ret = "ok" /\ b # 0 => b \in Data \ w.s.bitmap
  <2> HIDE DEF w, b
  <2> QED BY <1>1, <1>3, <1>4 DEF Good, Exact
<1>6. w.ret = "ok" /\ b = 0 /\ new.ret = "ok" =>
        Good(t) /\ (NoIndirect(w.s) => NoIndirect(t)) /\ n \in Data \ t.bitmap
  <2>1. w.s.files[f].f_size = s.files[f].f_size
    BY <1>1 DEF Sizes
  <2> HIDE DEF w, b
  <2> QED BY <1>1, <1>4, <2>1, LinkGood
<1>7. new.ret # "ok" => Good(new.s) /\ (NoIndirect(w.s) => NoIndirect(new.s))
  <2> HIDE DEF w
  <2> QED BY <1>1, AllocFails
<1> HIDE DEF m, w, b, new, n, t
<1>8. CASE ~(w.ret = "ok" /\ b = 0)
  <2>1. m.s = w.s /\ (m.ret = "ok" => w.ret = "ok" /\ b # 0 /\ m.bno = b)
    BY <1>2, <1>8
  <2> QED BY <1>1, <1>5, <2>1 DEF m
<1>9. CASE w.ret = "ok" /\ b = 0 /\ new.ret # "ok"
  <2>1. m.s = new.s /\ m.ret # "ok"
    BY <1>2, <1>9
  <2> QED BY <1>1, <1>7, <1>9, <2>1 DEF m
<1>10. CASE w.ret = "ok" /\ b = 0 /\ new.ret = "ok"
  <2>1. m.s = t /\ m.bno = n
    BY <1>2, <1>10
  <2> QED BY <1>1, <1>6, <1>10, <2>1 DEF m
<1> QED BY <1>8, <1>9, <1>10

LEMMA GetGood ==
  ASSUME NEW s, Good(s), NEW f \in FileName, NEW bno \in 0..(NINDIRECT - 1),
         bno \in Slot => bno < nblocks(s.files[f].f_size) /\ CleanFor(s, f)
  PROVE  LET g == file_get_block(s, f, bno)
         IN  Good(g.s) /\ (NoIndirect(s) /\ bno \notin Slot => NoIndirect(g.s))
<1> DEFINE m == file_map_block(s, f, bno, TRUE)
           rd == Read(read_block(m.s, m.bno))
<1>1. /\ Good(m.s) /\ (NoIndirect(s) /\ bno \notin Slot => NoIndirect(m.s))
      /\ m.ret = "ok" => m.bno \in Data \ m.s.bitmap
  BY MapAllocGood
<1>2. file_get_block(s, f, bno) = IF m.ret # "ok" THEN m ELSE [m EXCEPT !.s = rd.s, !.ret = rd.ret]
  BY DEF file_get_block
<1>3. m = [s |-> m.s, ret |-> m.ret, bno |-> m.bno]
  BY Zenon DEF file_map_block
<1> HIDE DEF m
<1>4. m.ret = "ok" => rd.s = m.s
  BY <1>1, ReadBlock, Numbers DEF Read, Good
<1> HIDE DEF rd
<1> QED BY <1>1, <1>2, <1>3, <1>4

\* The indirect block that a request creates is the block that alloc_block gives.
LEMMA GetIndirect ==
  ASSUME NEW s, Typed(s), NEW f \in FileName, NEW bno \in Slot, s.files[f].f_indirect = 0,
         alloc_block(s).ret = "ok"
  PROVE  LET b == alloc_block(s).bno
         IN  file_get_block(s, f, bno).s.files[f].f_indirect = b /\ b # 0
<1> DEFINE w == file_block_walk(s, f, bno, TRUE)
           m == file_map_block(s, f, bno, TRUE)
           b == ptr_get(w.s, f, bno)
           new == alloc_block(w.s)
           n == new.bno
           c == alloc_block(s).bno
           u == [alloc_block(s).s EXCEPT !.files[f].f_indirect = c]
           rd == Read(read_block(m.s, m.bno))
<1>0. bno \in Nat
  BY FsAssumption DEF Slot
<1>1. w = Read(read_block(u, c))
  BY <1>0, WalkCases
<1>2. Typed(u) /\ read_block(u, c) = u /\ u.files[f].f_indirect = c /\ c \in Data
  BY NewIndirect
<1> HIDE DEF u, c
<1>3. w.s = u
  <2> HIDE DEF w
  <2> QED BY <1>1, <1>2 DEF Read
<1>4. /\ w.ret # "ok" => m = [s |-> w.s, ret |-> w.ret, bno |-> 0]
      /\ w.ret = "ok" /\ b # 0 => m = [s |-> w.s, ret |-> "ok", bno |-> b]
      /\ w.ret = "ok" /\ b = 0 /\ new.ret # "ok" => m = [s |-> new.s, ret |-> new.ret, bno |-> 0]
      /\ w.ret = "ok" /\ b = 0 /\ new.ret = "ok" =>
           m = [s |-> ptr_set(new.s, f, bno, n), ret |-> "ok", bno |-> n]
  BY MapCases, ZenonT(60)
<1>5. m = [s |-> m.s, ret |-> m.ret, bno |-> m.bno]
  BY Zenon DEF file_map_block
<1>6. Typed(m.s) /\ m.bno \in BlockNo
  BY <1>0, MapTypes
<1>7. file_get_block(s, f, bno) = IF m.ret # "ok" THEN m ELSE [m EXCEPT !.s = rd.s, !.ret = rd.ret]
  BY DEF file_get_block
<1>8. Typed(new.s) /\ new.s.files = u.files /\ (new.ret = "ok" => n \in Data)
  <2> HIDE DEF w
  <2> QED BY <1>2, <1>3, Alloc
<1> HIDE DEF w, b, m, new, n
<1>9. new.ret = "ok" => ptr_set(new.s, f, bno, n).files[f].f_indirect = c
  <2> SUFFICES ASSUME new.ret = "ok"
               PROVE  ptr_set(new.s, f, bno, n).files[f].f_indirect = c
    OBVIOUS
  <2>1. ptr_set(new.s, f, bno, n).files = new.s.files
    <3> DEFINE v == new.s
    <3>1. Typed(v) /\ v.files[f].f_indirect # 0 /\ n \in BlockNo
      BY <1>2, <1>8, Numbers
    <3> HIDE DEF v
    <3>2. ~(bno < NDIRECT)
      BY Numbers
    <3>3. v \in FsState
      BY <3>1 DEF Typed
    <3> DEFINE ca == [v.cache EXCEPT ![v.files[f].f_indirect] = [@ EXCEPT ![bno] = n]]
    <3>4. ptr_set(v, f, bno, n) = [v EXCEPT !.cache = ca]
      BY <3>2 DEF ptr_set
    <3> HIDE DEF ca
    <3>5. ptr_set(v, f, bno, n).files = v.files
      BY <3>3, <3>4 DEF FsState
    <3> QED BY <3>5 DEF v
  <2> QED BY <1>2, <1>8, <2>1
<1>10. m.s.files[f].f_indirect = c
  BY <1>2, <1>3, <1>4, <1>8, <1>9
<1>11. rd.s.files = m.s.files
  BY <1>6, ReadBlock DEF Read
<1> HIDE DEF rd
<1>12. file_get_block(s, f, bno).s.files = m.s.files
  BY <1>5, <1>7, <1>11
<1> QED BY <1>2, <1>10, <1>12, Numbers DEF c

LEMMA WriteGood ==
  ASSUME Good(fs), NEW b \in Data, NEW i \in Slot, NEW w \in Words, ClientWrite(b, i, w),
         \A f \in FileName : fs.files[f].f_indirect # b
  PROVE  Good(fs') /\ (NoIndirect(fs) => NoIndirect(fs'))
<1>1. /\ Typed(fs') /\ fs'.files = fs.files /\ fs'.bitmap = fs.bitmap /\ fs'.panic = fs.panic
      /\ \A x \in Data : x # b => fs'.cache[x] = fs.cache[x]
  BY WriteTypes DEF Good
<1>2. SameWords(fs, fs')
  <2>1. ASSUME NEW g \in FileName, NEW j \in Place
        PROVE  Word(fs', g, j) = Word(fs, g, j)
    <3> DEFINE ind == fs.files[g].f_indirect
    <3>1. ind # 0 => fs'.cache[ind] = fs.cache[ind]
      BY <1>1 DEF Good, Typed
    <3> QED BY <1>1, <3>1, WordSame DEF Good
  <2> QED BY <2>1 DEF SameWords
<1>3. Exact(fs')
  BY <1>1, <1>2, ExactSame DEF Good
<1>4. Within(fs')
  BY <1>1, <1>2, Numbers DEF Within, SameWords, Good
<1> QED BY <1>1, <1>3, <1>4 DEF Good, NoIndirect

\* No client asks for a block of an indirect block.
SmallFiles == \A n \in Bnos : n < NDIRECT

\* A map request that leaves the history empty, or that is for a direct block.
LEMMA ServeMapGood ==
  ASSUME Good(fs), NEW f \in FileName, NEW bno \in Bnos, serve_map(f, bno),
         strayed' = {} \/ SmallFiles
  PROVE  Good(fs') /\ (NoIndirect(fs) /\ SmallFiles => NoIndirect(fs'))
<1>1. PICK n \in 0..MaxPages :
        LET s == [fs EXCEPT !.pages = n]
            g == file_get_block(s, f, bno)
        IN  /\ Typed(s) /\ s.files = fs.files /\ s.bitmap = fs.bitmap
            /\ s.cache = fs.cache /\ s.panic = fs.panic
            /\ Typed(fs') /\ fs'.files = g.s.files /\ fs'.bitmap = g.s.bitmap
            /\ fs'.cache = g.s.cache /\ fs'.panic = g.s.panic
            /\ strayed' = strayed \union Late(fs, f, bno) \union Leftover(fs, g.s, f)
  BY ServeMap DEF Good
<1> DEFINE s == [fs EXCEPT !.pages = n]
           g == file_get_block(s, f, bno)
<1>2. /\ Typed(s) /\ s.files = fs.files /\ s.bitmap = fs.bitmap
      /\ s.cache = fs.cache /\ s.panic = fs.panic
      /\ Typed(fs') /\ fs'.files = g.s.files /\ fs'.bitmap = g.s.bitmap
      /\ fs'.cache = g.s.cache /\ fs'.panic = g.s.panic
      /\ strayed' = strayed \union Late(fs, f, bno) \union Leftover(fs, g.s, f)
  BY <1>1
<1> HIDE DEF s
<1>3. Good(s) /\ (NoIndirect(fs) => NoIndirect(s))
  BY <1>2, FlushedGood
<1>4. bno \in 0..(NINDIRECT - 1)
  BY FsAssumption
<1>5. SmallFiles => bno \notin Slot
  BY Numbers DEF SmallFiles
<1>6. ASSUME bno \in Slot
      PROVE  bno < nblocks(s.files[f].f_size) /\ CleanFor(s, f)
  <2>1. Late(fs, f, bno) = {} /\ Leftover(fs, g.s, f) = {}
    BY <1>2, <1>5, <1>6
  <2>2. bno < nblocks(s.files[f].f_size)
    <3>1. fs.files[f].f_size \in Nat
      BY Fields, SizeNat DEF Good, Typed
    <3>2. nblocks(fs.files[f].f_size) \in Nat /\ bno \in Nat
      BY <1>4, <3>1, NBlocks
    <3>3. ~(bno >= nblocks(fs.files[f].f_size))
      BY <1>6, <2>1 DEF Late
    <3> QED BY <1>2, <3>2, <3>3
  <2>3. CleanFor(s, f)
    <3>1. ASSUME s.files[f].f_indirect = 0, alloc_block(s).ret = "ok"
          PROVE  s.cache[alloc_block(s).bno] \in Clean
      <4>1. g.s.files[f].f_indirect = alloc_block(s).bno /\ alloc_block(s).bno # 0
        BY <1>2, <1>6, <3>1, GetIndirect
      <4> HIDE DEF g
      <4> QED BY <1>2, <2>1, <3>1, <4>1 DEF Leftover
    <3> QED BY <3>1 DEF CleanFor
  <2> QED BY <2>2, <2>3
<1>7. Good(g.s) /\ (NoIndirect(s) /\ bno \notin Slot => NoIndirect(g.s))
  BY <1>3, <1>4, <1>6, GetGood
<1> HIDE DEF g
<1>8. Good(fs') /\ (NoIndirect(g.s) => NoIndirect(fs'))
  BY <1>2, <1>7, FlushedGood
<1> QED BY <1>3, <1>5, <1>7, <1>8

\* Every step keeps the blocks exact unless it touches an indirect block in one of the
\* three ways; with small files there is none to touch.
LEMMA GoodStep ==
  ASSUME Good(fs), Next, strayed' = {} \/ (NoIndirect(fs) /\ SmallFiles)
  PROVE  Good(fs') /\ (NoIndirect(fs) /\ SmallFiles => NoIndirect(fs'))
<1>1. CASE Maps
  BY <1>1, ServeMapGood DEF Maps
<1>2. ASSUME NEW f \in FileName, NEW bno \in Bnos, serve_dirty(f, bno)
      PROVE  Good(fs') /\ (NoIndirect(fs) => NoIndirect(fs'))
  <2> DEFINE m == file_map_block(fs, f, bno, FALSE)
  <2>1. m.s = fs
    <3>1. bno \in Nat
      BY FsAssumption
    <3> QED BY <3>1, MapGood
  <2>2. fs' = IF m.ret # "ok" THEN m.s ELSE dirty_block(m.s, m.bno)
    BY <1>2 DEF serve_dirty, file_dirty
  <2> HIDE DEF m
  <2> DEFINE t == dirty_block(fs, m.bno)
  <2>3. /\ Typed(t) /\ t.files = fs.files /\ t.bitmap = fs.bitmap /\ t.cache = fs.cache
        /\ t.panic = fs.panic
    BY DirtyBlock DEF Good
  <2> HIDE DEF t
  <2>4. Good(t) /\ (NoIndirect(fs) => NoIndirect(t))
    BY <2>3, FlushedGood
  <2>5. fs' = fs \/ fs' = t
    BY <2>1, <2>2 DEF t
  <2> QED BY <2>4, <2>5
<1>3. ASSUME NEW f \in FileName, NEW size \in Size, serve_set_size(f, size)
      PROVE  Good(fs') /\ (NoIndirect(fs) => NoIndirect(fs'))
  BY <1>3, SetSizeGood DEF serve_set_size
<1>4. ASSUME NEW f \in FileName, serve_close(f)
      PROVE  Good(fs') /\ (NoIndirect(fs) => NoIndirect(fs'))
  BY <1>4, FlushGood, DirFlushGood DEF serve_close, dir_flush
<1>5. ASSUME NEW f \in FileName, serve_remove(f)
      PROVE  Good(fs') /\ (NoIndirect(fs) => NoIndirect(fs'))
  BY <1>5, RemoveGood DEF serve_remove
<1>6. ASSUME serve_dirty_dir
      PROVE  Good(fs') /\ (NoIndirect(fs) => NoIndirect(fs'))
  <2> DEFINE t == dirty_block(fs, DirBlk)
  <2>1. /\ Typed(t) /\ t.files = fs.files /\ t.bitmap = fs.bitmap /\ t.cache = fs.cache
        /\ t.panic = fs.panic
    BY DirtyBlock DEF Good
  <2> HIDE DEF t
  <2>2. Good(t) /\ (NoIndirect(fs) => NoIndirect(t))
    BY <2>1, FlushedGood
  <2> QED BY <1>6, <2>2 DEF serve_dirty_dir, t
<1>7. ASSUME serve_sync
      PROVE  Good(fs') /\ (NoIndirect(fs) => NoIndirect(fs'))
  BY <1>7, DirFlushGood DEF serve_sync, fs_sync
<1>8. ASSUME NEW b \in Data, NEW i \in Slot, NEW w \in Words, ClientWrite(b, i, w)
      PROVE  Good(fs') /\ (NoIndirect(fs) => NoIndirect(fs'))
  <2>1. strayed' = {} => \A f \in FileName : fs.files[f].f_indirect # b
    BY <1>8 DEF ClientWrite
  <2>2. NoIndirect(fs) => \A f \in FileName : fs.files[f].f_indirect # b
    BY Numbers DEF NoIndirect
  <2> QED BY <1>8, <2>1, <2>2, WriteGood
<1>9. CASE Writes
  BY <1>8, <1>9 DEF Writes
<1>10. CASE Requests
  BY <1>2, <1>3, <1>4, <1>5, <1>6, <1>7, <1>10 DEF Requests
<1> QED BY <1>1, <1>9, <1>10 DEF Next

\* With small files the history stays empty.
LEMMA SmallStep ==
  ASSUME Good(fs), Next, NoIndirect(fs), NoIndirect(fs'), SmallFiles
  PROVE  strayed' = strayed
<1>1. ASSUME NEW f \in FileName, NEW bno \in Bnos, serve_map(f, bno)
      PROVE  strayed' = strayed
  <2>1. PICK n \in 0..MaxPages :
          LET g == file_get_block([fs EXCEPT !.pages = n], f, bno)
          IN  /\ fs'.files = g.s.files
              /\ strayed' = strayed \union Late(fs, f, bno) \union Leftover(fs, g.s, f)
    BY <1>1, ServeMap DEF Good
  <2> DEFINE t == file_get_block([fs EXCEPT !.pages = n], f, bno).s
  <2>2. fs'.files = t.files /\ strayed' = strayed \union Late(fs, f, bno) \union Leftover(fs, t, f)
    BY <2>1
  <2> HIDE DEF t
  <2>3. Late(fs, f, bno) = {}
    BY Numbers DEF Late, SmallFiles
  <2>4. Leftover(fs, t, f) = {}
    BY <2>2 DEF Leftover, NoIndirect
  <2> QED BY <2>2, <2>3, <2>4
<1>2. ASSUME NEW b \in Data, NEW i \in Slot, NEW w \in Words, ClientWrite(b, i, w)
      PROVE  strayed' = strayed
  BY <1>2, Numbers DEF ClientWrite, NoIndirect
<1> QED BY <1>1, <1>2 DEF Next, Maps, Writes

LEMMA InitGood == Init => Good(fs) /\ NoIndirect(fs)
<1> SUFFICES ASSUME Init
             PROVE  Good(fs) /\ NoIndirect(fs)
  OBVIOUS
<1>1. Typed(fs)
  BY InitTyped
<1>2. ASSUME NEW f \in FileName
      PROVE  fs.files[f] = Empty
  BY DEF Init
<1>3. ASSUME NEW f \in FileName, NEW i \in Place
      PROVE  Word(fs, f, i) = 0
  <2>1. fs.files[f].f_indirect = 0 /\ \A j \in 0..(NDIRECT - 1) : fs.files[f].f_direct[j] = 0
    <3>1. Empty.f_indirect = 0 /\ Empty.f_direct = [j \in 0..(NDIRECT - 1) |-> 0]
      BY DEF Empty
    <3> QED BY <1>2, <3>1
  <2>2. i < NDIRECT => i \in 0..(NDIRECT - 1)
    BY FsAssumption DEF Place
  <2> QED BY <2>1, <2>2 DEF Word
<1>4. fs.bitmap = Data /\ ~fs.panic /\ \A b \in Data : fs.cache[b] = Unmapped
  BY DEF Init
<1>5. Exact(fs)
  BY <1>3, <1>4 DEF Exact
<1>6. Within(fs)
  BY <1>3, Numbers DEF Within
<1>7. NoIndirect(fs)
  BY <1>2 DEF NoIndirect, Empty
<1> QED BY <1>1, <1>4, <1>5, <1>6, <1>7 DEF Good

LEMMA GoodExact == Good(fs) => BitmapExact
<1> SUFFICES ASSUME Good(fs), NEW b \in Data
             PROVE  Cardinality(BlockRefs(b)) = IF b \in fs.bitmap THEN 0 ELSE 1
  BY DEF BitmapExact
<1>1. BlockRefs(b) \subseteq FileName \X Place
  BY DEF BlockRefs, Place
<1>2. ASSUME NEW f \in FileName, NEW i \in Place
      PROVE  <<f, i>> \in BlockRefs(b) <=> Word(fs, f, i) = b
  <2>1. /\ <<f, i>>[1] = f /\ <<f, i>>[2] = i /\ <<f, i>> \in FileName \X (0..NINDIRECT)
    BY DEF Place
  <2> DEFINE ind == fs.files[f].f_indirect
  <2>2. <<f, i>> \in BlockRefs(b) <=>
          \/ i < NDIRECT /\ fs.files[f].f_direct[i] = b
          \/ i \in Slot /\ ind \in Data /\ fs.cache[ind] # Unmapped /\ fs.cache[ind][i] = b
          \/ i = NINDIRECT /\ ind = b
    BY <2>1 DEF BlockRefs
  <2>3. ind # 0 <=> ind \in Data /\ fs.cache[ind] # Unmapped
    BY Numbers DEF Good, Typed
  <2>4. b # 0
    BY Numbers
  <2>5. CASE i < NDIRECT
    <3>1. i \notin Slot /\ i # NINDIRECT
      BY <2>5, FsAssumption, Numbers
    <3> QED BY <2>2, <2>5, <3>1 DEF Word
  <2>6. CASE i = NINDIRECT
    <3>1. i \notin Slot /\ ~(i < NDIRECT)
      BY <2>6, FsAssumption, Numbers
    <3> QED BY <2>2, <2>6, <3>1 DEF Word
  <2>7. CASE i \in Slot
    <3>1. i # NINDIRECT /\ ~(i < NDIRECT)
      BY <2>7, Numbers
    <3> QED BY <2>2, <2>3, <2>4, <2>7, <3>1 DEF Word
  <2> QED BY <2>5, <2>6, <2>7, Numbers
<1>3. CASE b \in fs.bitmap
  <2>1. \A f \in FileName, i \in Place : Word(fs, f, i) # b
    BY <1>3, Numbers DEF Good, Exact
  <2>2. BlockRefs(b) = {}
    BY <1>1, <1>2, <2>1
  <2> QED BY <1>3, <2>2, FS_EmptySet
<1>4. CASE b \notin fs.bitmap
  <2>1. PICK f \in FileName, i \in Place : Word(fs, f, i) = b
    BY <1>4 DEF Good, Exact
  <2>2. \A g \in FileName, j \in Place : Word(fs, g, j) = b => g = f /\ j = i
    BY <2>1, Numbers DEF Good, Exact
  <2>3. \A x \in FileName \X Place : x \in BlockRefs(b) <=> x = <<f, i>>
    <3>1. ASSUME NEW g \in FileName, NEW j \in Place
          PROVE  <<g, j>> \in BlockRefs(b) <=> <<g, j>> = <<f, i>>
      BY <1>2, <2>1, <2>2
    <3> QED BY <3>1
  <2>4. BlockRefs(b) = {<<f, i>>}
    BY <1>1, <2>3
  <2> QED BY <1>4, <2>4, FS_Singleton
<1> QED BY <1>3, <1>4

\* The blocks are exact until something befalls an indirect block.
LEMMA GoodUnlessStrayed ==
  /\ Init => (strayed = {} => Good(fs))
  /\ (strayed = {} => Good(fs)) /\ [Next]_vars => (strayed = {} => Good(fs))'
<1>1. Init => (strayed = {} => Good(fs))
  BY InitGood
<1>2. ASSUME strayed = {} => Good(fs), [Next]_vars, strayed' = {}
      PROVE  Good(fs')
  <2>1. CASE Next
    <3>1. strayed = {}
      BY <1>2, <2>1, StrayedStep
    <3> QED BY <1>2, <2>1, <3>1, GoodStep
  <2>2. CASE UNCHANGED vars
    BY <1>2, <2>2 DEF vars
  <2> QED BY <1>2, <2>1, <2>2
<1> QED BY <1>1, <1>2

\* The bitmap is exact: whatever sequence of opening, extending, truncating, removing
\* and closing files the server serves, and whatever clients store in the pages that
\* they have or still have, no block in use is free or belongs to two places, and no
\* block is lost, until a late request, a stale store or leftover words touch an
\* indirect block.
THEOREM FsBlocksExact == Spec => []BlocksExact
<1>1. (strayed = {} => Good(fs)) => BlocksExact
  BY GoodExact DEF BlocksExact
<1> QED BY <1>1, GoodUnlessStrayed, PTL DEF Spec

\* Until then read_block meets no block that is free or beyond the disk.
THEOREM FsNoPanic == Spec => []NoFsPanic
<1>1. (strayed = {} => Good(fs)) => NoFsPanic
  BY DEF Good, NoFsPanic
<1> QED BY <1>1, GoodUnlessStrayed, PTL DEF Spec

\* Files that need no indirect block are safe from all three: when no client asks for
\* a block beyond the direct pointers, late requests and stale stores included, the
\* bitmap is exact and the server does not panic, always.
THEOREM FsSmallFiles ==
  ASSUME SmallFiles
  PROVE  Spec => [](BitmapExact /\ ~fs.panic)
<1> DEFINE I == Good(fs) /\ NoIndirect(fs) /\ strayed = {}
<1>1. Init => I
  BY InitGood DEF Init
<1>2. I /\ [Next]_vars => I'
  <2> SUFFICES ASSUME I, [Next]_vars
               PROVE  I'
    OBVIOUS
  <2>1. CASE Next
    <3>1. Good(fs') /\ NoIndirect(fs')
      BY <2>1, GoodStep
    <3> QED BY <2>1, <3>1, SmallStep
  <2>2. CASE UNCHANGED vars
    BY <2>2 DEF vars
  <2> QED BY <2>1, <2>2
<1>3. I => BitmapExact /\ ~fs.panic
  BY GoodExact DEF Good
<1> QED BY <1>1, <1>2, <1>3, PTL DEF Spec
=============================================================================
