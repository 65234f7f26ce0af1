----------------------------- MODULE NamesProofs -----------------------------
(***************************************************************************)
(* Theorems about fsformat's image and the file server's use of it, for    *)
(* any host files, sizes of the disk and sizes of its structures.          *)
(***************************************************************************)
EXTENDS FsNames, SequenceTheorems, FiniteSetTheorems, WellFoundedInduction, TLAPS

-----------------------------------------------------------------------------
(* Numbers and loops *)

LEMMA Least ==
  ASSUME NEW S, S \subseteq Nat, S # {}
  PROVE  \E x \in S : \A y \in S : x <= y
<1>1. \E x \in S : \A y \in S : ~(<<y, x>> \in OpToRel(<, Nat))
  BY NatLessThanWellFounded, WFMin, Zenon
<1>2. PICK x \in S : \A y \in S : ~(<<y, x>> \in OpToRel(<, Nat))
  BY <1>1, Zenon
<1>3. \A y \in S : ~(y < x)
  BY <1>2, Zenon DEF OpToRel
<1> QED BY <1>3

LEMMA Counting ==
  ASSUME NEW n \in Nat, NEW S, 0 \in S, \A k \in 0..(n - 1) : k \in S => k + 1 \in S
  PROVE  \A k \in 0..n : k \in S
<1> DEFINE Bad == {k \in 0..n : k \notin S}
<1> SUFFICES ASSUME Bad # {} PROVE FALSE
  OBVIOUS
<1>1. PICK x \in Bad : \A y \in Bad : x <= y
  <2>1. Bad \subseteq Nat
    OBVIOUS
  <2> HIDE DEF Bad
  <2> QED BY <2>1, Least
<1>2. x # 0 /\ x - 1 \in 0..(n - 1)
  OBVIOUS
<1>3. x - 1 \in S
  BY <1>1, <1>2
<1>4. (x - 1) + 1 \in S
  BY <1>2, <1>3
<1> QED BY <1>2, <1>4

\* A loop whose turns stay in D: the states it goes through exist and are in D.
Turns(c, k, D, s, f) ==
  /\ c = [i \in 0..k |-> IF i = 0 THEN s ELSE f[i][c[i - 1]]]
  /\ \A i \in 0..k : c[i] \in D

LEMMA LoopExists ==
  ASSUME NEW D, NEW s \in D, NEW n \in Nat, NEW f,
         \A i \in 1..n : \A x \in D : f[i][x] \in D
  PROVE  \E c : Turns(c, n, D, s, f)
<1> DEFINE P(c, k) == Turns(c, k, D, s, f)
           S == {k \in 0..n : \E c : P(c, k)}
<1>1. 0 \in S
  <2> DEFINE d == [i \in 0..0 |-> s]
  <2>1. \A i \in 0..0 : d[i] = s /\ (IF i = 0 THEN s ELSE f[i][d[i - 1]]) = s
    OBVIOUS
  <2>2. d = [i \in 0..0 |-> IF i = 0 THEN s ELSE f[i][d[i - 1]]]
    BY <2>1
  <2>3. \A i \in 0..0 : d[i] \in D
    BY <2>1
  <2> HIDE DEF d
  <2>4. P(d, 0)
    BY <2>2, <2>3 DEF Turns
  <2> QED BY <2>4
<1>2. ASSUME NEW k \in 0..(n - 1), k \in S
      PROVE  k + 1 \in S
  <2>1. PICK c : P(c, k)
    BY <1>2
  <2> DEFINE d == [i \in 0..(k + 1) |-> IF i \in 0..k THEN c[i] ELSE f[k + 1][c[k]]]
  <2>2. \A i \in 0..k : c[i] = (IF i = 0 THEN s ELSE f[i][c[i - 1]]) /\ c[i] \in D
    BY <2>1, Zenon DEF Turns
  <2>3. \A i \in 0..k : d[i] = c[i]
    OBVIOUS
  <2>4. d[k + 1] = f[k + 1][c[k]] /\ d[k + 1] \in D
    <3>1. k \in 0..k /\ k + 1 \in 1..n /\ k + 1 \in 0..(k + 1) /\ k + 1 \notin 0..k
      OBVIOUS
    <3> QED BY <2>2, <3>1
  <2>5. d = [i \in 0..(k + 1) |-> d[i]]
    OBVIOUS
  <2> HIDE DEF d
  <2>6. ASSUME NEW i \in 0..(k + 1)
        PROVE  d[i] = (IF i = 0 THEN s ELSE f[i][d[i - 1]]) /\ d[i] \in D
    <3>1. CASE i \in 0..k
      <4>1. i = 0 \/ i - 1 \in 0..k
        OBVIOUS
      <4> QED BY <2>2, <2>3, <3>1, <4>1
    <3>2. CASE i = k + 1
      <4>1. i # 0 /\ i - 1 = k /\ k \in 0..k
        BY <3>2
      <4> QED BY <2>3, <2>4, <3>2, <4>1
    <3> QED BY <3>1, <3>2
  <2>7. P(d, k + 1)
    <3>1. [i \in 0..(k + 1) |-> d[i]] = [i \in 0..(k + 1) |-> IF i = 0 THEN s ELSE f[i][d[i - 1]]]
      BY <2>6
    <3> QED BY <2>5, <2>6, <3>1, Zenon DEF Turns
  <2> QED BY <2>7
<1> HIDE DEF S
<1>3. n \in S
  BY <1>1, <1>2, Counting
<1> QED BY <1>3 DEF S

\* Quotient and remainder.
LEMMA Dividing ==
  ASSUME NEW a \in Nat, NEW n \in Nat \ {0}
  PROVE  \E q \in Nat, r \in 0..(n - 1) :
           /\ q = a \div n /\ r = a % n /\ a = n * q + r
           /\ n * q \in Nat /\ n * q = a - r
<1>1. \A q, r \in Nat : q = a \div n /\ r = a % n => a = n * q + r
  BY SMTT(30)
<1>2. PICK q \in Nat, r \in Nat : q = a \div n /\ r = a % n /\ r \in 0..(n - 1)
  OBVIOUS
<1>3. a = n * q + r
  BY <1>1, <1>2, Zenon
<1>4. n * q \in Nat
  OBVIOUS
<1>5. n * q = a - r
  <2>1. \A x \in Nat : a = x + r => x = a - r
    OBVIOUS
  <2> QED BY <1>3, <1>4, <2>1, Zenon
<1> QED BY <1>2, <1>3, <1>4, <1>5, Zenon

LEMMA Divided ==
  ASSUME NEW q \in Nat, NEW n \in Nat \ {0}, NEW r \in 0..(n - 1), NEW b \in Nat, b = n * q + r
  PROVE  q = b \div n /\ r = b % n
<1>1. q = b \div n
  OBVIOUS
<1>2. r = b % n
  OBVIOUS
<1> QED BY <1>1, <1>2

\* The place of a block's bit in the bitmap: its block, its word, its bit.
bit_block(b) == 2 + (b \div BIT2WORD) \div (BIT2BLK \div BIT2WORD)
bit_word(b) == (b \div BIT2WORD) % (BIT2BLK \div BIT2WORD)

LEMMA Sizes ==
  /\ NBLOCK \in Nat \ {0} /\ BY2BLK \in Nat \ {0} /\ BIT2BLK \in Nat \ {0} /\ BIT2WORD \in Nat \ {0}
  /\ BIT2BYTE \in Nat \ {0} /\ NINDIRECT \in Nat \ {0} /\ FILE2BLK \in Nat \ {0}
  /\ NDIRECT \in 0..NINDIRECT /\ NDIRECT \in Nat /\ NDIRECT <= NINDIRECT
BY ImageAssumption

\* The words of a bitmap block.
LEMMA WordsOfBlock ==
  \E per \in Nat \ {0} : per = BIT2BLK \div BIT2WORD /\ BIT2BLK = BIT2WORD * per
<1>1. PICK q \in Nat, r \in 0..(BIT2WORD - 1) :
        q = BIT2BLK \div BIT2WORD /\ r = BIT2BLK % BIT2WORD /\ BIT2BLK = BIT2WORD * q + r
  BY Sizes, Dividing
<1>2. r = 0
  BY <1>1, ImageAssumption
<1>3. BIT2WORD * q \in Nat
  BY Sizes
<1>4. BIT2BLK = BIT2WORD * q
  BY <1>1, <1>2, <1>3
<1>5. q # 0
  BY <1>4, Sizes
<1> QED BY <1>1, <1>4, <1>5

\* Both ways of writing it: flush_bitmap's and block_is_free's.
LEMMA BitPlace ==
  ASSUME NEW b \in Nat
  PROVE  /\ bit_block(b) = 2 + b \div BIT2BLK
         /\ bit_word(b) = (b % BIT2BLK) \div BIT2WORD
         /\ bit_word(b) \in Word /\ b % BIT2WORD \in Bit
<1>1. PICK per \in Nat \ {0} : per = BIT2BLK \div BIT2WORD /\ BIT2BLK = BIT2WORD * per
  BY WordsOfBlock
<1>2. PICK w \in Nat, bit \in 0..(BIT2WORD - 1) :
        w = b \div BIT2WORD /\ bit = b % BIT2WORD /\ b = BIT2WORD * w + bit
  BY Sizes, Dividing
<1>3. PICK q \in Nat, r \in 0..(per - 1) : q = w \div per /\ r = w % per /\ w = per * q + r
  BY Dividing
<1> DEFINE rest == BIT2WORD * r + bit
<1>4. b = BIT2BLK * q + rest
  <2>1. BIT2WORD * (per * q + r) = (BIT2WORD * per) * q + BIT2WORD * r
    BY Sizes
  <2>2. BIT2WORD * w \in Nat /\ BIT2WORD * r \in Nat /\ BIT2BLK * q \in Nat
    BY Sizes
  <2>3. BIT2WORD * w = BIT2BLK * q + BIT2WORD * r
    BY <1>1, <1>3, <2>1
  <2> QED BY <1>2, <2>2, <2>3
<1>5. rest \in 0..(BIT2BLK - 1)
  <2>1. BIT2WORD * (per - 1 - r) \in Nat /\ BIT2WORD * (per - 1 - r) = BIT2WORD * per - BIT2WORD - BIT2WORD * r
    BY Sizes
  <2>2. BIT2WORD * r \in Nat /\ BIT2WORD * per \in Nat
    BY Sizes
  <2> QED BY <1>1, <2>1, <2>2, Sizes
<1> HIDE DEF rest
<1>6. q = b \div BIT2BLK /\ rest = b % BIT2BLK
  BY <1>4, <1>5, Sizes, Divided
<1>7. r = rest \div BIT2WORD
  <2>1. rest = BIT2WORD * r + bit /\ rest \in Nat
    BY <1>5 DEF rest
  <2> QED BY <2>1, Sizes, Divided
<1> QED BY <1>1, <1>2, <1>3, <1>6, <1>7 DEF bit_block, bit_word, Word, Bit

LEMMA InWords ==
  ASSUME NEW b \in Nat
  PROVE  \E w \in Nat, y \in 0..(BIT2WORD - 1) :
           w = b \div BIT2WORD /\ y = b % BIT2WORD /\ b = BIT2WORD * w + y
BY Sizes, Dividing

\* No two blocks share a bit.
LEMMA BitOwn ==
  ASSUME NEW a \in Nat, NEW b \in Nat,
         bit_block(a) = bit_block(b), bit_word(a) = bit_word(b), a % BIT2WORD = b % BIT2WORD
  PROVE  a = b
<1>1. PICK per \in Nat \ {0} : per = BIT2BLK \div BIT2WORD
  BY WordsOfBlock
<1>2. PICK v \in Nat, x \in 0..(BIT2WORD - 1) :
        v = a \div BIT2WORD /\ x = a % BIT2WORD /\ a = BIT2WORD * v + x
  BY InWords, Zenon
<1>3. PICK w \in Nat, y \in 0..(BIT2WORD - 1) :
        w = b \div BIT2WORD /\ y = b % BIT2WORD /\ b = BIT2WORD * w + y
  BY InWords, Zenon
<1>4. PICK q \in Nat, r \in 0..(per - 1) : q = v \div per /\ r = v % per /\ v = per * q + r
  BY Dividing
<1>5. PICK p \in Nat, s \in 0..(per - 1) : p = w \div per /\ s = w % per /\ w = per * p + s
  BY Dividing
<1>6. q = p /\ r = s
  <2>1. 2 + q = 2 + p /\ r = s
    BY <1>1, <1>2, <1>3, <1>4, <1>5 DEF bit_block, bit_word
  <2> QED BY <2>1
<1> QED BY <1>2, <1>3, <1>4, <1>5, <1>6, Zenon

\* The bitmap is behind the super block; it covers the disk and fits on it.
LEMMA Bitmap ==
  /\ nbitblock \in Nat /\ nbitblock >= 1 /\ 1 + nbitblock < NBLOCK
  /\ \A b \in Block : bit_block(b) \in 2..(1 + nbitblock) /\ bit_block(b) \in Block
<1>1. PICK q \in Nat, r \in 0..(BIT2BLK - 1) :
        /\ q = NBLOCK \div BIT2BLK /\ r = NBLOCK % BIT2BLK /\ NBLOCK = BIT2BLK * q + r
        /\ BIT2BLK * q \in Nat
  BY Sizes, Dividing
<1>2. nbitblock = q + (IF r # 0 THEN 1 ELSE 0)
  BY <1>1 DEF nbitblock
<1>3. CeilDiv(NBLOCK, BIT2BLK) = nbitblock
  <2>1. CASE r = 0
    <3>1. NBLOCK + BIT2BLK - 1 = BIT2BLK * q + (BIT2BLK - 1) /\ NBLOCK + BIT2BLK - 1 \in Nat
          /\ BIT2BLK - 1 \in 0..(BIT2BLK - 1)
      BY <1>1, <2>1, Sizes
    <3>2. q = (NBLOCK + BIT2BLK - 1) \div BIT2BLK
      BY <3>1, Sizes, Divided
    <3> QED BY <1>2, <2>1, <3>2 DEF CeilDiv
  <2>2. CASE r # 0
    <3>1. BIT2BLK * (q + 1) = BIT2BLK * q + BIT2BLK
      BY Sizes
    <3>2. NBLOCK + BIT2BLK - 1 = BIT2BLK * (q + 1) + (r - 1) /\ NBLOCK + BIT2BLK - 1 \in Nat
          /\ r - 1 \in 0..(BIT2BLK - 1) /\ q + 1 \in Nat
      BY <1>1, <2>2, <3>1, Sizes
    <3>3. q + 1 = (NBLOCK + BIT2BLK - 1) \div BIT2BLK
      BY <3>2, Sizes, Divided
    <3> QED BY <1>2, <2>2, <3>3 DEF CeilDiv
  <2> QED BY <2>1, <2>2
<1>4. q >= 1 \/ r # 0
  BY <1>1, Sizes
<1>5. 2 + nbitblock <= NBLOCK
  BY <1>3, ImageAssumption
<1>6. ASSUME NEW b \in Block
      PROVE  bit_block(b) \in 2..(1 + nbitblock)
  <2>1. b \in Nat /\ b < NBLOCK
    BY Sizes DEF Block
  <2>2. PICK p \in Nat, s \in 0..(BIT2BLK - 1) :
          p = b \div BIT2BLK /\ b = BIT2BLK * p + s /\ BIT2BLK * p \in Nat
    BY <2>1, Sizes, Dividing
  <2>3. bit_block(b) = 2 + p
    BY <2>1, <2>2, BitPlace
  <2>4. BIT2BLK * p < BIT2BLK * (q + 1)
    <3>1. BIT2BLK * (q + 1) = BIT2BLK * q + BIT2BLK
      BY Sizes
    <3> QED BY <1>1, <2>1, <2>2, <3>1, Sizes
  <2>5. p <= q
    <3>1. SUFFICES ASSUME p >= q + 1 PROVE FALSE
      OBVIOUS
    <3>2. BIT2BLK * (p - (q + 1)) \in Nat /\ BIT2BLK * (p - (q + 1)) = BIT2BLK * p - BIT2BLK * (q + 1)
          /\ BIT2BLK * (q + 1) \in Nat
      BY <3>1, Sizes
    <3> QED BY <2>2, <2>4, <3>2
  <2>6. r = 0 => p < q
    <3>1. SUFFICES ASSUME r = 0, p = q PROVE FALSE
      BY <2>5
    <3> QED BY <1>1, <2>1, <2>2, <3>1
  <2> QED BY <1>2, <2>3, <2>5, <2>6
<1> QED BY <1>2, <1>4, <1>5, <1>6, Sizes DEF Block

-----------------------------------------------------------------------------
(* The image *)

Names == {"", "/"} \union {f.name : f \in HostFile}

FileRec == [f_name : Names, f_size : Nat, f_type : {"FTYPE_REG", "FTYPE_DIR"},
            f_direct : [0..(NDIRECT - 1) -> Nat], f_indirect : Nat]
BlockRec == [type : {"BLOCK_FREE", "BLOCK_BOOT", "BLOCK_SUPER", "BLOCK_BMAP", "BLOCK_INDEX",
                     "BLOCK_FILE", "BLOCK_DATA"},
             files : [Slots -> FileRec], index : [0..(NINDIRECT - 1) -> Nat],
             bits : SUBSET (Word \X Bit), data : Seq(Names) \X Nat]
Image == [blk : [Block -> BlockRec], nextbno : Nat, assert : BOOLEAN]

Place == Block \X Slots

\* The blocks differ in the files at most.
SameElse(d, e) ==
  /\ e.nextbno = d.nextbno /\ e.assert = d.assert
  /\ \A b \in Block : e.blk[b].index = d.blk[b].index /\ e.blk[b].bits = d.blk[b].bits

LEMMA SetFileSpec ==
  ASSUME NEW d \in Image, NEW f, NEW rec, f[1] \in Block /\ f[2] \in Slots => rec \in FileRec
  PROVE  /\ SetFile(d, f, rec) \in Image /\ SameElse(d, SetFile(d, f, rec))
         /\ \A b \in Block : \A k \in Slots :
              SetFile(d, f, rec).blk[b].files[k] =
                IF b = f[1] /\ k = f[2] THEN rec ELSE d.blk[b].files[k]
<1> DEFINE new == [b \in Block |-> IF b = f[1] THEN [d.blk[b] EXCEPT !.files[f[2]] = rec] ELSE d.blk[b]]
<1>1. SetFile(d, f, rec) = [d EXCEPT !.blk = new]
  BY DEF SetFile, Image
<1>2. ASSUME NEW b \in Block
      PROVE  /\ new[b] \in BlockRec /\ new[b].index = d.blk[b].index /\ new[b].bits = d.blk[b].bits
             /\ \A k \in Slots : new[b].files[k] = IF b = f[1] /\ k = f[2] THEN rec ELSE d.blk[b].files[k]
  <2>1. d.blk[b] \in BlockRec
    BY DEF Image
  <2>2. CASE b = f[1]
    <3> DEFINE row == [d.blk[b].files EXCEPT ![f[2]] = rec]
    <3>1. new[b] = [d.blk[b] EXCEPT !.files = row]
      BY <2>2
    <3>2. row \in [Slots -> FileRec]
      BY <2>1, <2>2 DEF BlockRec
    <3>3. \A k \in Slots : row[k] = IF k = f[2] THEN rec ELSE d.blk[b].files[k]
      BY <2>1 DEF BlockRec
    <3> HIDE DEF new, row
    <3>4. new[b] \in BlockRec /\ new[b].files = row
          /\ new[b].index = d.blk[b].index /\ new[b].bits = d.blk[b].bits
      BY <2>1, <3>1, <3>2 DEF BlockRec
    <3> QED BY <2>2, <3>3, <3>4
  <2>3. CASE b # f[1]
    BY <2>1, <2>3
  <2> QED BY <2>2, <2>3
<1>3. new \in [Block -> BlockRec]
  BY <1>2
<1> HIDE DEF new
<1>4. /\ SetFile(d, f, rec) \in Image /\ SetFile(d, f, rec).blk = new
      /\ SetFile(d, f, rec).nextbno = d.nextbno /\ SetFile(d, f, rec).assert = d.assert
  BY <1>1, <1>3 DEF Image
<1> QED BY <1>2, <1>4 DEF SameElse

\* A pointer of an indirect block.
SetIndex(d, x, i, v) == [d EXCEPT !.blk[x].index[i] = v]

LEMMA SetIndexSpec ==
  ASSUME NEW d \in Image, NEW x, NEW i, NEW v \in Nat
  PROVE  LET e == SetIndex(d, x, i, v)
         IN  /\ e \in Image /\ e.nextbno = d.nextbno /\ e.assert = d.assert
             /\ \A b \in Block :
                  /\ e.blk[b].files = d.blk[b].files /\ e.blk[b].bits = d.blk[b].bits
                  /\ \A n \in 0..(NINDIRECT - 1) :
                       e.blk[b].index[n] = IF b = x /\ n = i THEN v ELSE d.blk[b].index[n]
<1> DEFINE e == SetIndex(d, x, i, v)
           new == [b \in Block |-> IF b = x THEN [d.blk[b] EXCEPT !.index[i] = v] ELSE d.blk[b]]
<1>1. e = [d EXCEPT !.blk = new]
  BY DEF Image, SetIndex
<1>2. ASSUME NEW b \in Block
      PROVE  /\ new[b] \in BlockRec /\ new[b].files = d.blk[b].files /\ new[b].bits = d.blk[b].bits
             /\ \A n \in 0..(NINDIRECT - 1) :
                  new[b].index[n] = IF b = x /\ n = i THEN v ELSE d.blk[b].index[n]
  <2>1. d.blk[b] \in BlockRec
    BY DEF Image
  <2>2. CASE b = x
    <3> DEFINE row == [d.blk[b].index EXCEPT ![i] = v]
    <3>1. new[b] = [d.blk[b] EXCEPT !.index = row]
      BY <2>2
    <3>2. row \in [0..(NINDIRECT - 1) -> Nat]
      BY <2>1, <2>2 DEF BlockRec
    <3>3. \A n \in 0..(NINDIRECT - 1) : row[n] = IF n = i THEN v ELSE d.blk[b].index[n]
      BY <2>1 DEF BlockRec
    <3> HIDE DEF new, row
    <3>4. new[b] \in BlockRec /\ new[b].index = row
          /\ new[b].files = d.blk[b].files /\ new[b].bits = d.blk[b].bits
      BY <2>1, <3>1, <3>2 DEF BlockRec
    <3> QED BY <2>2, <3>3, <3>4
  <2>3. CASE b # x
    BY <2>1, <2>3
  <2> QED BY <2>2, <2>3
<1>3. new \in [Block -> BlockRec]
  BY <1>2
<1> HIDE DEF new, e
<1>4. e \in Image /\ e.blk = new /\ e.nextbno = d.nextbno /\ e.assert = d.assert
  BY <1>1, <1>3 DEF Image
<1>5. QED BY <1>2, <1>4 DEF e

\* Blocks that differ in type, data or bits only.
SameFiles(d, e) ==
  \A b \in Block : e.blk[b].files = d.blk[b].files /\ e.blk[b].index = d.blk[b].index

LEMMA NextBlockSpec ==
  ASSUME NEW d \in Image, NEW type \in {"BLOCK_INDEX", "BLOCK_FILE", "BLOCK_DATA"}
  PROVE  LET e == next_block(d, type)
         IN  /\ e \in Image /\ e.nextbno = d.nextbno + 1 /\ e.assert = d.assert /\ SameFiles(d, e)
             /\ \A b \in Block : e.blk[b].bits = d.blk[b].bits
<1> DEFINE e == next_block(d, type)
           new == [b \in Block |-> IF b = d.nextbno THEN [d.blk[b] EXCEPT !.type = type] ELSE d.blk[b]]
<1>1. e = [[d EXCEPT !.blk = new] EXCEPT !.nextbno = @ + 1]
  <2>1. [d EXCEPT !.blk[d.nextbno].type = type] = [d EXCEPT !.blk = new]
    BY DEF Image
  <2> QED BY <2>1, Zenon DEF next_block
<1>2. ASSUME NEW b \in Block
      PROVE  /\ new[b] \in BlockRec /\ new[b].files = d.blk[b].files
             /\ new[b].index = d.blk[b].index /\ new[b].bits = d.blk[b].bits
  <2>1. d.blk[b] \in BlockRec
    BY DEF Image
  <2> QED BY <2>1 DEF BlockRec
<1>3. new \in [Block -> BlockRec]
  BY <1>2
<1> HIDE DEF new, e
<1> DEFINE g == [d EXCEPT !.blk = new]
<1>g. g \in Image /\ g.blk = new /\ g.nextbno = d.nextbno /\ g.assert = d.assert
  BY <1>3 DEF Image
<1>h. e = [g EXCEPT !.nextbno = @ + 1]
  BY <1>1, Zenon
<1> HIDE DEF g
<1>4. e \in Image /\ e.blk = new /\ e.nextbno = d.nextbno + 1 /\ e.assert = d.assert
  BY <1>g, <1>h DEF Image
<1>5. QED BY <1>2, <1>4 DEF e, SameFiles

SetData(d, x, data) == [d EXCEPT !.blk[x].data = data]

LEMMA SetDataSpec ==
  ASSUME NEW d \in Image, NEW x, NEW data \in Seq(Names) \X Nat
  PROVE  LET e == SetData(d, x, data)
         IN  /\ e \in Image /\ e.nextbno = d.nextbno /\ e.assert = d.assert /\ SameFiles(d, e)
             /\ \A b \in Block : e.blk[b].bits = d.blk[b].bits
<1> DEFINE e == SetData(d, x, data)
           new == [b \in Block |-> IF b = x THEN [d.blk[b] EXCEPT !.data = data] ELSE d.blk[b]]
<1>1. e = [d EXCEPT !.blk = new]
  BY DEF Image, SetData
<1>2. ASSUME NEW b \in Block
      PROVE  /\ new[b] \in BlockRec /\ new[b].files = d.blk[b].files
             /\ new[b].index = d.blk[b].index /\ new[b].bits = d.blk[b].bits
  <2>1. d.blk[b] \in BlockRec
    BY DEF Image
  <2> QED BY <2>1 DEF BlockRec
<1>3. new \in [Block -> BlockRec]
  BY <1>2
<1> HIDE DEF new, e
<1>4. e \in Image /\ e.blk = new /\ e.nextbno = d.nextbno /\ e.assert = d.assert
  BY <1>1, <1>3 DEF Image
<1>5. QED BY <1>2, <1>4 DEF e, SameFiles

-----------------------------------------------------------------------------
(* What fsformat writes is an image, wherever it writes; it grows. *)

Grown(d, e) ==
  /\ e \in Image /\ e.nextbno >= d.nextbno /\ (e.assert => d.assert)
  /\ \A b \in Block : e.blk[b].bits = d.blk[b].bits

LEMMA GrownTwice ==
  ASSUME NEW d \in Image, NEW e, NEW g, Grown(d, e), Grown(e, g)
  PROVE  Grown(d, g)
BY DEF Grown, Image

LEMMA FileType ==
  ASSUME NEW d \in Image, NEW f, f[1] \in Block, f[2] \in Slots
  PROVE  File(d, f) \in FileRec
<1>1. d.blk[f[1]] \in BlockRec
  BY DEF Image
<1> QED BY <1>1 DEF BlockRec, File

LEMMA DirectType ==
  ASSUME NEW r \in FileRec, NEW i, NEW v \in Nat
  PROVE  LET s == [r EXCEPT !.f_direct[i] = v]
         IN  /\ s \in FileRec /\ s.f_indirect = r.f_indirect /\ s.f_name = r.f_name
             /\ s.f_size = r.f_size /\ s.f_type = r.f_type
             /\ \A n \in 0..(NDIRECT - 1) : s.f_direct[n] = IF n = i THEN v ELSE r.f_direct[n]
<1> DEFINE row == [r.f_direct EXCEPT ![i] = v]
           s == [r EXCEPT !.f_direct[i] = v]
<1>1. s = [r EXCEPT !.f_direct = row]
  BY DEF FileRec
<1>2. /\ row \in [0..(NDIRECT - 1) -> Nat]
      /\ \A n \in 0..(NDIRECT - 1) : row[n] = IF n = i THEN v ELSE r.f_direct[n]
  BY DEF FileRec
<1> HIDE DEF row, s
<1>3. /\ s \in FileRec /\ s.f_indirect = r.f_indirect /\ s.f_name = r.f_name
      /\ s.f_size = r.f_size /\ s.f_type = r.f_type /\ s.f_direct = row
  BY <1>1, <1>2 DEF FileRec
<1> QED BY <1>2, <1>3 DEF s

\* The indirect block of a file, taken when it has none.
with_indirect(d, f) ==
  IF File(d, f).f_indirect # 0 THEN d
  ELSE SetFile(next_block(d, "BLOCK_INDEX"), f, [File(d, f) EXCEPT !.f_indirect = d.nextbno])

LEMMA IndirectGrown ==
  ASSUME NEW d \in Image, NEW f
  PROVE  Grown(d, with_indirect(d, f))
<1> DEFINE n == next_block(d, "BLOCK_INDEX")
           rec == [File(d, f) EXCEPT !.f_indirect = d.nextbno]
<1>1. n \in Image /\ n.nextbno = d.nextbno + 1 /\ n.assert = d.assert
      /\ \A b \in Block : n.blk[b].bits = d.blk[b].bits
  BY NextBlockSpec
<1>2. d.nextbno \in Nat
  BY DEF Image
<1>3. f[1] \in Block /\ f[2] \in Slots => rec \in FileRec
  BY FileType, <1>2 DEF FileRec
<1> HIDE DEF n, rec
<1>4. SetFile(n, f, rec) \in Image /\ SameElse(n, SetFile(n, f, rec))
  BY <1>1, <1>3, SetFileSpec
<1>5. Grown(d, SetFile(n, f, rec))
  BY <1>1, <1>2, <1>4 DEF SameElse, Grown
<1>6. Grown(d, d)
  BY <1>2 DEF Grown
<1> QED BY <1>5, <1>6 DEF with_indirect, n, rec

LEMMA LinkGrown ==
  ASSUME NEW d \in Image, NEW f, NEW nblk, NEW bno \in Nat
  PROVE  Grown(d, save_block_link(d, f, nblk, bno))
<1> DEFINE e == with_indirect(d, f)
           failed == [d EXCEPT !.assert = FALSE]
           rec == [File(d, f) EXCEPT !.f_direct[nblk] = bno]
           direct == SetFile(d, f, rec)
           indirect == [e EXCEPT !.blk[File(e, f).f_indirect].index[nblk] = bno]
<1>1. save_block_link(d, f, nblk, bno) \in {failed, direct, indirect}
  BY DEF save_block_link, with_indirect
<1>2. Grown(d, failed)
  <2>1. failed \in Image /\ failed.blk = d.blk /\ failed.nextbno = d.nextbno /\ ~failed.assert
    BY DEF Image
  <2> HIDE DEF failed
  <2> QED BY <2>1 DEF Grown, Image
<1>3. Grown(d, direct)
  <2>1. f[1] \in Block /\ f[2] \in Slots => rec \in FileRec
    BY FileType, DirectType
  <2> HIDE DEF rec
  <2>2. direct \in Image /\ SameElse(d, direct)
    BY <2>1, SetFileSpec
  <2> HIDE DEF direct
  <2> QED BY <2>2 DEF SameElse, Grown, Image
<1>4. Grown(d, indirect)
  <2>1. Grown(d, e) /\ e \in Image
    BY IndirectGrown DEF Grown
  <2> HIDE DEF e
  <2>2. Grown(e, indirect)
    <3> DEFINE x == File(e, f).f_indirect
               g == SetIndex(e, x, nblk, bno)
    <3>1. /\ g \in Image /\ g.nextbno = e.nextbno /\ g.assert = e.assert
          /\ \A b \in Block : g.blk[b].bits = e.blk[b].bits
      BY <2>1, SetIndexSpec
    <3>2. indirect = g
      BY DEF SetIndex
    <3> HIDE DEF indirect, g
    <3> QED BY <2>1, <3>1, <3>2 DEF Grown, Image
  <2> HIDE DEF indirect
  <2> QED BY <2>1, <2>2, GrownTwice
<1> HIDE DEF failed, direct, indirect
<1> QED BY <1>1, <1>2, <1>3, <1>4

LEMMA CopyGrown ==
  ASSUME NEW d \in Image, NEW f, NEW path \in Seq(Names), NEW i \in Nat
  PROVE  Grown(d, copy_block(d, f, path, i))
<1> DEFINE read == [d EXCEPT !.blk[d.nextbno].data = <<path, i>>]
           taken == next_block(read, "BLOCK_DATA")
<1>1. read \in Image /\ read.nextbno = d.nextbno /\ read.assert = d.assert
      /\ \A b \in Block : read.blk[b].bits = d.blk[b].bits
  <2>1. <<path, i>> \in Seq(Names) \X Nat
    OBVIOUS
  <2>2. read = SetData(d, d.nextbno, <<path, i>>)
    BY DEF SetData
  <2> HIDE DEF read
  <2> QED BY <2>1, <2>2, SetDataSpec
<1> HIDE DEF read
<1>2. taken \in Image /\ taken.nextbno = d.nextbno + 1 /\ taken.assert = d.assert
      /\ \A b \in Block : taken.blk[b].bits = d.blk[b].bits
  BY <1>1, NextBlockSpec
<1> HIDE DEF taken
<1>3. Grown(d, taken) /\ Grown(d, d) /\ d.nextbno \in Nat
  BY <1>2 DEF Grown, Image
<1>4. Grown(taken, save_block_link(taken, f, i, d.nextbno))
  BY <1>2, <1>3, LinkGrown
<1>5. Grown(d, save_block_link(taken, f, i, d.nextbno))
  BY <1>3, <1>4, GrownTwice
<1> QED BY <1>3, <1>5 DEF copy_block, taken, read

LEMMA LinkBlockGrown ==
  ASSUME NEW d \in Image, NEW dirf, NEW nblk
  PROVE  Grown(d, make_link_block(d, dirf, nblk))
<1> DEFINE n == next_block(d, "BLOCK_FILE")
           e == save_block_link(n, dirf, nblk, d.nextbno)
           rec == [File(e, dirf) EXCEPT !.f_size = @ + BY2BLK]
<1>1. n \in Image /\ n.nextbno = d.nextbno + 1 /\ n.assert = d.assert
      /\ (\A b \in Block : n.blk[b].bits = d.blk[b].bits) /\ d.nextbno \in Nat
  BY NextBlockSpec DEF Image
<1> HIDE DEF n
<1>2. Grown(n, e) /\ Grown(d, n)
  <2>1. Grown(d, n)
    BY <1>1 DEF Grown
  <2> QED BY <1>1, <2>1, LinkGrown
<1> HIDE DEF e
<1>3. e \in Image
  BY <1>2 DEF Grown
<1>4. ASSUME dirf[1] \in Block, dirf[2] \in Slots
      PROVE  rec \in FileRec
  <2> DEFINE file == File(e, dirf)
  <2>1. file \in FileRec
    BY <1>3, <1>4, FileType
  <2> HIDE DEF file
  <2>2. file.f_size + BY2BLK \in Nat
    BY <2>1, Sizes DEF FileRec
  <2>3. \A size \in Nat : [file EXCEPT !.f_size = size] \in FileRec
    BY <2>1 DEF FileRec
  <2> QED BY <2>2, <2>3 DEF file
<1> HIDE DEF rec
<1>5. Grown(e, SetFile(e, dirf, rec))
  BY <1>3, <1>4, SetFileSpec DEF SameElse, Grown, Image
<1>6. Grown(d, SetFile(e, dirf, rec))
  BY <1>2, <1>3, <1>5, <1>1, GrownTwice
<1> QED BY <1>6 DEF make_link_block, rec, e, n

LEMMA CreateGrown ==
  ASSUME NEW d \in Image, NEW dirf
  PROVE  Grown(d, create_file(d, dirf).d)
<1> DEFINE made == make_link_block(d, dirf, File(d, dirf).f_size \div BY2BLK)
<1>1. create_file(d, dirf).d \in {d, made}
  BY DEF create_file
<1>2. Grown(d, made)
  BY LinkBlockGrown
<1>3. Grown(d, d)
  BY DEF Grown, Image
<1> HIDE DEF made
<1> QED BY <1>1, <1>2, <1>3

\* The name, size and type a file is given.
LEMMA NamedType ==
  ASSUME NEW r \in FileRec, NEW name \in Names, NEW size \in Nat
  PROVE  LET s == [r EXCEPT !.f_name = name, !.f_size = size, !.f_type = "FTYPE_REG"]
         IN  /\ s \in FileRec /\ s.f_indirect = r.f_indirect /\ s.f_name = name
             /\ s.f_size = size /\ s.f_type = "FTYPE_REG" /\ s.f_direct = r.f_direct
BY DEF FileRec

LEMMA NamedDirType ==
  ASSUME NEW r \in FileRec, NEW name \in Names
  PROVE  LET s == [r EXCEPT !.f_name = name, !.f_type = "FTYPE_DIR"]
         IN  /\ s \in FileRec /\ s.f_indirect = r.f_indirect /\ s.f_name = name
             /\ s.f_size = r.f_size /\ s.f_type = "FTYPE_DIR" /\ s.f_direct = r.f_direct
BY DEF FileRec

LEMMA LastName ==
  ASSUME NEW path \in Seq(Names), path # <<>>
  PROVE  Last(path) \in Names
BY DEF Last

named_file(d, f, path, size) ==
  SetFile(d, f, [File(d, f) EXCEPT !.f_name = Last(path), !.f_size = size, !.f_type = "FTYPE_REG"])

LEMMA NamedGrown ==
  ASSUME NEW d \in Image, NEW f, NEW path \in Seq(Names), path # <<>>, NEW size \in Nat
  PROVE  Grown(d, named_file(d, f, path, size))
<1> DEFINE rec == [File(d, f) EXCEPT !.f_name = Last(path), !.f_size = size, !.f_type = "FTYPE_REG"]
<1>1. f[1] \in Block /\ f[2] \in Slots => rec \in FileRec
  BY FileType, NamedType, LastName
<1> HIDE DEF rec
<1>2. SetFile(d, f, rec) \in Image /\ SameElse(d, SetFile(d, f, rec))
  BY <1>1, SetFileSpec
<1>3. Grown(d, SetFile(d, f, rec))
  BY <1>2 DEF SameElse, Grown, Image
<1> QED BY <1>3 DEF named_file, rec

LEMMA DirectoryGrown ==
  ASSUME NEW d \in Image, NEW dirf, NEW path \in Seq(Names), path # <<>>
  PROVE  Grown(d, write_directory(d, dirf, path))
<1> DEFINE e == create_file(d, dirf).d
           f == create_file(d, dirf).f
           rec == [File(e, f) EXCEPT !.f_name = Last(path), !.f_type = "FTYPE_DIR"]
<1>1. Grown(d, e)
  BY CreateGrown
<1>2. write_directory(d, dirf, path) = SetFile(e, f, rec)
  BY DEF write_directory
<1> HIDE DEF e, f
<1>3. e \in Image
  BY <1>1 DEF Grown
<1>4. f[1] \in Block /\ f[2] \in Slots => rec \in FileRec
  BY <1>3, FileType, NamedDirType, LastName
<1> HIDE DEF rec
<1>5. SetFile(e, f, rec) \in Image /\ SameElse(e, SetFile(e, f, rec))
  BY <1>3, <1>4, SetFileSpec
<1>6. Grown(e, SetFile(e, f, rec))
  BY <1>3, <1>5 DEF SameElse, Grown, Image
<1> QED BY <1>1, <1>2, <1>3, <1>6, GrownTwice

\* The states of write_file's loop.
Copies(c, s, f, path, n) ==
  c = [i \in 0..n |-> IF i = 0 THEN s ELSE copy_block(c[i - 1], f, path, i - 1)]

LEMMA CopiesExist ==
  ASSUME NEW s \in Image, NEW f, NEW path \in Seq(Names), NEW n \in Nat
  PROVE  \E c : Copies(c, s, f, path, n)
<1> DEFINE turn == [i \in 1..n |-> [d \in Image |-> copy_block(d, f, path, i - 1)]]
<1>1. \A i \in 1..n : \A d \in Image : turn[i][d] = copy_block(d, f, path, i - 1)
  OBVIOUS
<1> HIDE DEF turn
<1>2. \A i \in 1..n : \A d \in Image : turn[i][d] \in Image
  <2> TAKE i \in 1..n
  <2> TAKE d \in Image
  <2>1. i - 1 \in Nat
    OBVIOUS
  <2>2. Grown(d, copy_block(d, f, path, i - 1))
    BY <2>1, CopyGrown
  <2> QED BY <1>1, <2>2 DEF Grown
<1>p. PICK c : Turns(c, n, Image, s, turn)
  BY <1>2, LoopExists
<1>3. /\ c = [i \in 0..n |-> IF i = 0 THEN s ELSE turn[i][c[i - 1]]]
      /\ \A i \in 0..n : c[i] \in Image
  BY <1>p, Zenon DEF Turns
<1>4. \A i \in 0..n : (IF i = 0 THEN s ELSE turn[i][c[i - 1]])
                     = IF i = 0 THEN s ELSE copy_block(c[i - 1], f, path, i - 1)
  <2> TAKE i \in 0..n
  <2>1. i = 0 \/ (i \in 1..n /\ i - 1 \in 0..n)
    OBVIOUS
  <2> QED BY <1>1, <1>3, <2>1, Zenon
<1>5. [i \in 0..n |-> IF i = 0 THEN s ELSE turn[i][c[i - 1]]]
      = [i \in 0..n |-> IF i = 0 THEN s ELSE copy_block(c[i - 1], f, path, i - 1)]
  BY <1>4, Zenon
<1>6. Copies(c, s, f, path, n)
  BY <1>3, <1>5, Zenon DEF Copies
<1> QED BY <1>6

LEMMA CopiesSteps ==
  ASSUME NEW c, NEW s, NEW f, NEW path, NEW n \in Nat, Copies(c, s, f, path, n)
  PROVE  c[0] = s /\ \A i \in 0..(n - 1) : c[i + 1] = copy_block(c[i], f, path, i)
<1>1. \A i \in 0..n : c[i] = IF i = 0 THEN s ELSE copy_block(c[i - 1], f, path, i - 1)
  BY Zenon DEF Copies
<1>2. ASSUME NEW i \in 0..(n - 1)
      PROVE  c[i + 1] = copy_block(c[i], f, path, i)
  <2>1. i + 1 \in 0..n /\ i + 1 # 0 /\ (i + 1) - 1 = i
    OBVIOUS
  <2> QED BY <1>1, <2>1
<1>3. 0 \in 0..n
  OBVIOUS
<1> QED BY <1>1, <1>2, <1>3, Zenon

LEMMA Blocks ==
  ASSUME NEW size \in Nat
  PROVE  /\ CeilDiv(size, BY2BLK) \in Nat /\ BY2BLK * CeilDiv(size, BY2BLK) >= size
         /\ size \div BY2BLK \in Nat /\ size \div BY2BLK <= CeilDiv(size, BY2BLK)
         /\ CeilDiv(size, BY2BLK) <= size \div BY2BLK + 1
         /\ size % BY2BLK = 0 => CeilDiv(size, BY2BLK) = size \div BY2BLK
         /\ BY2BLK * CeilDiv(size, BY2BLK) \in Nat
<1>1. PICK q \in Nat, r \in 0..(BY2BLK - 1) :
        q = size \div BY2BLK /\ r = size % BY2BLK /\ size = BY2BLK * q + r /\ BY2BLK * q \in Nat
  BY Sizes, Dividing
<1>2. BY2BLK * (q + 1) = BY2BLK * q + BY2BLK
  BY Sizes
<1>3. CASE r = 0
  <2>1. size + BY2BLK - 1 = BY2BLK * q + (BY2BLK - 1) /\ size + BY2BLK - 1 \in Nat
        /\ BY2BLK - 1 \in 0..(BY2BLK - 1)
    BY <1>1, <1>3, Sizes
  <2>2. q = (size + BY2BLK - 1) \div BY2BLK
    BY <2>1, Sizes, Divided
  <2>3. CeilDiv(size, BY2BLK) = q
    BY <2>2 DEF CeilDiv
  <2> QED BY <1>1, <1>3, <2>3
<1>4. CASE r # 0
  <2>1. size + BY2BLK - 1 = BY2BLK * (q + 1) + (r - 1) /\ size + BY2BLK - 1 \in Nat
        /\ r - 1 \in 0..(BY2BLK - 1) /\ q + 1 \in Nat
    BY <1>1, <1>2, <1>4, Sizes
  <2>2. q + 1 = (size + BY2BLK - 1) \div BY2BLK
    BY <2>1, Sizes, Divided
  <2>3. CeilDiv(size, BY2BLK) = q + 1
    BY <2>2 DEF CeilDiv
  <2> QED BY <1>1, <1>2, <1>4, <2>3, Sizes
<1> QED BY <1>3, <1>4

\* write_file names its File and copies the blocks.
Writing(c, d, dirf, path, size) ==
  LET w == create_file(d, dirf)
      n == CeilDiv(size, BY2BLK)
  IN  /\ write_file(d, dirf, path, size) = c[n]
      /\ c[0] = named_file(w.d, w.f, path, size)
      /\ \A i \in 0..(n - 1) : c[i + 1] = copy_block(c[i], w.f, path, i)

LEMMA WriteLoop ==
  ASSUME NEW d \in Image, NEW dirf, NEW path \in Seq(Names), path # <<>>, NEW size \in Nat
  PROVE  \E c : Writing(c, d, dirf, path, size)
<1> DEFINE e == create_file(d, dirf).d
           f == create_file(d, dirf).f
           n == CeilDiv(size, BY2BLK)
           s == named_file(e, f, path, size)
           c == CHOOSE g : Copies(g, s, f, path, n)
<1>1. write_file(d, dirf, path, size) = c[n]
  BY DEF write_file, Copies, named_file
<1>2. n \in Nat
  BY Blocks
<1>3. s \in Image
  <2>1. e \in Image
    BY CreateGrown DEF Grown
  <2> HIDE DEF e, f
  <2> QED BY <2>1, NamedGrown DEF Grown
<1> HIDE DEF e, f, n, s
<1>4. Copies(c, s, f, path, n)
  BY <1>2, <1>3, CopiesExist
<1> HIDE DEF c
<1>5. c[0] = s /\ \A i \in 0..(n - 1) : c[i + 1] = copy_block(c[i], f, path, i)
  BY <1>2, <1>4, CopiesSteps
<1>6. Writing(c, d, dirf, path, size)
  BY <1>1, <1>5, Zenon DEF Writing, e, f, n, s
<1> QED BY <1>6

LEMMA WriteGrown ==
  ASSUME NEW d \in Image, NEW dirf, NEW path \in Seq(Names), path # <<>>, NEW size \in Nat
  PROVE  Grown(d, write_file(d, dirf, path, size))
<1> DEFINE e == create_file(d, dirf).d
           f == create_file(d, dirf).f
           n == CeilDiv(size, BY2BLK)
<1>1. Grown(d, e) /\ e \in Image
  BY CreateGrown DEF Grown
<1>2. n \in Nat
  BY Blocks
<1>w. PICK c : Writing(c, d, dirf, path, size)
  BY WriteLoop
<1>3. /\ write_file(d, dirf, path, size) = c[n]
      /\ c[0] = named_file(e, f, path, size)
      /\ \A i \in 0..(n - 1) : c[i + 1] = copy_block(c[i], f, path, i)
  BY <1>w, Zenon DEF Writing
<1> HIDE DEF e, f, n
<1> DEFINE S == {i \in 0..n : Grown(d, c[i])}
<1>4. 0 \in S
  <2>1. Grown(e, c[0])
    BY <1>1, <1>3, NamedGrown
  <2> QED BY <1>1, <1>2, <2>1, GrownTwice
<1>5. ASSUME NEW k \in 0..(n - 1), k \in S
      PROVE  k + 1 \in S
  <2>1. Grown(d, c[k]) /\ c[k] \in Image
    BY <1>5 DEF Grown
  <2>2. Grown(c[k], c[k + 1])
    <3>1. k \in Nat
      BY <1>2
    <3> QED BY <1>3, <2>1, <3>1, CopyGrown
  <2>3. k + 1 \in 0..n
    BY <1>2
  <2> QED BY <2>1, <2>2, <2>3, GrownTwice
<1> HIDE DEF S
<1>6. \A k \in 0..n : k \in S
  BY <1>2, <1>4, <1>5, Counting
<1>7. n \in S
  BY <1>2, <1>6
<1> QED BY <1>3, <1>7 DEF S

-----------------------------------------------------------------------------
(* The first image and the bitmap *)

RootFile == [NoFile EXCEPT !.f_name = "/", !.f_type = "FTYPE_DIR"]

LEMMA NoFileType ==
  /\ NoFile \in FileRec /\ NoFile.f_indirect = 0 /\ NoFile.f_size = 0 /\ NoFile.f_name = ""
  /\ NoFile.f_type = "FTYPE_REG" /\ NoFile.f_direct = [i \in 0..(NDIRECT - 1) |-> 0]
  /\ RootFile \in FileRec /\ RootFile.f_indirect = 0 /\ RootFile.f_size = 0
  /\ RootFile.f_name = "/" /\ RootFile.f_type = "FTYPE_DIR"
  /\ RootFile.f_direct = [i \in 0..(NDIRECT - 1) |-> 0]
<1>1. /\ NoFile \in FileRec /\ NoFile.f_indirect = 0 /\ NoFile.f_size = 0 /\ NoFile.f_name = ""
      /\ NoFile.f_type = "FTYPE_REG" /\ NoFile.f_direct = [i \in 0..(NDIRECT - 1) |-> 0]
  <2>1. [i \in 0..(NDIRECT - 1) |-> 0] \in [0..(NDIRECT - 1) -> Nat]
    OBVIOUS
  <2> QED BY <2>1 DEF NoFile, FileRec, Names
<1>2. "/" \in Names
  BY DEF Names
<1>3. /\ RootFile \in FileRec /\ RootFile.f_indirect = NoFile.f_indirect
      /\ RootFile.f_size = NoFile.f_size /\ RootFile.f_direct = NoFile.f_direct
      /\ RootFile.f_name = "/" /\ RootFile.f_type = "FTYPE_DIR"
  <2> DEFINE r == NoFile
  <2>1. r \in FileRec /\ RootFile = [r EXCEPT !.f_name = "/", !.f_type = "FTYPE_DIR"]
    BY <1>1 DEF RootFile
  <2> HIDE DEF r
  <2>2. /\ RootFile \in FileRec /\ RootFile.f_indirect = r.f_indirect
        /\ RootFile.f_size = r.f_size /\ RootFile.f_direct = r.f_direct
        /\ RootFile.f_name = "/" /\ RootFile.f_type = "FTYPE_DIR"
    BY <1>2, <2>1 DEF FileRec
  <2> QED BY <2>2 DEF r
<1> QED BY <1>1, <1>3

LEMMA ZeroType ==
  /\ Zero \in BlockRec /\ Zero.files = [k \in Slots |-> NoFile]
  /\ Zero.index = [i \in 0..(NINDIRECT - 1) |-> 0]
<1>1. [k \in Slots |-> NoFile] \in [Slots -> FileRec]
  BY NoFileType
<1>2. <<<<>>, 0>> \in Seq(Names) \X Nat
  <2>1. <<>> \in Seq(Names)
    OBVIOUS
  <2> QED BY <2>1
<1>3. [i \in 0..(NINDIRECT - 1) |-> 0] \in [0..(NINDIRECT - 1) -> Nat]
  OBVIOUS
<1> QED BY <1>1, <1>2, <1>3 DEF Zero, BlockRec

LEMMA InitImage ==
  /\ init_disk \in Image /\ init_disk.nextbno = 2 + nbitblock /\ init_disk.assert
  /\ \A b \in Block :
       /\ \A k \in Slots : init_disk.blk[b].files[k] = IF b = 1 /\ k = 0 THEN RootFile ELSE NoFile
       /\ \A i \in 0..(NINDIRECT - 1) : init_disk.blk[b].index[i] = 0
<1> DEFINE diff == (NBLOCK % BIT2BLK) \div BIT2BYTE
           cut == IF NBLOCK # nbitblock * BIT2BLK THEN diff * BIT2BYTE ELSE BIT2BLK
           ones(i) == {wb \in Word \X Bit : i < nbitblock - 1 \/ wb[1] * BIT2WORD + wb[2] < cut}
           super == [Zero EXCEPT !.type = "BLOCK_SUPER", !.files[0] = RootFile]
           boot0 == [Zero EXCEPT !.type = "BLOCK_BOOT"]
           bmap(b) == [Zero EXCEPT !.type = "BLOCK_BMAP", !.bits = ones(b - 2)]
           blk == [b \in Block |-> CASE b = 0 -> boot0
                                     [] b = 1 -> super
                                     [] b \in 2..(1 + nbitblock) -> bmap(b)
                                     [] OTHER -> Zero]
<1>1. init_disk = [blk |-> blk, nextbno |-> 2 + nbitblock, assert |-> TRUE]
  BY Zenon DEF init_disk, RootFile
<1>2. /\ boot0 \in BlockRec /\ boot0.files = [k \in Slots |-> NoFile]
      /\ boot0.index = [i \in 0..(NINDIRECT - 1) |-> 0]
  BY ZeroType DEF BlockRec
<1>3. ASSUME NEW b
      PROVE  /\ bmap(b) \in BlockRec /\ bmap(b).files = [k \in Slots |-> NoFile]
             /\ bmap(b).index = [i \in 0..(NINDIRECT - 1) |-> 0]
  <2>1. ones(b - 2) \subseteq Word \X Bit
    OBVIOUS
  <2> HIDE DEF ones
  <2> QED BY <2>1, ZeroType DEF BlockRec
<1>4. /\ super \in BlockRec /\ super.index = [i \in 0..(NINDIRECT - 1) |-> 0]
      /\ \A k \in Slots : super.files[k] = IF k = 0 THEN RootFile ELSE NoFile
  <2> DEFINE row == [k \in Slots |-> IF k = 0 THEN RootFile ELSE NoFile]
             typed == [Zero EXCEPT !.type = "BLOCK_SUPER"]
  <2>1. row \in [Slots -> FileRec] /\ row = [Zero.files EXCEPT ![0] = RootFile]
    BY ZeroType, NoFileType
  <2>2. typed \in BlockRec /\ typed.files = Zero.files /\ typed.index = Zero.index
    BY ZeroType DEF BlockRec
  <2>3. super = [typed EXCEPT !.files[0] = RootFile]
    BY Zenon
  <2>4. \A k \in Slots : row[k] = IF k = 0 THEN RootFile ELSE NoFile
    OBVIOUS
  <2> HIDE DEF typed, row, super
  <2>5. super = [typed EXCEPT !.files = row]
    BY <2>1, <2>2, <2>3
  <2>6. super \in BlockRec /\ super.files = row /\ super.index = typed.index
    BY <2>1, <2>2, <2>5 DEF BlockRec
  <2> QED BY <2>2, <2>4, <2>6, ZeroType
<1>z. /\ \A k \in Slots : [i \in Slots |-> NoFile][k] = NoFile
      /\ \A i \in 0..(NINDIRECT - 1) : [n \in 0..(NINDIRECT - 1) |-> 0][i] = 0
  OBVIOUS
<1> HIDE DEF boot0, bmap, super
<1>a. /\ \A k \in Slots : boot0.files[k] = NoFile
      /\ \A i \in 0..(NINDIRECT - 1) : boot0.index[i] = 0
  BY <1>2, <1>z, Zenon
<1>b. ASSUME NEW b
      PROVE  /\ \A k \in Slots : bmap(b).files[k] = NoFile
             /\ \A i \in 0..(NINDIRECT - 1) : bmap(b).index[i] = 0
  BY <1>3, <1>z, Zenon
<1>5. ASSUME NEW b \in Block
      PROVE  /\ blk[b] \in BlockRec
             /\ \A k \in Slots : blk[b].files[k] = IF b = 1 /\ k = 0 THEN RootFile ELSE NoFile
             /\ \A i \in 0..(NINDIRECT - 1) : blk[b].index[i] = 0
  <2>n. b \in Int /\ nbitblock \in Nat
    BY Bitmap DEF Block
  <2> DEFINE at(x) == CASE x = 0 -> boot0
                       [] x = 1 -> super
                       [] x \in 2..(1 + nbitblock) -> bmap(x)
                       [] OTHER -> Zero
  <2>a. blk[b] = at(b)
    BY Zenon
  <2>1. b = 0 => at(b) = boot0
    BY <2>n
  <2>2. b = 1 => at(b) = super
    BY <2>n
  <2>3. b \in 2..(1 + nbitblock) => at(b) = bmap(b)
    BY <2>n
  <2>4. b \notin {0, 1} /\ b \notin 2..(1 + nbitblock) => at(b) = Zero
    BY <2>n
  <2> HIDE DEF at
  <2> HIDE DEF blk
  <2>5. CASE b = 0
    <3>1. /\ boot0 \in BlockRec /\ \A k \in Slots : boot0.files[k] = NoFile
          /\ \A i \in 0..(NINDIRECT - 1) : boot0.index[i] = 0
      BY <1>2, <1>a, Zenon
    <3>2. blk[b] = boot0 /\ \A k : (IF b = 1 /\ k = 0 THEN RootFile ELSE NoFile) = NoFile
      BY <2>a, <2>1, <2>5
    <3>3. \A k \in Slots : blk[b].files[k] = IF b = 1 /\ k = 0 THEN RootFile ELSE NoFile
      BY <3>1, <3>2, Zenon
    <3> QED BY <3>1, <3>2, <3>3, Zenon
  <2>6. CASE b = 1
    <3>1. blk[b] = super /\ \A k : (IF b = 1 /\ k = 0 THEN RootFile ELSE NoFile) = IF k = 0 THEN RootFile ELSE NoFile
      BY <2>a, <2>2, <2>6
    <3>2. super.index = [i \in 0..(NINDIRECT - 1) |-> 0]
      BY <1>4
    <3>3. blk[b] \in BlockRec /\ \A i \in 0..(NINDIRECT - 1) : blk[b].index[i] = 0
      BY <1>4, <1>z, <3>1, <3>2, Zenon
    <3>4. \A k \in Slots : blk[b].files[k] = IF b = 1 /\ k = 0 THEN RootFile ELSE NoFile
      BY <1>4, <3>1, Zenon
    <3> QED BY <3>3, <3>4, Zenon
  <2>7. CASE b \in 2..(1 + nbitblock)
    <3>1. /\ bmap(b) \in BlockRec /\ \A k \in Slots : bmap(b).files[k] = NoFile
          /\ \A i \in 0..(NINDIRECT - 1) : bmap(b).index[i] = 0
      BY <1>3, <1>b, Zenon
    <3>2. b # 1 /\ blk[b] = bmap(b)
      BY <2>a, <2>3, <2>7, <2>n
    <3>3. \A k : (IF b = 1 /\ k = 0 THEN RootFile ELSE NoFile) = NoFile
      BY <3>2
    <3>4. \A k \in Slots : blk[b].files[k] = IF b = 1 /\ k = 0 THEN RootFile ELSE NoFile
      BY <3>1, <3>2, <3>3, Zenon
    <3>5. blk[b] \in BlockRec /\ \A i \in 0..(NINDIRECT - 1) : blk[b].index[i] = 0
      BY <3>1, <3>2, Zenon
    <3> QED BY <3>4, <3>5, Zenon
  <2>8. CASE b \notin {0, 1} /\ b \notin 2..(1 + nbitblock)
    BY ZeroType, <2>a, <2>4, <2>8
  <2> QED BY <2>5, <2>6, <2>7, <2>8
<1>6. blk \in [Block -> BlockRec]
  BY <1>5
<1> HIDE DEF blk
<1>7. init_disk.blk = blk
  BY <1>1
<1> QED BY <1>1, <1>5, <1>6, <1>7, Bitmap DEF Image

\* The bitmap as block_is_free reads it.
LEMMA FreeBit ==
  ASSUME NEW d, NEW b
  PROVE  block_is_free(d, b) <=>
           b < NBLOCK /\ <<bit_word(b), b % BIT2WORD>> \in d.blk[bit_block(b)].bits
BY DEF block_is_free, bit_word, bit_block

\* flush_bitmap clears exactly the bits of the blocks that were taken.
LEMMA FlushSpec ==
  ASSUME NEW d \in Image
  PROVE  LET e == flush_bitmap(d)
         IN  /\ e \in Image /\ e.nextbno = d.nextbno /\ e.assert = d.assert /\ SameFiles(d, e)
             /\ \A b \in Block : block_is_free(e, b) <=> block_is_free(d, b) /\ b >= d.nextbno
<1> DEFINE used(b) == {wb \in Word \X Bit : \E i \in 0..(d.nextbno - 1) :
                         b = 2 + i \div BIT2BLK /\ wb = <<(i % BIT2BLK) \div BIT2WORD, i % BIT2WORD>>}
           e == flush_bitmap(d)
           new == [b \in Block |-> [d.blk[b] EXCEPT !.bits = @ \ used(b)]]
<1>1. e = [d EXCEPT !.blk = new]
  BY Zenon DEF flush_bitmap
<1> HIDE DEF used
<1>2. ASSUME NEW b \in Block
      PROVE  /\ new[b] \in BlockRec /\ new[b].files = d.blk[b].files
             /\ new[b].index = d.blk[b].index /\ new[b].bits = d.blk[b].bits \ used(b)
  <2>1. d.blk[b] \in BlockRec
    BY DEF Image
  <2> QED BY <2>1 DEF BlockRec
<1>3. new \in [Block -> BlockRec]
  BY <1>2
<1> HIDE DEF new, e
<1>4. e \in Image /\ e.blk = new /\ e.nextbno = d.nextbno /\ e.assert = d.assert
  BY <1>1, <1>3 DEF Image
<1>5. ASSUME NEW b \in Block
      PROVE  block_is_free(e, b) <=> block_is_free(d, b) /\ b >= d.nextbno
  <2> DEFINE wb == <<bit_word(b), b % BIT2WORD>>
  <2>1. b \in Nat /\ b < NBLOCK /\ bit_block(b) \in Block /\ d.nextbno \in Nat
    BY Bitmap, Sizes DEF Block, Image
  <2>2. bit_word(b) \in Word /\ b % BIT2WORD \in Bit
        /\ bit_block(b) = 2 + b \div BIT2BLK /\ bit_word(b) = (b % BIT2BLK) \div BIT2WORD
    BY <2>1, BitPlace
  <2>3. wb \in used(bit_block(b)) <=> b < d.nextbno
    <3>1. ASSUME NEW i \in 0..(d.nextbno - 1), bit_block(b) = 2 + i \div BIT2BLK,
                 wb = <<(i % BIT2BLK) \div BIT2WORD, i % BIT2WORD>>
          PROVE  i = b
      <4>1. i \in Nat
        BY <2>1
      <4>2. bit_block(i) = 2 + i \div BIT2BLK /\ bit_word(i) = (i % BIT2BLK) \div BIT2WORD
        BY <4>1, BitPlace
      <4>3. bit_word(b) = (i % BIT2BLK) \div BIT2WORD /\ b % BIT2WORD = i % BIT2WORD
        BY <3>1
      <4> QED BY <2>1, <3>1, <4>1, <4>2, <4>3, BitOwn
    <3>2. wb \in used(bit_block(b)) => b < d.nextbno
      BY <2>1, <3>1 DEF used
    <3>3. ASSUME b < d.nextbno
          PROVE  wb \in used(bit_block(b))
      <4>1. b \in 0..(d.nextbno - 1)
        BY <2>1, <3>3
      <4>2. wb \in Word \X Bit
        BY <2>2
      <4> QED BY <2>2, <4>1, <4>2 DEF used
    <3> QED BY <3>2, <3>3
  <2> HIDE DEF wb
  <2>4. e.blk[bit_block(b)].bits = d.blk[bit_block(b)].bits \ used(bit_block(b))
    BY <1>2, <1>4, <2>1
  <2>5. \A x : block_is_free(x, b) <=> wb \in x.blk[bit_block(b)].bits
    BY <2>1, FreeBit DEF wb
  <2> QED BY <2>1, <2>3, <2>4, <2>5
<1> QED BY <1>2, <1>4, <1>5 DEF e, SameFiles

-----------------------------------------------------------------------------
(* The server boots *)

TaskSet(D) == [file : HostFile, dirf : D, path : Seq(Names) \ {<<>>}]

LEMMA TasksType ==
  ASSUME NEW seq \in Seq(HostFile), NEW D, NEW dirf \in D, NEW path \in Seq(Names)
  PROVE  Tasks(seq, dirf, path) \in Seq(TaskSet(D))
<1> DEFINE task(n) == [file |-> seq[n], dirf |-> dirf, path |-> Append(path, seq[n].name)]
<1>1. ASSUME NEW n \in 1..Len(seq)
      PROVE  task(n) \in TaskSet(D)
  <2>1. seq[n] \in HostFile
    OBVIOUS
  <2>2. seq[n].name \in Names
    BY <2>1 DEF Names
  <2>3. Append(path, seq[n].name) \in Seq(Names)
    BY <2>2
  <2>4. Append(path, seq[n].name) # <<>>
    <3>1. Len(Append(path, seq[n].name)) = Len(path) + 1 /\ Len(path) \in Nat
      BY <2>2
    <3> QED BY <3>1
  <2> QED BY <2>1, <2>3, <2>4 DEF TaskSet
<1>2. Len(seq) \in Nat
  OBVIOUS
<1> HIDE DEF task
<1>3. [n \in 1..Len(seq) |-> task(n)] \in Seq(TaskSet(D))
  BY <1>1, <1>2
<1> QED BY <1>3, Zenon DEF Tasks, task

Booting == {"off", "read_super", "smash", "restore", "read_bitmap"}

Pages == {"none", "boot", "super", "oops"}
BootRec == [pc : Pcs, page0 : Pages, page1 : Pages, disk1 : Pages, cut : BOOLEAN]

\* Where the copies of the super block are while the server starts, unless the power
\* failed when the one on the disk was smashed.
SuperSafe(b) ==
  /\ b.pc # "panic"
  /\ b.pc \in {"off", "read_super", "read_bitmap"} => b.disk1 = "super"
  /\ b.pc = "read_super" => b.page1 = "super"
  /\ b.pc = "smash" => b.page0 = "super" /\ b.disk1 = "oops"
  /\ b.pc = "restore" => b.page1 = "super" /\ b.disk1 = "oops"

BootInv ==
  /\ boot \in BootRec /\ (boot.cut \/ SuperSafe(boot))
  /\ boot.pc \in {"format", "failed"} => boot = [pc |-> boot.pc, page0 |-> "none", page1 |-> "none",
                                               disk1 |-> "none", cut |-> FALSE]
  /\ boot.pc = "format" => /\ img \in Image /\ img.nextbno >= 2 + nbitblock
                           /\ \E D : todo \in Seq(TaskSet(D))
  /\ boot.pc \in Booting => \A b \in Reserved : ~block_is_free(img, b)

LEMMA BootInit == Init => BootInv
<1> SUFFICES ASSUME Init PROVE BootInv
  OBVIOUS
<1>1. img \in Image /\ img.nextbno = 2 + nbitblock
  BY InitImage DEF Init
<1>2. todo \in Seq(TaskSet({Root}))
  <2>1. host \in Seq(HostFile)
    BY HostAssumption DEF Init
  <2>2. <<>> \in Seq(Names)
    OBVIOUS
  <2>3. todo = Tasks(host, Root, <<>>)
    BY DEF Init
  <2> QED BY <2>1, <2>2, <2>3, TasksType
<1>3. boot = [pc |-> "format", page0 |-> "none", page1 |-> "none", disk1 |-> "none", cut |-> FALSE]
  BY DEF Init
<1>4. boot \in BootRec /\ SuperSafe(boot) /\ boot.pc = "format"
  BY <1>3 DEF BootRec, Pcs, Pages, SuperSafe
<1>5. boot = [pc |-> boot.pc, page0 |-> "none", page1 |-> "none", disk1 |-> "none", cut |-> FALSE]
  BY <1>3, <1>4, Zenon
<1>6. img.nextbno >= 2 + nbitblock
  BY <1>1, Bitmap
<1> QED BY <1>1, <1>2, <1>4, <1>5, <1>6 DEF BootInv, Booting

LEMMA BootFormat ==
  ASSUME BootInv, fsformat
  PROVE  BootInv'
<1> DEFINE t == Head(todo)
           f == create_file(img, t.dirf).f
<1>1. /\ boot.pc = "format" /\ todo # <<>>
      /\ img' = IF t.file.dir THEN write_directory(img, t.dirf, t.path)
                ELSE write_file(img, t.dirf, t.path, t.file.size)
      /\ todo' = IF t.file.dir THEN Tasks(t.file.kids, f, t.path) \o Tail(todo) ELSE Tail(todo)
      /\ boot' = IF img'.assert THEN boot ELSE [boot EXCEPT !.pc = "failed"]
  BY Zenon DEF fsformat
<1>2. img \in Image /\ img.nextbno >= 2 + nbitblock /\ boot \in BootRec
  BY <1>1 DEF BootInv
<1>3. PICK D : todo \in Seq(TaskSet(D))
  BY <1>1 DEF BootInv
<1>4. t \in TaskSet(D)
  BY <1>1, <1>3
<1> DEFINE E == D \union {f}
<1>5. Tail(todo) \in Seq(TaskSet(E))
  <2>1. Tail(todo) \in Seq(TaskSet(D))
    BY <1>1, <1>3
  <2>2. TaskSet(D) \subseteq TaskSet(E)
    BY DEF TaskSet
  <2> HIDE DEF E
  <2> QED BY <2>1, <2>2
<1> HIDE DEF t, f
<1>6. t.file \in HostFile /\ t.path \in Seq(Names) /\ t.path # <<>>
  BY <1>4 DEF TaskSet
<1>7. t.file.size \in Nat /\ t.file.kids \in Seq(HostFile)
  BY <1>6, HostAssumption
<1>8. Grown(img, img')
  BY <1>1, <1>2, <1>6, <1>7, WriteGrown, DirectoryGrown
<1>9. todo' \in Seq(TaskSet(E))
  <2>1. Tasks(t.file.kids, f, t.path) \in Seq(TaskSet(E))
    BY <1>6, <1>7, TasksType
  <2> HIDE DEF E
  <2>2. Tasks(t.file.kids, f, t.path) \o Tail(todo) \in Seq(TaskSet(E))
    BY <1>5, <2>1
  <2> QED BY <1>1, <1>5, <2>2
<1>10. boot = [pc |-> "format", page0 |-> "none", page1 |-> "none", disk1 |-> "none", cut |-> FALSE]
  BY <1>1 DEF BootInv
<1>11. \/ boot' = boot
       \/ boot' = [pc |-> "failed", page0 |-> "none", page1 |-> "none", disk1 |-> "none", cut |-> FALSE]
  BY <1>1, <1>10
<1>12. /\ boot' \in BootRec /\ SuperSafe(boot') /\ boot'.pc \in {"format", "failed"}
       /\ boot' = [pc |-> boot'.pc, page0 |-> "none", page1 |-> "none", disk1 |-> "none", cut |-> FALSE]
  <2>1. PICK pc \in {"format", "failed"} :
          boot' = [pc |-> pc, page0 |-> "none", page1 |-> "none", disk1 |-> "none", cut |-> FALSE]
    BY <1>10, <1>11
  <2>2. boot'.pc = pc
    BY <2>1
  <2>3. boot' \in BootRec /\ SuperSafe(boot')
    BY <2>1, <2>2 DEF BootRec, Pcs, Pages, SuperSafe
  <2> QED BY <2>1, <2>2, <2>3
<1>13. img' \in Image /\ img'.nextbno >= 2 + nbitblock
  BY <1>2, <1>8, Bitmap DEF Grown, Image
<1>14. boot'.pc \notin Booting
  BY <1>12 DEF Booting
<1> HIDE DEF E
<1> QED BY <1>9, <1>12, <1>13, <1>14 DEF BootInv

LEMMA BootFlush ==
  ASSUME BootInv, finish_fs
  PROVE  BootInv'
<1>1. /\ boot.pc = "format" /\ img' = flush_bitmap(img)
      /\ boot' = [boot EXCEPT !.pc = "off", !.disk1 = "super"]
  BY DEF finish_fs
<1>2. boot = [pc |-> "format", page0 |-> "none", page1 |-> "none", disk1 |-> "none", cut |-> FALSE]
  BY <1>1 DEF BootInv
<1>3. boot' = [pc |-> "off", page0 |-> "none", page1 |-> "none", disk1 |-> "super", cut |-> FALSE]
  BY <1>1, <1>2
<1>4. boot' \in BootRec /\ SuperSafe(boot') /\ boot'.pc = "off"
  BY <1>3 DEF BootRec, Pcs, Pages, SuperSafe
<1>5. img \in Image /\ img.nextbno >= 2 + nbitblock
  BY <1>1 DEF BootInv
<1>6. \A b \in Block : block_is_free(img', b) <=> block_is_free(img, b) /\ b >= img.nextbno
  BY <1>1, <1>5, FlushSpec
<1>7. ASSUME NEW b \in Reserved
      PROVE  ~block_is_free(img', b)
  <2>1. b \in Block /\ b \in Nat /\ b < 2 + nbitblock
    BY Bitmap, Sizes DEF Block, Reserved
  <2> QED BY <1>5, <1>6, <2>1, Bitmap DEF Image
<1> QED BY <1>4, <1>7 DEF BootInv, Reserved, block_is_free

LEMMA BootSteps ==
  ASSUME BootInv, read_super \/ check_write_block \/ read_bitmap \/ PowerCut
  PROVE  BootInv'
<1>1. img' = img /\ boot.pc \in Booting
  BY DEF read_super, check_write_block, read_bitmap, PowerCut, Step, Booting
<1>2. \A b \in Reserved : ~block_is_free(img, b)
  BY <1>1 DEF BootInv
<1>3. boot \in BootRec /\ (boot.cut \/ SuperSafe(boot))
  BY DEF BootInv
<1> DEFINE Good(b) == /\ b \in BootRec /\ (b.cut \/ SuperSafe(b))
                      /\ b.pc \in Booting \union {"serve", "panic"}
<1>4. ASSUME read_super
      PROVE  Good(boot')
  <2>1. boot.pc = "off"
    BY <1>4 DEF read_super, Step
  <2>2. boot' = [boot EXCEPT !.page1 = boot.disk1,
                             !.pc = IF boot.disk1 = "super" THEN "read_super" ELSE "panic"]
    BY <1>4 DEF read_super, Step
  <2>3. boot' = [pc |-> IF boot.disk1 = "super" THEN "read_super" ELSE "panic",
                 page0 |-> boot.page0, page1 |-> boot.disk1, disk1 |-> boot.disk1, cut |-> boot.cut]
    BY <1>3, <2>2 DEF BootRec
  <2>4. boot' \in BootRec
    BY <1>3, <2>3 DEF BootRec, Pcs
  <2>5. boot'.cut \/ SuperSafe(boot')
    BY <1>3, <2>1, <2>3 DEF SuperSafe
  <2>6. boot'.pc \in Booting \union {"serve", "panic"}
    BY <2>3 DEF Booting
  <2> QED BY <2>4, <2>5, <2>6, Zenon
<1>5. ASSUME check_write_block
      PROVE  Good(boot')
  <2>1. CASE boot.pc = "read_super" /\ boot' = [boot EXCEPT !.pc = "smash", !.page0 = boot.page1,
                                                !.page1 = "oops", !.disk1 = "oops"]
    <3>1. boot' = [pc |-> "smash", page0 |-> boot.page1, page1 |-> "oops", disk1 |-> "oops",
                   cut |-> boot.cut]
      BY <1>3, <2>1 DEF BootRec
    <3>2. boot' \in BootRec
      BY <1>3, <3>1 DEF BootRec, Pcs, Pages
    <3>3. boot'.cut \/ SuperSafe(boot')
      BY <1>3, <2>1, <3>1 DEF SuperSafe
    <3>4. boot'.pc \in Booting \union {"serve", "panic"}
      BY <3>1 DEF Booting
    <3> QED BY <3>2, <3>3, <3>4, Zenon
  <2>2. CASE boot.pc = "smash" /\ boot' = [boot EXCEPT
               !.pc = IF boot.disk1 = "oops" THEN "restore" ELSE "panic", !.page1 = boot.page0]
    <3>1. boot' = [pc |-> IF boot.disk1 = "oops" THEN "restore" ELSE "panic", page0 |-> boot.page0,
                   page1 |-> boot.page0, disk1 |-> boot.disk1, cut |-> boot.cut]
      BY <1>3, <2>2 DEF BootRec
    <3>2. boot' \in BootRec
      BY <1>3, <3>1 DEF BootRec, Pcs
    <3>3. boot'.cut \/ SuperSafe(boot')
      BY <1>3, <2>2, <3>1 DEF SuperSafe
    <3>4. boot'.pc \in Booting \union {"serve", "panic"}
      BY <3>1 DEF Booting
    <3> QED BY <3>2, <3>3, <3>4, Zenon
  <2>3. CASE boot.pc = "restore" /\ boot' = [boot EXCEPT !.pc = "read_bitmap", !.disk1 = boot.page1]
    <3>1. boot' = [pc |-> "read_bitmap", page0 |-> boot.page0, page1 |-> boot.page1,
                   disk1 |-> boot.page1, cut |-> boot.cut]
      BY <1>3, <2>3 DEF BootRec
    <3>2. boot' \in BootRec
      BY <1>3, <3>1 DEF BootRec, Pcs
    <3>3. boot'.cut \/ SuperSafe(boot')
      BY <1>3, <2>3, <3>1 DEF SuperSafe
    <3>4. boot'.pc \in Booting \union {"serve", "panic"}
      BY <3>1 DEF Booting
    <3> QED BY <3>2, <3>3, <3>4, Zenon
  <2> QED BY <1>5, <2>1, <2>2, <2>3 DEF check_write_block, Step
<1>6. ASSUME read_bitmap
      PROVE  Good(boot')
  <2>1. ~ \E b \in 0..(1 + nbitblock) : block_is_free(img, b)
    BY <1>2, Zenon DEF Reserved
  <2>2. boot.pc = "read_bitmap" /\ boot' = [boot EXCEPT !.pc = "serve"]
    BY <1>6, <2>1, Zenon DEF read_bitmap, Step
  <2> HIDE <2>1
  <2>3. boot' \in BootRec /\ boot'.pc = "serve" /\ boot'.cut = boot.cut
    BY <1>3, <2>2 DEF BootRec, Pcs
  <2>4. boot'.cut \/ SuperSafe(boot')
    BY <1>3, <2>2, <2>3 DEF SuperSafe
  <2>5. boot'.pc \in Booting \union {"serve", "panic"}
    BY <2>3
  <2> QED BY <2>3, <2>4, <2>5, Zenon
<1>7. ASSUME PowerCut
      PROVE  Good(boot')
  <2>1. boot' = [boot EXCEPT !.pc = "off", !.page0 = "none", !.page1 = "none",
                             !.cut = @ \/ boot.disk1 = "oops"]
    BY <1>7 DEF PowerCut, Step
  <2>2. boot.pc \in {"read_super", "smash", "restore", "read_bitmap"}
    BY <1>7 DEF PowerCut, Step
  <2> DEFINE lost == boot.cut \/ boot.disk1 = "oops"
  <2>3. lost \in BOOLEAN /\ (~lost => SuperSafe(boot) /\ boot.disk1 = "super")
    BY <1>3, <2>2 DEF BootRec, SuperSafe
  <2>4. boot' = [boot EXCEPT !.pc = "off", !.page0 = "none", !.page1 = "none", !.cut = lost]
    BY <2>1, Zenon
  <2> HIDE DEF lost
  <2>5. boot' = [pc |-> "off", page0 |-> "none", page1 |-> "none", disk1 |-> boot.disk1, cut |-> lost]
    BY <1>3, <2>4 DEF BootRec
  <2>6. boot' \in BootRec
    BY <1>3, <2>3, <2>5 DEF BootRec, Pcs, Pages
  <2>7. boot'.pc = "off" /\ boot'.disk1 = boot.disk1 /\ boot'.cut = lost
    BY <2>5
  <2>8. ~lost => SuperSafe(boot')
    BY <2>3, <2>7 DEF SuperSafe
  <2>9. boot'.pc \in Booting \union {"serve", "panic"}
    BY <2>7 DEF Booting
  <2> QED BY <2>6, <2>7, <2>8, <2>9, Zenon
<1>8. Good(boot')
  BY <1>4, <1>5, <1>6, <1>7
<1> HIDE DEF Good
<1>9. \A b \in Reserved' : ~block_is_free(img, b)'
  BY <1>1, <1>2 DEF Reserved, block_is_free
<1>10. boot'.pc \notin {"format", "failed"}
  BY <1>8 DEF Good, Booting
<1>11. boot' \in BootRec /\ (boot'.cut \/ SuperSafe(boot'))
  BY <1>8, Zenon DEF Good
<1> QED BY <1>9, <1>10, <1>11, Zenon DEF BootInv

LEMMA BootNext ==
  ASSUME BootInv, [Next]_vars
  PROVE  BootInv'
<1>1. CASE fsformat
  BY <1>1, BootFormat
<1>2. CASE finish_fs
  BY <1>2, BootFlush
<1>3. CASE read_super \/ check_write_block \/ read_bitmap \/ PowerCut
  BY <1>3, BootSteps
<1>4. CASE \E h \in HostFiles : file_remove(h.path)
  <2>1. boot' = boot /\ boot.pc = "serve"
    BY <1>4 DEF file_remove
  <2> QED BY <2>1 DEF BootInv, Booting
<1>5. CASE UNCHANGED vars
  BY <1>5 DEF vars, BootInv, Reserved, block_is_free
<1> QED BY <1>1, <1>2, <1>3, <1>4, <1>5 DEF Next

\* As long as what fsformat writes fits on the disk: the server starts from the image fsformat
\* made, and starts again after the power failed, unless it failed while check_write_block had
\* smashed the super block.  Of any host files and any size of disk.
THEOREM BootsThm == Spec /\ [](img.nextbno <= NBLOCK) => []Boots
<1>1. BootInv /\ [Next]_vars => BootInv'
  BY BootNext
<1>2. BootInv => Boots
  BY DEF BootInv, Boots, SuperSafe
<1> QED BY BootInit, <1>1, <1>2, PTL DEF Spec

-----------------------------------------------------------------------------
(* Where pointers to blocks are: in the Files and in the indirect blocks. *)

DirectAt(f, i) == <<"direct", f[1], f[2], i>>
IndirectAt(f) == <<"indirect", f[1], f[2], 0>>
IndexAt(b, i) == <<"index", b, i, 0>>

Ptrs == {DirectAt(f, i) : f \in Place, i \in 0..(NDIRECT - 1)}
          \union {IndirectAt(f) : f \in Place}
          \union {IndexAt(b, i) : b \in Block, i \in 0..(NINDIRECT - 1)}

Ptr(d, p) ==
  IF p[1] = "direct" THEN d.blk[p[2]].files[p[3]].f_direct[p[4]]
  ELSE IF p[1] = "indirect" THEN d.blk[p[2]].files[p[3]].f_indirect
  ELSE d.blk[p[2]].index[p[3]]

SameBits(d, e) == \A b \in Block : e.blk[b].bits = d.blk[b].bits
SamePtrs(d, e) == \A q \in Ptrs : Ptr(e, q) = Ptr(d, q)
SetPtr(d, e, p, v) == \A q \in Ptrs : Ptr(e, q) = IF q = p THEN v ELSE Ptr(d, q)
SameInfo(d, e) ==
  \A g \in Place : /\ File(e, g).f_name = File(d, g).f_name
                   /\ File(e, g).f_size = File(d, g).f_size
                   /\ File(e, g).f_type = File(d, g).f_type

LEMMA PtrKinds ==
  ASSUME NEW q \in Ptrs
  PROVE  \/ \E f \in Place, i \in 0..(NDIRECT - 1) : q = DirectAt(f, i)
         \/ \E f \in Place : q = IndirectAt(f)
         \/ \E b \in Block, i \in 0..(NINDIRECT - 1) : q = IndexAt(b, i)
BY DEF Ptrs

LEMMA PtrIn ==
  /\ \A f \in Place : \A i \in 0..(NDIRECT - 1) : DirectAt(f, i) \in Ptrs
  /\ \A f \in Place : IndirectAt(f) \in Ptrs
  /\ \A b \in Block : \A i \in 0..(NINDIRECT - 1) : IndexAt(b, i) \in Ptrs
BY DEF Ptrs

LEMMA PtrsDiffer ==
  /\ \A f, g \in Place : \A i, j : DirectAt(f, i) = DirectAt(g, j) => f = g /\ i = j
  /\ \A f, g \in Place : IndirectAt(f) = IndirectAt(g) => f = g
  /\ \A b, c, i, j : IndexAt(b, i) = IndexAt(c, j) => b = c /\ i = j
  /\ \A f, g, i : DirectAt(f, i) # IndirectAt(g)
  /\ \A f, b, i, j : DirectAt(f, i) # IndexAt(b, j)
  /\ \A f, b, i : IndirectAt(f) # IndexAt(b, i)
BY DEF DirectAt, IndirectAt, IndexAt, Place

LEMMA DirectValue ==
  ASSUME NEW d, NEW f, NEW i
  PROVE  Ptr(d, DirectAt(f, i)) = File(d, f).f_direct[i]
BY DEF Ptr, DirectAt, File

LEMMA IndirectValue ==
  ASSUME NEW d, NEW f
  PROVE  Ptr(d, IndirectAt(f)) = File(d, f).f_indirect
BY DEF Ptr, IndirectAt, File

LEMMA IndexValue ==
  ASSUME NEW d, NEW b, NEW i
  PROVE  Ptr(d, IndexAt(b, i)) = d.blk[b].index[i]
BY DEF Ptr, IndexAt

LEMMA PtrNat ==
  ASSUME NEW d \in Image, NEW p \in Ptrs
  PROVE  Ptr(d, p) \in Nat
<1>1. \A b \in Block : d.blk[b] \in BlockRec
  BY DEF Image
<1>2. \A f \in Place : File(d, f) \in FileRec
  BY FileType DEF Place
<1>3. CASE \E f \in Place, i \in 0..(NDIRECT - 1) : p = DirectAt(f, i)
  <2>1. PICK f \in Place, i \in 0..(NDIRECT - 1) : p = DirectAt(f, i)
    BY <1>3
  <2>2. Ptr(d, p) = File(d, f).f_direct[i]
    BY <2>1, DirectValue
  <2>3. File(d, f).f_direct \in [0..(NDIRECT - 1) -> Nat]
    BY <1>2 DEF FileRec
  <2> QED BY <2>2, <2>3
<1>4. CASE \E f \in Place : p = IndirectAt(f)
  BY <1>2, <1>4, IndirectValue DEF FileRec
<1>5. CASE \E b \in Block, i \in 0..(NINDIRECT - 1) : p = IndexAt(b, i)
  <2>1. PICK b \in Block, i \in 0..(NINDIRECT - 1) : p = IndexAt(b, i)
    BY <1>5
  <2>2. Ptr(d, p) = d.blk[b].index[i]
    BY <2>1, IndexValue
  <2>3. d.blk[b].index \in [0..(NINDIRECT - 1) -> Nat]
    BY <1>1 DEF BlockRec
  <2> QED BY <2>2, <2>3
<1> QED BY <1>3, <1>4, <1>5, PtrKinds

LEMMA Places ==
  /\ \A f \in Place : f[1] \in Block /\ f[2] \in Slots /\ f = <<f[1], f[2]>>
  /\ \A f, g \in Place : f[1] = g[1] /\ f[2] = g[2] => f = g
BY DEF Place

\* A File is written: what others hold stays.
FileSet(d, e, f, rec) ==
  /\ e \in Image /\ e.nextbno = d.nextbno /\ e.assert = d.assert /\ SameBits(d, e)
  /\ \A g \in Place : File(e, g) = IF g = f THEN rec ELSE File(d, g)
  /\ \A b \in Block : e.blk[b].index = d.blk[b].index

LEMMA SetFilePlaces ==
  ASSUME NEW d \in Image, NEW f \in Place, NEW rec \in FileRec
  PROVE  FileSet(d, SetFile(d, f, rec), f, rec)
<1> DEFINE e == SetFile(d, f, rec)
<1>0. f[1] \in Block /\ f[2] \in Slots => rec \in FileRec
  OBVIOUS
<1>1. /\ e \in Image /\ SameElse(d, e)
      /\ \A b \in Block : \A k \in Slots :
           e.blk[b].files[k] = IF b = f[1] /\ k = f[2] THEN rec ELSE d.blk[b].files[k]
  BY SetFileSpec
<1> HIDE DEF e
<1>2. \A g \in Place : File(e, g) = IF g = f THEN rec ELSE File(d, g)
  BY <1>1, Places DEF File
<1>3. FileSet(d, e, f, rec)
  BY <1>1, <1>2 DEF SameElse, SameBits, FileSet
<1> QED BY <1>3 DEF e

\* The three ways a pointer is written.
Written(d, e) ==
  /\ e \in Image /\ e.nextbno = d.nextbno /\ e.assert = d.assert
  /\ SameBits(d, e) /\ SameInfo(d, e)

LEMMA SetDirect ==
  ASSUME NEW d \in Image, NEW f \in Place, NEW i \in 0..(NDIRECT - 1), NEW v \in Nat, NEW e,
         e = SetFile(d, f, [File(d, f) EXCEPT !.f_direct[i] = v])
  PROVE  Written(d, e) /\ SetPtr(d, e, DirectAt(f, i), v)
<1> DEFINE rec == [File(d, f) EXCEPT !.f_direct[i] = v]
<1>1. File(d, f) \in FileRec
  BY FileType DEF Place
<1>2. /\ rec \in FileRec /\ rec.f_indirect = File(d, f).f_indirect /\ rec.f_name = File(d, f).f_name
      /\ rec.f_size = File(d, f).f_size /\ rec.f_type = File(d, f).f_type
      /\ \A n \in 0..(NDIRECT - 1) : rec.f_direct[n] = IF n = i THEN v ELSE File(d, f).f_direct[n]
  BY <1>1, DirectType
<1>3. e = SetFile(d, f, rec)
  OBVIOUS
<1> HIDE DEF rec
<1>r. rec \in FileRec
  BY <1>2
<1>f. FileSet(d, e, f, rec)
  BY <1>r, <1>3, SetFilePlaces, Zenon
<1>4. /\ e \in Image /\ e.nextbno = d.nextbno /\ e.assert = d.assert /\ SameBits(d, e)
      /\ \A g \in Place : File(e, g) = IF g = f THEN rec ELSE File(d, g)
      /\ \A b \in Block : e.blk[b].index = d.blk[b].index
  BY <1>f DEF FileSet
<1>5. SameInfo(d, e)
  BY <1>2, <1>4 DEF SameInfo
<1>6. ASSUME NEW q \in Ptrs
      PROVE  Ptr(e, q) = IF q = DirectAt(f, i) THEN v ELSE Ptr(d, q)
  <2>1. CASE \E g \in Place, n \in 0..(NDIRECT - 1) : q = DirectAt(g, n)
    <3>1. PICK g \in Place, n \in 0..(NDIRECT - 1) : q = DirectAt(g, n)
      BY <2>1
    <3>2. q = DirectAt(f, i) <=> g = f /\ n = i
      BY <3>1, PtrsDiffer, Zenon
    <3>3. Ptr(e, q) = File(e, g).f_direct[n] /\ Ptr(d, q) = File(d, g).f_direct[n]
      BY <3>1, DirectValue
    <3> QED BY <1>2, <1>4, <3>2, <3>3
  <2>2. CASE \E g \in Place : q = IndirectAt(g)
    <3>1. PICK g \in Place : q = IndirectAt(g)
      BY <2>2
    <3>2. q # DirectAt(f, i)
      BY <3>1, PtrsDiffer, Zenon
    <3>3. Ptr(e, q) = File(e, g).f_indirect /\ Ptr(d, q) = File(d, g).f_indirect
      BY <3>1, IndirectValue
    <3> QED BY <1>2, <1>4, <3>2, <3>3
  <2>3. CASE \E b \in Block, n \in 0..(NINDIRECT - 1) : q = IndexAt(b, n)
    <3>1. PICK b \in Block, n \in 0..(NINDIRECT - 1) : q = IndexAt(b, n)
      BY <2>3
    <3>2. q # DirectAt(f, i)
      BY <3>1, PtrsDiffer, Zenon
    <3>3. Ptr(e, q) = e.blk[b].index[n] /\ Ptr(d, q) = d.blk[b].index[n]
      BY <3>1, IndexValue
    <3> QED BY <1>4, <3>2, <3>3
  <2> QED BY <2>1, <2>2, <2>3, PtrKinds
<1> QED BY <1>4, <1>5, <1>6 DEF SetPtr, Written

LEMMA SetIndirect ==
  ASSUME NEW d \in Image, NEW f \in Place, NEW v \in Nat, NEW rec \in FileRec,
         rec.f_indirect = v, rec.f_direct = File(d, f).f_direct
  PROVE  /\ FileSet(d, SetFile(d, f, rec), f, rec)
         /\ SetPtr(d, SetFile(d, f, rec), IndirectAt(f), v)
<1> DEFINE e == SetFile(d, f, rec)
<1>4. /\ e \in Image /\ e.nextbno = d.nextbno /\ e.assert = d.assert /\ SameBits(d, e)
      /\ \A g \in Place : File(e, g) = IF g = f THEN rec ELSE File(d, g)
      /\ \A b \in Block : e.blk[b].index = d.blk[b].index
  BY SetFilePlaces DEF FileSet
<1> HIDE DEF e
<1>6. ASSUME NEW q \in Ptrs
      PROVE  Ptr(e, q) = IF q = IndirectAt(f) THEN v ELSE Ptr(d, q)
  <2>1. CASE \E g \in Place, n \in 0..(NDIRECT - 1) : q = DirectAt(g, n)
    <3>1. PICK g \in Place, n \in 0..(NDIRECT - 1) : q = DirectAt(g, n)
      BY <2>1
    <3>2. q # IndirectAt(f)
      BY <3>1, PtrsDiffer, Zenon
    <3>3. Ptr(e, q) = File(e, g).f_direct[n] /\ Ptr(d, q) = File(d, g).f_direct[n]
      BY <3>1, DirectValue
    <3> QED BY <1>4, <3>2, <3>3
  <2>2. CASE \E g \in Place : q = IndirectAt(g)
    <3>1. PICK g \in Place : q = IndirectAt(g)
      BY <2>2
    <3>2. q = IndirectAt(f) <=> g = f
      BY <3>1, PtrsDiffer, Zenon
    <3>3. Ptr(e, q) = File(e, g).f_indirect /\ Ptr(d, q) = File(d, g).f_indirect
      BY <3>1, IndirectValue
    <3> QED BY <1>4, <3>2, <3>3
  <2>3. CASE \E b \in Block, n \in 0..(NINDIRECT - 1) : q = IndexAt(b, n)
    <3>1. PICK b \in Block, n \in 0..(NINDIRECT - 1) : q = IndexAt(b, n)
      BY <2>3
    <3>2. q # IndirectAt(f)
      BY <3>1, PtrsDiffer, Zenon
    <3>3. Ptr(e, q) = e.blk[b].index[n] /\ Ptr(d, q) = d.blk[b].index[n]
      BY <3>1, IndexValue
    <3> QED BY <1>4, <3>2, <3>3
  <2> QED BY <2>1, <2>2, <2>3, PtrKinds
<1>7. SetPtr(d, e, IndirectAt(f), v)
  BY <1>6 DEF SetPtr
<1> QED BY <1>7, SetFilePlaces, Zenon DEF e

LEMMA SetIndexed ==
  ASSUME NEW d \in Image, NEW x \in Block, NEW i \in 0..(NINDIRECT - 1), NEW v \in Nat
  PROVE  /\ Written(d, SetIndex(d, x, i, v))
         /\ SetPtr(d, SetIndex(d, x, i, v), IndexAt(x, i), v)
<1> DEFINE e == SetIndex(d, x, i, v)
<1>1. /\ e \in Image /\ e.nextbno = d.nextbno /\ e.assert = d.assert
      /\ \A b \in Block :
           /\ e.blk[b].files = d.blk[b].files /\ e.blk[b].bits = d.blk[b].bits
           /\ \A n \in 0..(NINDIRECT - 1) :
                e.blk[b].index[n] = IF b = x /\ n = i THEN v ELSE d.blk[b].index[n]
  BY SetIndexSpec
<1> HIDE DEF e
<1>2. \A g \in Place : File(e, g) = File(d, g)
  BY <1>1, Places DEF File
<1>6. ASSUME NEW q \in Ptrs
      PROVE  Ptr(e, q) = IF q = IndexAt(x, i) THEN v ELSE Ptr(d, q)
  <2>1. CASE \E g \in Place, n \in 0..(NDIRECT - 1) : q = DirectAt(g, n)
    <3>1. PICK g \in Place, n \in 0..(NDIRECT - 1) : q = DirectAt(g, n)
      BY <2>1
    <3>2. q # IndexAt(x, i)
      BY <3>1, PtrsDiffer, Zenon
    <3>3. Ptr(e, q) = File(e, g).f_direct[n] /\ Ptr(d, q) = File(d, g).f_direct[n]
      BY <3>1, DirectValue
    <3> QED BY <1>2, <3>2, <3>3
  <2>2. CASE \E g \in Place : q = IndirectAt(g)
    <3>1. PICK g \in Place : q = IndirectAt(g)
      BY <2>2
    <3>2. q # IndexAt(x, i)
      BY <3>1, PtrsDiffer, Zenon
    <3>3. Ptr(e, q) = File(e, g).f_indirect /\ Ptr(d, q) = File(d, g).f_indirect
      BY <3>1, IndirectValue
    <3> QED BY <1>2, <3>2, <3>3
  <2>3. CASE \E b \in Block, n \in 0..(NINDIRECT - 1) : q = IndexAt(b, n)
    <3>1. PICK b \in Block, n \in 0..(NINDIRECT - 1) : q = IndexAt(b, n)
      BY <2>3
    <3>2. q = IndexAt(x, i) <=> b = x /\ n = i
      BY <3>1 DEF IndexAt
    <3>3. Ptr(e, q) = e.blk[b].index[n] /\ Ptr(d, q) = d.blk[b].index[n]
      BY <3>1, IndexValue
    <3> QED BY <1>1, <3>2, <3>3
  <2> QED BY <2>1, <2>2, <2>3, PtrKinds
<1>7. Written(d, e) /\ SetPtr(d, e, IndexAt(x, i), v)
  BY <1>1, <1>2, <1>6 DEF SetPtr, SameInfo, SameBits, Written
<1> QED BY <1>7, Zenon DEF e

\* Everything else leaves the pointers alone.
LEMMA FilesSame ==
  ASSUME NEW d, NEW e, SameFiles(d, e)
  PROVE  SamePtrs(d, e) /\ SameInfo(d, e) /\ \A g \in Place : File(e, g) = File(d, g)
<1>1. \A g \in Place : File(e, g) = File(d, g)
  BY Places DEF File, SameFiles
<1>2. \A b \in Block : e.blk[b].index = d.blk[b].index
  BY DEF SameFiles
<1>3. ASSUME NEW q \in Ptrs
      PROVE  Ptr(e, q) = Ptr(d, q)
  <2>1. CASE \E g \in Place, n \in 0..(NDIRECT - 1) : q = DirectAt(g, n)
    BY <1>1, <2>1, DirectValue
  <2>2. CASE \E g \in Place : q = IndirectAt(g)
    BY <1>1, <2>2, IndirectValue
  <2>3. CASE \E b \in Block, n \in 0..(NINDIRECT - 1) : q = IndexAt(b, n)
    BY <1>2, <2>3, IndexValue
  <2> QED BY <2>1, <2>2, <2>3, PtrKinds
<1> QED BY <1>1, <1>3 DEF SamePtrs, SameInfo

LEMMA SetInfo ==
  ASSUME NEW d \in Image, NEW f \in Place, NEW rec \in FileRec,
         rec.f_indirect = File(d, f).f_indirect, rec.f_direct = File(d, f).f_direct
  PROVE  /\ FileSet(d, SetFile(d, f, rec), f, rec)
         /\ SamePtrs(d, SetFile(d, f, rec))
<1> DEFINE e == SetFile(d, f, rec)
           v == File(d, f).f_indirect
<1>1. v \in Nat /\ rec.f_indirect = v
  BY FileType DEF FileRec, Place
<1> HIDE DEF v
<1>2. FileSet(d, e, f, rec) /\ SetPtr(d, e, IndirectAt(f), v)
  BY <1>1, SetIndirect, Zenon
<1> HIDE DEF e
<1>3. Ptr(d, IndirectAt(f)) = v
  BY IndirectValue DEF v
<1>4. SamePtrs(d, e)
  BY <1>2, <1>3 DEF SetPtr, SamePtrs
<1> QED BY <1>2, <1>4, Zenon DEF e

LEMMA DirectIndex ==
  ASSUME NEW i \in 0..(NINDIRECT - 1)
  PROVE  /\ i \in Nat /\ (i < NDIRECT => i \in 0..(NDIRECT - 1))
         /\ \A g \in Place : i < NDIRECT => DirectAt(g, i) \in Ptrs
<1>1. i \in Nat /\ (i < NDIRECT => i \in 0..(NDIRECT - 1))
  BY Sizes
<1> QED BY <1>1, PtrIn

-----------------------------------------------------------------------------
(***************************************************************************)
(* The image while it fits on the disk.  Kept: every pointer is zero or    *)
(* holds a block behind the bitmap that was taken, and no two hold the     *)
(* same.  Unused: a File without a name is zero, and so is all behind the  *)
(* blocks that were taken.                                                 *)
(***************************************************************************)

first_block == 2 + nbitblock

Kept(d) ==
  /\ d \in Image /\ first_block <= d.nextbno /\ d.nextbno <= NBLOCK
  /\ \A p \in Ptrs : Ptr(d, p) # 0 => first_block <= Ptr(d, p) /\ Ptr(d, p) < d.nextbno
  /\ \A p, q \in Ptrs : Ptr(d, p) = Ptr(d, q) /\ Ptr(d, p) # 0 => p = q

NoPtr(d, v) == \A p \in Ptrs : Ptr(d, p) # v

Unused(d) ==
  /\ \A f \in Place : File(d, f).f_name = "" =>
       /\ File(d, f).f_size = 0 /\ Ptr(d, IndirectAt(f)) = 0
       /\ \A i \in 0..(NDIRECT - 1) : Ptr(d, DirectAt(f, i)) = 0
  /\ \A f \in Place : f[1] >= d.nextbno => File(d, f).f_name = ""
  /\ \A b \in Block : \A i \in 0..(NINDIRECT - 1) : b >= d.nextbno => Ptr(d, IndexAt(b, i)) = 0

LEMMA KeptSet ==
  ASSUME NEW d, Kept(d), NEW e \in Image, d.nextbno <= e.nextbno, e.nextbno <= NBLOCK,
         NEW p \in Ptrs, NEW v \in Nat, SetPtr(d, e, p, v),
         v # 0 => first_block <= v /\ v < e.nextbno /\ NoPtr(d, v)
  PROVE  Kept(e)
<1>1. d \in Image /\ d.nextbno \in Nat /\ e.nextbno \in Nat /\ first_block \in Nat /\ NBLOCK \in Nat
  BY Bitmap, Sizes DEF Kept, Image, first_block
<1>2. \A q \in Ptrs : Ptr(d, q) \in Nat /\ Ptr(e, q) \in Nat
  BY <1>1, PtrNat
<1>3. \A q \in Ptrs : Ptr(e, q) = IF q = p THEN v ELSE Ptr(d, q)
  BY DEF SetPtr
<1>4. first_block <= d.nextbno /\ \A q \in Ptrs : Ptr(d, q) # 0 => first_block <= Ptr(d, q) /\ Ptr(d, q) < d.nextbno
  BY DEF Kept
<1>5. \A q \in Ptrs : Ptr(e, q) # 0 => first_block <= Ptr(e, q) /\ Ptr(e, q) < e.nextbno
  BY <1>1, <1>2, <1>3, <1>4
<1>6. \A q, r \in Ptrs : Ptr(d, q) = Ptr(d, r) /\ Ptr(d, q) # 0 => q = r
  BY DEF Kept
<1>7. \A q, r \in Ptrs : Ptr(e, q) = Ptr(e, r) /\ Ptr(e, q) # 0 => q = r
  BY <1>2, <1>3, <1>6 DEF NoPtr
<1> QED BY <1>1, <1>4, <1>5, <1>7 DEF Kept

LEMMA KeptSame ==
  ASSUME NEW d, Kept(d), NEW e \in Image, d.nextbno <= e.nextbno, e.nextbno <= NBLOCK, SamePtrs(d, e)
  PROVE  Kept(e)
<1>1. d \in Image /\ d.nextbno \in Nat /\ e.nextbno \in Nat /\ first_block \in Nat /\ NBLOCK \in Nat
  BY Bitmap, Sizes DEF Kept, Image, first_block
<1>2. \A q \in Ptrs : Ptr(d, q) \in Nat /\ Ptr(e, q) = Ptr(d, q)
  BY <1>1, PtrNat DEF SamePtrs
<1> QED BY <1>1, <1>2 DEF Kept

\* The disk block of block i of a file, in terms of pointers.
LEMMA BlockOf ==
  ASSUME NEW d, NEW f, NEW i
  PROVE  block_of(d, f, i) =
           IF i < NDIRECT THEN Ptr(d, DirectAt(f, i))
           ELSE IF Ptr(d, IndirectAt(f)) = 0 THEN 0
           ELSE Ptr(d, IndexAt(Ptr(d, IndirectAt(f)), i))
BY DirectValue, IndirectValue, IndexValue DEF block_of

\* An indirect block that exists is a block.
LEMMA IndirectBlock ==
  ASSUME NEW d, Kept(d), NEW f \in Place, Ptr(d, IndirectAt(f)) # 0
  PROVE  Ptr(d, IndirectAt(f)) \in Block /\ Ptr(d, IndirectAt(f)) < d.nextbno
<1>1. IndirectAt(f) \in Ptrs
  BY PtrIn
<1>2. Ptr(d, IndirectAt(f)) \in Nat /\ d.nextbno \in Nat
  BY <1>1, PtrNat DEF Kept, Image
<1> QED BY <1>1, <1>2, Sizes DEF Kept, Block

LEMMA SameTree ==
  ASSUME NEW d, NEW e, Kept(d), SamePtrs(d, e)
  PROVE  \A g \in Place : \A i \in 0..(NINDIRECT - 1) : block_of(e, g, i) = block_of(d, g, i)
<1> SUFFICES ASSUME NEW g \in Place, NEW i \in 0..(NINDIRECT - 1)
             PROVE  block_of(e, g, i) = block_of(d, g, i)
  OBVIOUS
<1>1. i < NDIRECT => Ptr(e, DirectAt(g, i)) = Ptr(d, DirectAt(g, i))
  <2>1. i < NDIRECT => i \in 0..(NDIRECT - 1)
    BY Sizes
  <2> QED BY <2>1, PtrIn DEF SamePtrs
<1>2. Ptr(e, IndirectAt(g)) = Ptr(d, IndirectAt(g))
  BY PtrIn DEF SamePtrs
<1>3. Ptr(d, IndirectAt(g)) # 0 =>
        Ptr(e, IndexAt(Ptr(d, IndirectAt(g)), i)) = Ptr(d, IndexAt(Ptr(d, IndirectAt(g)), i))
  BY IndirectBlock, PtrIn DEF SamePtrs
<1> QED BY <1>1, <1>2, <1>3, BlockOf

\* Taking a block that nothing points to yet.
LEMMA TakeBlock ==
  ASSUME NEW d, Kept(d), Unused(d), NEW type \in {"BLOCK_INDEX", "BLOCK_FILE", "BLOCK_DATA"},
         NEW e, e = next_block(d, type), e.nextbno <= NBLOCK
  PROVE  /\ Kept(e) /\ Unused(e) /\ SameInfo(d, e) /\ SamePtrs(d, e) /\ e.assert = d.assert
         /\ e.nextbno = d.nextbno + 1 /\ d.nextbno \in Block /\ NoPtr(e, d.nextbno)
         /\ d.nextbno >= first_block /\ d.nextbno # 0
         /\ \A i \in 0..(NINDIRECT - 1) : Ptr(e, IndexAt(d.nextbno, i)) = 0
<1>1. d \in Image /\ d.nextbno \in Nat /\ first_block \in Nat /\ NBLOCK \in Nat /\ first_block > 0
  BY Bitmap, Sizes DEF Kept, Image, first_block
<1>2. e \in Image /\ e.nextbno = d.nextbno + 1 /\ e.assert = d.assert /\ SameFiles(d, e)
  BY <1>1, NextBlockSpec
<1>3. SamePtrs(d, e) /\ SameInfo(d, e) /\ \A g \in Place : File(e, g) = File(d, g)
  BY <1>2, FilesSame
<1>4. Kept(e)
  BY <1>1, <1>2, <1>3, KeptSame
<1>5. d.nextbno \in Block /\ d.nextbno >= first_block /\ d.nextbno # 0
  BY <1>1, <1>2 DEF Kept, Block
<1>6. NoPtr(e, d.nextbno)
  <2>1. \A p \in Ptrs : Ptr(d, p) # 0 => Ptr(d, p) < d.nextbno
    BY DEF Kept
  <2> QED BY <1>1, <1>3, <1>5, <2>1, PtrNat DEF SamePtrs, NoPtr
<1>7. \A b \in Block : \A i \in 0..(NINDIRECT - 1) : b >= d.nextbno => Ptr(e, IndexAt(b, i)) = 0
  BY <1>3, PtrIn DEF Unused, SamePtrs
<1>8. Unused(e)
  <2>1. \A f \in Place : File(e, f).f_name = "" =>
          /\ File(e, f).f_size = 0 /\ Ptr(e, IndirectAt(f)) = 0
          /\ \A i \in 0..(NDIRECT - 1) : Ptr(e, DirectAt(f, i)) = 0
    BY <1>3, PtrIn DEF Unused, SamePtrs
  <2>2. \A b \in Block : b >= e.nextbno => b >= d.nextbno
    BY <1>1, <1>2 DEF Block
  <2>3. \A f \in Place : f[1] >= e.nextbno => File(e, f).f_name = ""
    BY <1>3, <2>2, Places DEF Unused
  <2> QED BY <1>7, <2>1, <2>2, <2>3 DEF Unused
<1>9. \A i \in 0..(NINDIRECT - 1) : Ptr(e, IndexAt(d.nextbno, i)) = 0
  BY <1>1, <1>5, <1>7
<1> QED BY <1>2, <1>3, <1>4, <1>5, <1>6, <1>8, <1>9

\* A pointer of a File that has a name, or of a block that was taken, is set.
LEMMA UnusedSet ==
  ASSUME NEW d, Unused(d), NEW e, e.nextbno = d.nextbno, SameInfo(d, e), NEW p \in Ptrs, NEW v,
         SetPtr(d, e, p, v),
         \/ \E f \in Place, i \in 0..(NDIRECT - 1) : p = DirectAt(f, i) /\ File(d, f).f_name # ""
         \/ \E f \in Place : p = IndirectAt(f) /\ File(d, f).f_name # ""
         \/ \E b \in Block, i \in 0..(NINDIRECT - 1) : p = IndexAt(b, i) /\ ~(b >= d.nextbno)
  PROVE  Unused(e)
<1>1. ASSUME NEW f \in Place, File(e, f).f_name = ""
      PROVE  /\ File(e, f).f_size = 0 /\ Ptr(e, IndirectAt(f)) = 0
             /\ \A i \in 0..(NDIRECT - 1) : Ptr(e, DirectAt(f, i)) = 0
  <2>1. File(d, f).f_name = "" /\ File(e, f).f_size = File(d, f).f_size
    BY <1>1 DEF SameInfo
  <2>2. p # IndirectAt(f)
    <3>1. \A g \in Place : IndirectAt(g) = IndirectAt(f) => g = f
      BY PtrsDiffer, Zenon
    <3>2. \A g, i : DirectAt(g, i) # IndirectAt(f)
      BY PtrsDiffer, Zenon
    <3>3. \A b, i : IndexAt(b, i) # IndirectAt(f)
      BY PtrsDiffer, Zenon
    <3> QED BY <2>1, <3>1, <3>2, <3>3, Zenon
  <2>3. ASSUME NEW i \in 0..(NDIRECT - 1)
        PROVE  p # DirectAt(f, i)
    <3>1. \A g \in Place : \A j : DirectAt(g, j) = DirectAt(f, i) => g = f
      BY PtrsDiffer, Zenon
    <3>2. \A g : IndirectAt(g) # DirectAt(f, i)
      BY PtrsDiffer, Zenon
    <3>3. \A b, j : IndexAt(b, j) # DirectAt(f, i)
      BY PtrsDiffer, Zenon
    <3> QED BY <2>1, <3>1, <3>2, <3>3, Zenon
  <2> QED BY <2>1, <2>2, <2>3, PtrIn DEF Unused, SetPtr
<1>2. \A f \in Place : f[1] >= e.nextbno => File(e, f).f_name = ""
  BY DEF Unused, SameInfo
<1>3. ASSUME NEW b \in Block, NEW i \in 0..(NINDIRECT - 1), b >= e.nextbno
      PROVE  Ptr(e, IndexAt(b, i)) = 0
  <2>1. p # IndexAt(b, i)
    <3>1. \A c, j : IndexAt(c, j) = IndexAt(b, i) => c = b
      BY DEF IndexAt
    <3>2. \A g, j : DirectAt(g, j) # IndexAt(b, i)
      BY DEF DirectAt, IndexAt
    <3>3. \A g : IndirectAt(g) # IndexAt(b, i)
      BY PtrsDiffer, Zenon
    <3> QED BY <1>3, <3>1, <3>2, <3>3, Zenon
  <2> QED BY <1>3, <2>1, PtrIn DEF Unused, SetPtr
<1> QED BY <1>1, <1>2, <1>3 DEF Unused

LEMMA Next1 ==
  /\ \A x \in Nat : x <= x /\ x <= x + 1 /\ x < x + 1 /\ x + 1 \in Nat
  /\ \A x, y \in Nat : y < x => x # y
OBVIOUS

HasName(d, f) == File(d, f).f_name # ""

\* A File with a name gets an indirect block; nothing else changes.
LEMMA WithIndirect ==
  ASSUME NEW d, Kept(d), Unused(d), NEW f \in Place, HasName(d, f),
         NEW e, e = with_indirect(d, f), e.nextbno <= NBLOCK
  PROVE  /\ Kept(e) /\ Unused(e) /\ SameInfo(d, e) /\ e.assert = d.assert
         /\ d.nextbno <= e.nextbno /\ Ptr(e, IndirectAt(f)) # 0
         /\ \A v \in Nat : v < d.nextbno /\ NoPtr(d, v) => NoPtr(e, v)
         /\ \A g \in Place : \A i \in 0..(NINDIRECT - 1) : block_of(e, g, i) = block_of(d, g, i)
<1>0. d \in Image /\ d.nextbno \in Nat
  BY DEF Kept, Image
<1>i. Ptr(d, IndirectAt(f)) = File(d, f).f_indirect
  BY IndirectValue
<1>1. CASE File(d, f).f_indirect # 0
  <2>1. e = d
    BY <1>1 DEF with_indirect
  <2>2. SameInfo(d, d)
    BY DEF SameInfo
  <2>3. Ptr(d, IndirectAt(f)) # 0 /\ d.nextbno <= d.nextbno
    BY <1>0, <1>1, <1>i, Next1, Zenon
  <2>4. \A g \in Place : \A i \in 0..(NINDIRECT - 1) : block_of(e, g, i) = block_of(d, g, i)
    BY <2>1, Zenon
  <2>5. \A v \in Nat : v < d.nextbno /\ NoPtr(d, v) => NoPtr(e, v)
    BY <2>1, Zenon
  <2>6. /\ Kept(e) /\ Unused(e) /\ SameInfo(d, e) /\ e.assert = d.assert
        /\ d.nextbno <= e.nextbno /\ Ptr(e, IndirectAt(f)) # 0
    BY <2>1, <2>2, <2>3, Zenon
  <2> QED BY <2>4, <2>5, <2>6, Zenon
<1>2. CASE File(d, f).f_indirect = 0
  <2> DEFINE n == next_block(d, "BLOCK_INDEX")
             v == d.nextbno
             rec == [File(d, f) EXCEPT !.f_indirect = v]
             p == IndirectAt(f)
  <2>1. e = SetFile(n, f, rec)
    BY <1>2 DEF with_indirect
  <2>2. File(d, f) \in FileRec
    BY <1>0, FileType DEF Place
  <2>3. /\ rec \in FileRec /\ rec.f_indirect = v /\ rec.f_direct = File(d, f).f_direct
        /\ rec.f_name = File(d, f).f_name /\ rec.f_size = File(d, f).f_size
        /\ rec.f_type = File(d, f).f_type
    BY <1>0, <2>2 DEF FileRec
  <2>4. n \in Image /\ n.nextbno = d.nextbno + 1 /\ SameFiles(d, n)
    BY <1>0, NextBlockSpec
  <2> HIDE DEF rec, n
  <2>5. SamePtrs(d, n) /\ SameInfo(d, n) /\ \A g \in Place : File(n, g) = File(d, g)
    BY <2>4, FilesSame
  <2>6. /\ e \in Image /\ e.nextbno = n.nextbno /\ e.assert = n.assert
        /\ SetPtr(n, e, p, v) /\ \A g \in Place : File(e, g) = IF g = f THEN rec ELSE File(n, g)
    <3>1. rec.f_direct = File(n, f).f_direct
      BY <2>3, <2>5
    <3>2. FileSet(n, e, f, rec) /\ SetPtr(n, e, p, v)
      BY <1>0, <2>1, <2>3, <2>4, <3>1, SetIndirect
    <3> QED BY <3>2 DEF FileSet
  <2>7. n.nextbno <= NBLOCK
    BY <2>6
  <2>8. /\ Kept(n) /\ Unused(n) /\ n.assert = d.assert /\ v \in Block /\ NoPtr(n, v)
        /\ v >= first_block /\ v # 0 /\ \A i \in 0..(NINDIRECT - 1) : Ptr(n, IndexAt(v, i)) = 0
    BY <2>7, TakeBlock DEF n
  <2>9. p \in Ptrs
    BY PtrIn
  <2>10. Kept(e)
    <3>1. e.nextbno = v + 1 /\ n.nextbno = e.nextbno
      BY <2>4, <2>6, Zenon
    <3>2. v \in Nat
      BY <1>0
    <3> HIDE DEF v, p
    <3>3. n.nextbno <= e.nextbno /\ v < e.nextbno
      BY <3>1, <3>2, Next1, Zenon
    <3> QED BY <2>6, <2>8, <2>9, <3>2, <3>3, KeptSet
  <2>11. SameInfo(n, e) /\ SameInfo(d, e)
    BY <2>3, <2>5, <2>6 DEF SameInfo
  <2>12. Unused(e)
    <3>1. File(n, f).f_name # ""
      BY <2>5 DEF HasName
    <3> QED BY <2>6, <2>8, <2>9, <2>11, <3>1, UnusedSet
  <2>13. Ptr(e, p) = v
    BY <2>6, <2>9 DEF SetPtr
  <2>14. ASSUME NEW w \in Nat, w < d.nextbno, NoPtr(d, w)
         PROVE  NoPtr(e, w)
    <3>1. \A q \in Ptrs : Ptr(e, q) = v \/ Ptr(e, q) = Ptr(d, q)
      BY <2>5, <2>6 DEF SetPtr, SamePtrs
    <3>3. v # w
      BY <1>0, <2>14, Next1, Zenon
    <3> HIDE DEF v
    <3> QED BY <2>14, <3>1, <3>3 DEF NoPtr
  <2>15. ASSUME NEW g \in Place, NEW i \in 0..(NINDIRECT - 1)
         PROVE  block_of(e, g, i) = block_of(d, g, i)
    <3>1. i < NDIRECT => Ptr(e, DirectAt(g, i)) = Ptr(d, DirectAt(g, i))
      <4>1. DirectAt(g, i) # p
        BY PtrsDiffer, Zenon
      <4>2. i < NDIRECT => DirectAt(g, i) \in Ptrs
        BY DirectIndex
      <4> QED BY <2>5, <2>6, <4>1, <4>2 DEF SetPtr, SamePtrs
    <3>2. \A b \in Block : Ptr(e, IndexAt(b, i)) = Ptr(d, IndexAt(b, i))
      <4>1. \A b \in Block : IndexAt(b, i) # p /\ IndexAt(b, i) \in Ptrs
        BY PtrsDiffer, PtrIn
      <4> QED BY <2>5, <2>6, <4>1 DEF SetPtr, SamePtrs
    <3>3. CASE g # f
      <4>1. IndirectAt(g) # p /\ IndirectAt(g) \in Ptrs
        BY <3>3, PtrsDiffer, PtrIn
      <4>2. Ptr(e, IndirectAt(g)) = Ptr(d, IndirectAt(g))
        BY <2>5, <2>6, <4>1 DEF SetPtr, SamePtrs
      <4>3. Ptr(d, IndirectAt(g)) # 0 => Ptr(d, IndirectAt(g)) \in Block
        BY IndirectBlock
      <4> QED BY <3>1, <3>2, <4>2, <4>3, BlockOf
    <3>4. CASE g = f
      <4>1. Ptr(d, IndirectAt(g)) = 0 /\ Ptr(e, IndirectAt(g)) = v
        BY <1>2, <1>i, <2>13, <3>4
      <4>2. Ptr(e, IndexAt(v, i)) = 0
        <5>1. IndexAt(v, i) \in Ptrs
          BY <2>8, PtrIn
        <5> QED BY <2>5, <2>8, <3>2, <5>1 DEF SamePtrs
      <4> QED BY <2>8, <3>1, <4>1, <4>2, BlockOf
    <3> QED BY <3>3, <3>4
  <2>16. d.nextbno <= e.nextbno /\ e.assert = d.assert
    <3>1. e.nextbno = d.nextbno + 1 /\ e.assert = d.assert
      BY <2>4, <2>6, <2>8, Zenon
    <3> QED BY <1>0, <3>1, Next1, Zenon
  <2> QED BY <2>8, <2>10, <2>11, <2>12, <2>13, <2>14, <2>15, <2>16
<1> QED BY <1>1, <1>2

\* The n-th block of f changes, and no other block of a file.
BlockSet(d, e, f, n, v) ==
  \A g \in Place : \A i \in 0..(NINDIRECT - 1) :
    block_of(e, g, i) = IF g = f /\ i = n THEN v ELSE block_of(d, g, i)

LEMMA DirectTree ==
  ASSUME NEW d, NEW e, Kept(d), NEW f \in Place, NEW n \in 0..(NDIRECT - 1), NEW v,
         SetPtr(d, e, DirectAt(f, n), v)
  PROVE  BlockSet(d, e, f, n, v)
<1> SUFFICES ASSUME NEW g \in Place, NEW i \in 0..(NINDIRECT - 1)
             PROVE  block_of(e, g, i) = IF g = f /\ i = n THEN v ELSE block_of(d, g, i)
  BY DEF BlockSet
<1>1. Ptr(e, IndirectAt(g)) = Ptr(d, IndirectAt(g))
  <2>1. IndirectAt(g) # DirectAt(f, n)
    BY PtrsDiffer, Zenon
  <2> QED BY <2>1, PtrIn DEF SetPtr
<1>2. \A b \in Block : Ptr(e, IndexAt(b, i)) = Ptr(d, IndexAt(b, i))
  <2>1. \A b \in Block : IndexAt(b, i) # DirectAt(f, n) /\ IndexAt(b, i) \in Ptrs
    BY PtrsDiffer, PtrIn
  <2> QED BY <2>1 DEF SetPtr
<1>3. CASE i < NDIRECT
  <2>1. DirectAt(g, i) \in Ptrs
    BY <1>3, DirectIndex
  <2>2. DirectAt(g, i) = DirectAt(f, n) <=> g = f /\ i = n
    BY PtrsDiffer, Zenon
  <2>3. block_of(e, g, i) = Ptr(e, DirectAt(g, i)) /\ block_of(d, g, i) = Ptr(d, DirectAt(g, i))
    BY <1>3, BlockOf
  <2> QED BY <2>1, <2>2, <2>3 DEF SetPtr
<1>4. CASE ~(i < NDIRECT)
  <2>1. i # n
    BY <1>4, Sizes
  <2>2. Ptr(d, IndirectAt(g)) # 0 => Ptr(d, IndirectAt(g)) \in Block
    BY IndirectBlock
  <2>3. block_of(e, g, i) = block_of(d, g, i)
    BY <1>1, <1>2, <1>4, <2>2, BlockOf
  <2> QED BY <2>1, <2>3
<1> QED BY <1>3, <1>4

LEMMA IndexTree ==
  ASSUME NEW d, NEW e, Kept(d), NEW f \in Place, NEW n \in 0..(NINDIRECT - 1), ~(n < NDIRECT), NEW v,
         NEW x, x = Ptr(d, IndirectAt(f)), x # 0, SetPtr(d, e, IndexAt(x, n), v)
  PROVE  BlockSet(d, e, f, n, v)
<1> SUFFICES ASSUME NEW g \in Place, NEW i \in 0..(NINDIRECT - 1)
             PROVE  block_of(e, g, i) = IF g = f /\ i = n THEN v ELSE block_of(d, g, i)
  BY DEF BlockSet
<1> DEFINE y == Ptr(d, IndirectAt(g))
<1>1. Ptr(e, IndirectAt(g)) = y
  <2>1. IndirectAt(g) # IndexAt(x, n)
    BY DEF DirectAt, IndirectAt, IndexAt
  <2> QED BY <2>1, PtrIn DEF SetPtr
<1>2. CASE i < NDIRECT
  <2>1. DirectAt(g, i) \in Ptrs /\ i # n
    BY <1>2, DirectIndex
  <2>2. DirectAt(g, i) # IndexAt(x, n)
    BY DEF DirectAt, IndirectAt, IndexAt
  <2>3. block_of(e, g, i) = Ptr(e, DirectAt(g, i)) /\ block_of(d, g, i) = Ptr(d, DirectAt(g, i))
    BY <1>2, BlockOf
  <2> QED BY <2>1, <2>2, <2>3 DEF SetPtr
<1>3. CASE ~(i < NDIRECT) /\ y = 0
  <2>1. g # f
    BY <1>3
  <2>2. block_of(e, g, i) = 0 /\ block_of(d, g, i) = 0
    BY <1>1, <1>3, BlockOf
  <2> QED BY <2>1, <2>2
<1>4. CASE ~(i < NDIRECT) /\ y # 0
  <2>1. y \in Block /\ IndexAt(y, i) \in Ptrs
    BY <1>4, IndirectBlock, PtrIn
  <2>2. y = x <=> g = f
    <3>1. y = x => IndirectAt(g) = IndirectAt(f)
      BY <1>4, PtrIn DEF Kept
    <3>2. IndirectAt(g) = IndirectAt(f) => g = f
      BY PtrsDiffer, Zenon
    <3> QED BY <3>1, <3>2
  <2>3. IndexAt(y, i) = IndexAt(x, n) <=> y = x /\ i = n
    BY DEF IndexAt
  <2>4. block_of(e, g, i) = Ptr(e, IndexAt(y, i)) /\ block_of(d, g, i) = Ptr(d, IndexAt(y, i))
    <3> HIDE DEF y
    <3>1. block_of(e, g, i) = Ptr(e, IndexAt(y, i))
      BY <1>1, <1>4, BlockOf
    <3>2. block_of(d, g, i) = Ptr(d, IndexAt(y, i))
      BY <1>4, BlockOf DEF y
    <3> QED BY <3>1, <3>2
  <2> HIDE DEF y
  <2> QED BY <2>1, <2>2, <2>3, <2>4 DEF SetPtr
<1> QED BY <1>2, <1>3, <1>4

Fits(e) == e.nextbno <= NBLOCK

\* A block that was taken and that nothing points to.
Fresh(d, bno) == bno \in Nat /\ first_block <= bno /\ bno < d.nextbno /\ NoPtr(d, bno)

\* What save_block_link does to a File that has a name.
Linked(d, e, f, n, bno) ==
  /\ Kept(e) /\ Unused(e) /\ SameInfo(d, e) /\ d.nextbno <= e.nextbno
  /\ n >= NINDIRECT => ~e.assert /\ \A g \in Place : \A i \in 0..(NINDIRECT - 1) :
                                      block_of(e, g, i) = block_of(d, g, i)
  /\ ~(n >= NINDIRECT) => e.assert = d.assert /\ BlockSet(d, e, f, n, bno)

LEMMA LinkSpec ==
  ASSUME NEW d, Kept(d), Unused(d), NEW f \in Place, HasName(d, f),
         NEW n \in Nat, NEW bno, Fresh(d, bno),
         NEW e, e = save_block_link(d, f, n, bno), Fits(e)
  PROVE  Linked(d, e, f, n, bno)
<1>0. d \in Image /\ d.nextbno \in Nat
  BY DEF Kept, Image
<1>b. bno \in Nat /\ first_block <= bno /\ bno < d.nextbno /\ NoPtr(d, bno)
  BY DEF Fresh
<1>f. e.nextbno <= NBLOCK
  BY DEF Fits
<1>1. CASE n >= NINDIRECT
  <2>1. e = [d EXCEPT !.assert = FALSE]
    <3>1. ~(n < NDIRECT)
      BY <1>1, Sizes
    <3> QED BY <1>1, <3>1, Zenon DEF save_block_link
  <2>2. e \in Image /\ e.nextbno = d.nextbno /\ ~e.assert /\ e.blk = d.blk
    BY <1>0, <2>1 DEF Image
  <2>3. SameFiles(d, e)
    BY <2>2 DEF SameFiles
  <2>4. SamePtrs(d, e) /\ SameInfo(d, e) /\ \A g \in Place : File(e, g) = File(d, g)
    BY <2>3, FilesSame
  <2>5. d.nextbno <= e.nextbno
    BY <1>0, <2>2, Next1, Zenon
  <2>6. Kept(e)
    BY <1>f, <2>2, <2>4, <2>5, KeptSame
  <2>7. Unused(e)
    BY <2>2, <2>4, PtrIn DEF Unused, SamePtrs
  <2>8. \A g \in Place : \A i \in 0..(NINDIRECT - 1) : block_of(e, g, i) = block_of(d, g, i)
    BY <2>4, SameTree
  <2> QED BY <1>1, <2>2, <2>4, <2>5, <2>6, <2>7, <2>8 DEF Linked
<1>2. CASE ~(n >= NINDIRECT) /\ n < NDIRECT
  <2>1. n \in 0..(NDIRECT - 1) /\ DirectAt(f, n) \in Ptrs
    BY <1>2, Sizes, PtrIn
  <2>2. e = SetFile(d, f, [File(d, f) EXCEPT !.f_direct[n] = bno])
    BY <1>2 DEF save_block_link
  <2>3. Written(d, e) /\ SetPtr(d, e, DirectAt(f, n), bno)
    BY <1>0, <1>b, <2>1, <2>2, SetDirect
  <2>4. e \in Image /\ e.nextbno = d.nextbno /\ e.assert = d.assert /\ SameInfo(d, e)
    BY <2>3 DEF Written
  <2>5. d.nextbno <= e.nextbno
    BY <1>0, <2>4, Next1, Zenon
  <2>6. Kept(e)
    <3>1. bno < e.nextbno
      BY <1>b, <2>4
    <3> QED BY <1>b, <1>f, <2>1, <2>3, <2>4, <2>5, <3>1, KeptSet
  <2>7. Unused(e)
    BY <2>1, <2>3, <2>4, UnusedSet DEF HasName
  <2>8. BlockSet(d, e, f, n, bno)
    BY <2>1, <2>3, DirectTree
  <2> QED BY <1>2, <2>4, <2>5, <2>6, <2>7, <2>8 DEF Linked
<1>3. CASE ~(n >= NINDIRECT) /\ ~(n < NDIRECT)
  <2> DEFINE w == with_indirect(d, f)
             x == File(w, f).f_indirect
  <2>1. n \in 0..(NINDIRECT - 1)
    BY <1>3, Sizes
  <2>2. e = SetIndex(w, x, n, bno)
    BY <1>3 DEF save_block_link, with_indirect, SetIndex
  <2>3. w \in Image
    BY <1>0, IndirectGrown DEF Grown
  <2>n. e.nextbno = w.nextbno /\ e.assert = w.assert
    <3> HIDE DEF w, x
    <3>1. /\ SetIndex(w, x, n, bno).nextbno = w.nextbno
          /\ SetIndex(w, x, n, bno).assert = w.assert
      BY <1>b, <2>3, SetIndexSpec
    <3> QED BY <2>2, <3>1, Zenon
  <2>4. /\ Kept(w) /\ Unused(w) /\ SameInfo(d, w) /\ w.assert = d.assert
        /\ d.nextbno <= w.nextbno /\ Ptr(w, IndirectAt(f)) # 0
        /\ NoPtr(w, bno)
        /\ \A g \in Place : \A i \in 0..(NINDIRECT - 1) : block_of(w, g, i) = block_of(d, g, i)
    <3>1. w.nextbno <= NBLOCK
      BY <1>f, <2>n
    <3> HIDE DEF w
    <3>2. w = with_indirect(d, f)
      BY DEF w
    <3> QED BY <1>b, <3>1, <3>2, WithIndirect
  <2>5. x = Ptr(w, IndirectAt(f))
    BY IndirectValue
  <2> HIDE DEF w, x
  <2>6. x # 0 /\ x \in Block /\ x < w.nextbno
    BY <2>4, <2>5, IndirectBlock
  <2>7. Written(w, e) /\ SetPtr(w, e, IndexAt(x, n), bno)
    BY <1>b, <2>1, <2>2, <2>3, <2>6, SetIndexed
  <2>8. e \in Image /\ e.nextbno = w.nextbno /\ SameInfo(w, e)
    BY <2>7 DEF Written
  <2>9. IndexAt(x, n) \in Ptrs
    BY <2>1, <2>6, PtrIn
  <2>10. w.nextbno \in Nat /\ w.nextbno <= e.nextbno /\ bno < e.nextbno
    <3>1. w.nextbno \in Nat
      BY <2>3 DEF Image
    <3> QED BY <1>0, <1>b, <2>4, <2>8, <3>1
  <2>11. Kept(e)
    BY <1>b, <1>f, <2>4, <2>7, <2>8, <2>9, <2>10, KeptSet
  <2>12. ~(x >= w.nextbno)
    BY <2>6, <2>10 DEF Block
  <2>13. Unused(e)
    BY <2>1, <2>4, <2>6, <2>7, <2>8, <2>9, <2>12, UnusedSet DEF HasName
  <2>14. BlockSet(w, e, f, n, bno)
    BY <1>3, <2>1, <2>4, <2>5, <2>6, <2>7, IndexTree
  <2>15. BlockSet(d, e, f, n, bno)
    BY <2>4, <2>14 DEF BlockSet
  <2>16. SameInfo(d, e)
    BY <2>4, <2>8 DEF SameInfo
  <2>17. d.nextbno <= e.nextbno /\ e.assert = d.assert
    BY <2>4, <2>8, <2>n
  <2> QED BY <1>3, <2>11, <2>13, <2>15, <2>16, <2>17 DEF Linked
<1> QED BY <1>1, <1>2, <1>3

\* What the loop of write_file does for the i-th block.
Copied(d, e, f, i) ==
  /\ Kept(e) /\ Unused(e) /\ SameInfo(d, e) /\ d.nextbno <= e.nextbno
  /\ e.assert => d.assert /\ i < NINDIRECT /\ \E v \in Nat : v # 0 /\ BlockSet(d, e, f, i, v)

\* The pointers and Files of an image with other contents or another type of a block.
LEMMA SameContents ==
  ASSUME NEW d, Kept(d), Unused(d), NEW e \in Image, e.nextbno = d.nextbno, SameFiles(d, e)
  PROVE  Kept(e) /\ Unused(e) /\ SameInfo(d, e) /\ SamePtrs(d, e)
<1>1. SamePtrs(d, e) /\ SameInfo(d, e) /\ \A g \in Place : File(e, g) = File(d, g)
  BY FilesSame
<1>2. d.nextbno \in Nat /\ d.nextbno <= NBLOCK
  BY DEF Kept, Image
<1>3. d.nextbno <= e.nextbno /\ e.nextbno <= NBLOCK
  BY <1>2, Next1
<1>4. Kept(e)
  BY <1>1, <1>3, KeptSame
<1>5. Unused(e)
  BY <1>1, PtrIn DEF Unused, SamePtrs
<1> QED BY <1>1, <1>4, <1>5

\* A block is taken for a file or directory and linked to it.
LEMMA TakeAndLink ==
  ASSUME NEW d, Kept(d), Unused(d), NEW f \in Place, HasName(d, f),
         NEW type \in {"BLOCK_FILE", "BLOCK_DATA"}, NEW i \in Nat,
         NEW e, e = save_block_link(next_block(d, type), f, i, d.nextbno), Fits(e)
  PROVE  Copied(d, e, f, i) /\ d.nextbno < e.nextbno /\ d.nextbno \in Block
<1> DEFINE t == next_block(d, type)
<1>0. d \in Image /\ d.nextbno \in Nat
  BY DEF Kept, Image
<1>1. t \in Image /\ t.nextbno = d.nextbno + 1
  BY <1>0, NextBlockSpec
<1>2. e \in Image /\ e.nextbno >= t.nextbno
  BY <1>0, <1>1, LinkGrown DEF Grown
<1>3. t.nextbno <= NBLOCK
  <2>1. e.nextbno \in Nat /\ t.nextbno \in Nat /\ NBLOCK \in Nat /\ e.nextbno <= NBLOCK
    BY <1>1, <1>2, Sizes DEF Image, Fits
  <2> HIDE DEF t
  <2> QED BY <1>2, <2>1
<1>4. /\ Kept(t) /\ Unused(t) /\ SameInfo(d, t) /\ SamePtrs(d, t) /\ t.assert = d.assert
      /\ d.nextbno \in Block /\ NoPtr(t, d.nextbno)
      /\ d.nextbno >= first_block /\ d.nextbno # 0
  <2> HIDE DEF t
  <2>1. t = next_block(d, type)
    BY DEF t
  <2> QED BY <1>3, <2>1, TakeBlock
<1> HIDE DEF t
<1>5. Fresh(t, d.nextbno)
  <2>1. first_block \in Nat
    BY Bitmap DEF first_block
  <2>2. first_block <= d.nextbno /\ d.nextbno < t.nextbno
    BY <1>0, <1>1, <1>4, <2>1, Next1
  <2> QED BY <1>0, <1>4, <2>2 DEF Fresh
<1>6. HasName(t, f)
  BY <1>4 DEF HasName, SameInfo
<1>7. Linked(t, e, f, i, d.nextbno)
  <2>1. e = save_block_link(t, f, i, d.nextbno)
    BY DEF t
  <2> QED BY <1>4, <1>5, <1>6, <2>1, LinkSpec
<1>8. SameInfo(d, e)
  BY <1>4, <1>7 DEF Linked, SameInfo
<1>9. d.nextbno < e.nextbno /\ d.nextbno <= e.nextbno
  BY <1>0, <1>1, <1>2 DEF Image
<1>10. ASSUME e.assert
       PROVE  d.assert /\ i < NINDIRECT /\ \E v \in Nat : v # 0 /\ BlockSet(d, e, f, i, v)
  <2>1. ~(i >= NINDIRECT)
    BY <1>7, <1>10 DEF Linked
  <2>2. i < NINDIRECT
    BY <2>1, Sizes
  <2>3. d.assert /\ BlockSet(t, e, f, i, d.nextbno)
    BY <1>4, <1>7, <1>10, <2>1, Zenon DEF Linked
  <2>4. \A g \in Place : \A j \in 0..(NINDIRECT - 1) : block_of(t, g, j) = block_of(d, g, j)
    BY <1>4, SameTree
  <2>5. BlockSet(d, e, f, i, d.nextbno)
    BY <2>3, <2>4 DEF BlockSet
  <2> QED BY <1>0, <1>4, <2>2, <2>3, <2>5
<1> QED BY <1>4, <1>7, <1>8, <1>9, <1>10 DEF Linked, Copied

LEMMA CopySpec ==
  ASSUME NEW d, Kept(d), Unused(d), NEW f \in Place, HasName(d, f),
         NEW path \in Seq(Names), NEW i \in Nat,
         NEW e, e = copy_block(d, f, path, i), Fits(e)
  PROVE  Copied(d, e, f, i)
<1>0. d \in Image /\ d.nextbno \in Nat
  BY DEF Kept, Image
<1>1. CASE ~d.assert
  <2>1. e = d
    BY <1>1 DEF copy_block
  <2>2. SameInfo(d, d) /\ d.nextbno <= d.nextbno
    BY <1>0, Next1 DEF SameInfo
  <2> QED BY <1>1, <2>1, <2>2, Zenon DEF Copied
<1>2. CASE d.assert
  <2> DEFINE r == SetData(d, d.nextbno, <<path, i>>)
  <2>1. e = save_block_link(next_block(r, "BLOCK_DATA"), f, i, d.nextbno)
    BY <1>2 DEF copy_block, SetData
  <2>2. <<path, i>> \in Seq(Names) \X Nat
    OBVIOUS
  <2>3. r \in Image /\ r.nextbno = d.nextbno /\ r.assert = d.assert /\ SameFiles(d, r)
    BY <1>0, <2>2, SetDataSpec
  <2> HIDE DEF r
  <2>4. Kept(r) /\ Unused(r) /\ SameInfo(d, r) /\ SamePtrs(d, r)
    BY <2>3, SameContents
  <2>5. HasName(r, f)
    BY <2>4 DEF SameInfo, HasName
  <2>6. Copied(r, e, f, i)
    <3>1. e = save_block_link(next_block(r, "BLOCK_DATA"), f, i, r.nextbno)
      BY <2>1, <2>3, Zenon
    <3> QED BY <2>4, <2>5, <3>1, TakeAndLink
  <2>7. \A g \in Place : \A j \in 0..(NINDIRECT - 1) : block_of(r, g, j) = block_of(d, g, j)
    BY <2>4, SameTree
  <2>8. \A v : BlockSet(r, e, f, i, v) => BlockSet(d, e, f, i, v)
    BY <2>7 DEF BlockSet
  <2>9. SameInfo(d, e)
    BY <2>4, <2>6 DEF Copied, SameInfo
  <2> QED BY <2>3, <2>6, <2>8, <2>9, Zenon DEF Copied
<1> QED BY <1>1, <1>2

-----------------------------------------------------------------------------
(***************************************************************************)
(* Format: what fsformat has written.  No block is missing from a file,    *)
(* unless it failed, and directories consist of whole blocks.              *)
(***************************************************************************)

NamedRec(rec) == rec.f_name # ""
IsDir(d, f) == File(d, f).f_type = "FTYPE_DIR"
DirSet(d) == {f \in Place : HasName(d, f) /\ IsDir(d, f)}

SameBlocks(d, e, g) == \A i \in 0..(NINDIRECT - 1) : block_of(e, g, i) = block_of(d, g, i)

Complete(d, f) ==
  \A i \in 0..(CeilDiv(File(d, f).f_size, BY2BLK) - 1) : i < NINDIRECT /\ block_of(d, f, i) # 0

DirSizes(d) == \A f \in Place : IsDir(d, f) => File(d, f).f_size % BY2BLK = 0

Format(d) ==
  /\ Kept(d) /\ Unused(d) /\ DirSizes(d)
  /\ d.assert => \A f \in Place : Complete(d, f)

LEMMA SizeType ==
  ASSUME NEW d \in Image, NEW f \in Place
  PROVE  File(d, f) \in FileRec /\ File(d, f).f_size \in Nat
BY FileType DEF FileRec, Place

LEMMA CompleteSame ==
  ASSUME NEW d \in Image, NEW e, NEW f \in Place, Complete(d, f),
         File(e, f).f_size = File(d, f).f_size, SameBlocks(d, e, f)
  PROVE  Complete(e, f)
<1>1. CeilDiv(File(d, f).f_size, BY2BLK) \in Nat
  BY SizeType, Blocks
<1>2. ASSUME NEW i \in 0..(CeilDiv(File(d, f).f_size, BY2BLK) - 1)
      PROVE  i < NINDIRECT /\ block_of(e, f, i) # 0
  <2>1. i < NINDIRECT /\ block_of(d, f, i) # 0
    BY DEF Complete
  <2>2. i \in 0..(NINDIRECT - 1)
    BY <1>1, <2>1, Sizes
  <2> QED BY <2>1, <2>2 DEF SameBlocks
<1> QED BY <1>2 DEF Complete

\* A File is named, or one that has a name gets another size or type.
InfoSet(d, e, f, rec) ==
  /\ Kept(e) /\ Unused(e) /\ e.nextbno = d.nextbno /\ e.assert = d.assert
  /\ \A g \in Place : SameBlocks(d, e, g)
  /\ \A g \in Place : File(e, g) = IF g = f THEN rec ELSE File(d, g)

LEMMA InfoSpec ==
  ASSUME NEW d, Kept(d), Unused(d), NEW f \in Place, f[1] < d.nextbno, NEW rec \in FileRec,
         rec.f_indirect = File(d, f).f_indirect, rec.f_direct = File(d, f).f_direct, NamedRec(rec)
  PROVE  InfoSet(d, SetFile(d, f, rec), f, rec)
<1> DEFINE e == SetFile(d, f, rec)
<1>0. d \in Image /\ d.nextbno \in Nat /\ d.nextbno <= NBLOCK /\ f[1] \in Nat
  BY Places DEF Kept, Image, Block
<1>1. FileSet(d, e, f, rec) /\ SamePtrs(d, e)
  BY <1>0, SetInfo
<1> HIDE DEF e
<1>2. /\ e \in Image /\ e.nextbno = d.nextbno /\ e.assert = d.assert
      /\ \A g \in Place : File(e, g) = IF g = f THEN rec ELSE File(d, g)
  BY <1>1 DEF FileSet
<1>3. d.nextbno <= e.nextbno /\ e.nextbno <= NBLOCK
  BY <1>0, <1>2, Next1
<1>4. Kept(e)
  BY <1>1, <1>2, <1>3, KeptSame
<1>5. Unused(e)
  <2>1. ~(f[1] >= e.nextbno)
    BY <1>0, <1>2
  <2>2. \A g \in Place : File(e, g).f_name = "" => g # f /\ File(e, g) = File(d, g)
    BY <1>2 DEF NamedRec
  <2>3. \A g \in Place : g[1] >= e.nextbno => g # f /\ File(e, g) = File(d, g)
    BY <1>2, <2>1
  <2> QED BY <1>1, <1>2, <2>2, <2>3, PtrIn DEF Unused, SamePtrs
<1>6. \A g \in Place : SameBlocks(d, e, g)
  BY <1>1, SameTree DEF SameBlocks
<1>7. InfoSet(d, e, f, rec)
  BY <1>2, <1>4, <1>5, <1>6 DEF InfoSet
<1> QED BY <1>7 DEF e

\* A File with a name lies in a block that was taken.
LEMMA NamedTaken ==
  ASSUME NEW d, Kept(d), Unused(d), NEW f \in Place, HasName(d, f)
  PROVE  f[1] < d.nextbno
<1>1. ~(f[1] >= d.nextbno)
  BY DEF Unused, HasName
<1>2. f[1] \in Nat /\ d.nextbno \in Nat
  BY Places DEF Kept, Image, Block
<1> QED BY <1>1, <1>2

\* One more block.
LEMMA OneMore ==
  ASSUME NEW size \in Nat, size % BY2BLK = 0
  PROVE  /\ CeilDiv(size, BY2BLK) = size \div BY2BLK /\ size \div BY2BLK \in Nat
         /\ CeilDiv(size + BY2BLK, BY2BLK) = size \div BY2BLK + 1
         /\ (size + BY2BLK) % BY2BLK = 0
<1>1. CeilDiv(size, BY2BLK) = size \div BY2BLK /\ size \div BY2BLK \in Nat
  BY Blocks
<1>2. PICK q \in Nat, r \in 0..(BY2BLK - 1) :
        q = size \div BY2BLK /\ r = size % BY2BLK /\ size = BY2BLK * q + r /\ BY2BLK * q \in Nat
  BY Sizes, Dividing
<1>3. size + BY2BLK = BY2BLK * (q + 1) + 0 /\ size + BY2BLK \in Nat
  <2>1. BY2BLK * (q + 1) = BY2BLK * q + BY2BLK
    BY Sizes
  <2> QED BY <1>2, <2>1, Sizes
<1>4. q + 1 = (size + BY2BLK) \div BY2BLK /\ 0 = (size + BY2BLK) % BY2BLK
  BY <1>3, Divided, Sizes
<1>5. CeilDiv(size + BY2BLK, BY2BLK) = (size + BY2BLK) \div BY2BLK
  BY <1>3, <1>4, Blocks
<1> QED BY <1>1, <1>2, <1>4, <1>5

\* Names and types stay.
SameNames(d, e) ==
  \A g \in Place : File(e, g).f_name = File(d, g).f_name /\ File(e, g).f_type = File(d, g).f_type

LEMMA LinkBlockSpec ==
  ASSUME NEW d, Format(d), NEW dirf \in DirSet(d), NEW n, n = File(d, dirf).f_size \div BY2BLK,
         NEW e, e = make_link_block(d, dirf, n), Fits(e)
  PROVE  /\ Format(e) /\ SameNames(d, e) /\ d.nextbno < e.nextbno /\ d.nextbno \in Block
<1>0. d \in Image /\ Kept(d) /\ Unused(d) /\ DirSizes(d) /\ dirf \in Place /\ HasName(d, dirf) /\ IsDir(d, dirf)
  BY DEF Format, Kept, DirSet
<1> DEFINE t == next_block(d, "BLOCK_FILE")
           x == save_block_link(t, dirf, n, d.nextbno)
           size == File(d, dirf).f_size
           rec == [File(x, dirf) EXCEPT !.f_size = @ + BY2BLK]
<1>1. e = SetFile(x, dirf, rec)
  BY DEF make_link_block
<1>2. size \in Nat /\ size % BY2BLK = 0
  BY <1>0, SizeType DEF DirSizes
<1>3. n \in Nat /\ CeilDiv(size, BY2BLK) = n /\ CeilDiv(size + BY2BLK, BY2BLK) = n + 1
      /\ (size + BY2BLK) % BY2BLK = 0
  <2> HIDE DEF size
  <2>1. n = size \div BY2BLK
    BY DEF size
  <2> QED BY <1>2, <2>1, OneMore
<1>4. x \in Image
  <2>1. t \in Image /\ d.nextbno \in Nat
    BY <1>0, NextBlockSpec DEF Image
  <2> HIDE DEF t
  <2> QED BY <2>1, LinkGrown DEF Grown
<1>5. rec \in FileRec /\ rec.f_indirect = File(x, dirf).f_indirect /\ rec.f_direct = File(x, dirf).f_direct
      /\ rec.f_name = File(x, dirf).f_name /\ rec.f_type = File(x, dirf).f_type
      /\ rec.f_size = File(x, dirf).f_size + BY2BLK
  <2> HIDE DEF x
  <2>1. File(x, dirf) \in FileRec
    BY <1>0, <1>4, SizeType
  <2> QED BY <2>1, Sizes DEF FileRec
<1> HIDE DEF rec
<1>6. Fits(x)
  <2> HIDE DEF x
  <2>1. FileSet(x, e, dirf, rec)
    BY <1>0, <1>1, <1>4, <1>5, SetFilePlaces
  <2> QED BY <2>1 DEF FileSet, Fits
<1>7. Copied(d, x, dirf, n) /\ d.nextbno < x.nextbno /\ d.nextbno \in Block
  <2>1. x = save_block_link(next_block(d, "BLOCK_FILE"), dirf, n, d.nextbno)
    OBVIOUS
  <2> HIDE DEF x
  <2> QED BY <1>0, <1>3, <1>6, <2>1, TakeAndLink
<1> HIDE DEF x
<1>8. Kept(x) /\ Unused(x) /\ SameInfo(d, x)
  BY <1>7 DEF Copied
<1>9. File(x, dirf).f_size = size /\ HasName(x, dirf) /\ NamedRec(rec)
  BY <1>0, <1>5, <1>8 DEF SameInfo, HasName, NamedRec
<1>10. InfoSet(x, e, dirf, rec)
  <2>1. dirf[1] < x.nextbno
    BY <1>0, <1>8, <1>9, NamedTaken
  <2> QED BY <1>0, <1>1, <1>5, <1>8, <1>9, <2>1, InfoSpec
<1>11. /\ Kept(e) /\ Unused(e) /\ e.nextbno = x.nextbno /\ e.assert = x.assert
       /\ \A g \in Place : SameBlocks(x, e, g)
       /\ \A g \in Place : File(e, g) = IF g = dirf THEN rec ELSE File(x, g)
  BY <1>10 DEF InfoSet
<1>12. SameNames(d, e)
  BY <1>5, <1>8, <1>11 DEF SameNames, SameInfo
<1>13. \A g \in Place : File(e, g).f_size = IF g = dirf THEN size + BY2BLK ELSE File(d, g).f_size
  BY <1>5, <1>8, <1>9, <1>11 DEF SameInfo
<1>14. DirSizes(e)
  <2>1. \A g \in Place : IsDir(e, g) => IsDir(d, g)
    BY <1>12 DEF SameNames, IsDir
  <2> QED BY <1>0, <1>3, <1>13, <2>1 DEF DirSizes
<1>15. ASSUME e.assert, NEW g \in Place
       PROVE  Complete(e, g)
  <2>1. d.assert /\ n < NINDIRECT /\ \E v \in Nat : v # 0 /\ BlockSet(d, x, dirf, n, v)
    BY <1>7, <1>11, <1>15 DEF Copied
  <2>2. PICK v \in Nat : v # 0 /\ BlockSet(d, x, dirf, n, v)
    BY <2>1
  <2>3. Complete(d, g)
    BY <2>1 DEF Format
  <2>4. CASE g # dirf
    <3>1. SameBlocks(d, e, g)
      BY <1>11, <2>2, <2>4 DEF BlockSet, SameBlocks
    <3>2. File(e, g).f_size = File(d, g).f_size
      BY <1>13, <2>4
    <3> QED BY <1>0, <2>3, <3>1, <3>2, CompleteSame
  <2>5. CASE g = dirf
    <3>1. CeilDiv(File(e, g).f_size, BY2BLK) = n + 1
      BY <1>3, <1>13, <2>5
    <3>2. ASSUME NEW i \in 0..n
          PROVE  i < NINDIRECT /\ block_of(e, g, i) # 0
      <4>1. i < NINDIRECT /\ i \in 0..(NINDIRECT - 1)
        BY <1>3, <2>1, Sizes
      <4>2. block_of(e, g, i) = IF i = n THEN v ELSE block_of(d, g, i)
        BY <1>11, <2>2, <2>5, <4>1 DEF BlockSet, SameBlocks
      <4>3. i # n => i \in 0..(n - 1)
        BY <1>3
      <4>4. i # n => block_of(d, g, i) # 0
        BY <1>3, <2>3, <2>5, <4>3 DEF Complete
      <4> QED BY <2>2, <4>1, <4>2, <4>4
    <3>3. (n + 1) - 1 = n
      BY <1>3
    <3> QED BY <3>1, <3>2, <3>3 DEF Complete
  <2> QED BY <2>4, <2>5
<1>16. d.nextbno < e.nextbno
  BY <1>7, <1>11
<1> QED BY <1>7, <1>11, <1>12, <1>14, <1>15, <1>16 DEF Format

\* The place of the pointer to the i-th block of a file, and to which blocks it can lead.
PtrOf(d, f, i) == IF i < NDIRECT THEN DirectAt(f, i) ELSE IndexAt(Ptr(d, IndirectAt(f)), i)

LEMMA BlockPtr ==
  ASSUME NEW d, Kept(d), NEW f \in Place, NEW i \in 0..(NINDIRECT - 1), block_of(d, f, i) # 0
  PROVE  /\ PtrOf(d, f, i) \in Ptrs /\ block_of(d, f, i) = Ptr(d, PtrOf(d, f, i))
         /\ ~(i < NDIRECT) => Ptr(d, IndirectAt(f)) # 0
<1>1. CASE i < NDIRECT
  BY <1>1, DirectIndex, BlockOf DEF PtrOf
<1>2. CASE ~(i < NDIRECT)
  <2>1. Ptr(d, IndirectAt(f)) # 0
    BY <1>2, BlockOf
  <2>2. Ptr(d, IndirectAt(f)) \in Block
    BY <2>1, IndirectBlock
  <2> QED BY <1>2, <2>1, <2>2, PtrIn, BlockOf DEF PtrOf
<1> QED BY <1>1, <1>2

LEMMA PtrRange ==
  ASSUME NEW d, Kept(d), NEW p \in Ptrs, Ptr(d, p) # 0
  PROVE  /\ Ptr(d, p) \in Nat /\ Ptr(d, p) \in Block /\ first_block <= Ptr(d, p)
         /\ Ptr(d, p) < d.nextbno
<1>1. d \in Image /\ d.nextbno \in Nat /\ d.nextbno <= NBLOCK
  BY DEF Kept, Image
<1>2. Ptr(d, p) \in Nat
  BY <1>1, PtrNat
<1>3. first_block <= Ptr(d, p) /\ Ptr(d, p) < d.nextbno
  BY DEF Kept
<1> QED BY <1>1, <1>2, <1>3, Sizes DEF Block

\* The Files of a directory.
LEMMA EntriesIn ==
  ASSUME NEW d, Kept(d), NEW dirf \in Place, Complete(d, dirf), NEW k \in DOMAIN Entries(d, dirf)
  PROVE  Entries(d, dirf)[k] \in Place /\ Entries(d, dirf)[k][1] < d.nextbno
<1> DEFINE nblk == File(d, dirf).f_size \div BY2BLK
           i == (k - 1) \div FILE2BLK
           j == (k - 1) % FILE2BLK
<1>1. nblk \in Nat /\ nblk <= CeilDiv(File(d, dirf).f_size, BY2BLK)
      /\ CeilDiv(File(d, dirf).f_size, BY2BLK) \in Nat
  BY SizeType, Blocks DEF Kept
<1>2. k \in 1..(nblk * FILE2BLK)
  BY DEF Entries
<1>3. Entries(d, dirf)[k] = <<block_of(d, dirf, i), j>>
  BY <1>2 DEF Entries
<1>4. i \in Nat /\ j \in 0..(FILE2BLK - 1) /\ i < nblk
  <2> HIDE DEF nblk
  <2>1. k - 1 \in Nat /\ k - 1 < FILE2BLK * nblk
    <3>1. FILE2BLK * nblk = nblk * FILE2BLK /\ nblk * FILE2BLK \in Nat
      BY <1>1, Sizes
    <3> QED BY <1>2, <3>1
  <2>2. PICK q \in Nat, r \in 0..(FILE2BLK - 1) :
          q = (k - 1) \div FILE2BLK /\ r = (k - 1) % FILE2BLK /\ k - 1 = FILE2BLK * q + r
    <3> DEFINE a == k - 1
    <3>1. a \in Nat /\ FILE2BLK \in Nat \ {0}
      BY <2>1, Sizes
    <3> HIDE DEF a
    <3>2. \E q \in Nat, r \in 0..(FILE2BLK - 1) :
            q = a \div FILE2BLK /\ r = a % FILE2BLK /\ a = FILE2BLK * q + r
      BY <3>1, Dividing
    <3> QED BY <3>2 DEF a
  <2>3. q < nblk
    <3> SUFFICES ASSUME q >= nblk PROVE FALSE
      BY <1>1
    <3>1. FILE2BLK * q = FILE2BLK * nblk + FILE2BLK * (q - nblk)
      BY <1>1, Sizes
    <3>2. FILE2BLK * (q - nblk) \in Nat /\ FILE2BLK * nblk \in Nat
      BY <1>1, Sizes
    <3> QED BY <2>1, <2>2, <3>1, <3>2
  <2> QED BY <2>2, <2>3
<1> HIDE DEF i, j, nblk
<1>5. i < NINDIRECT /\ block_of(d, dirf, i) # 0
  <2>1. i \in 0..(CeilDiv(File(d, dirf).f_size, BY2BLK) - 1)
    BY <1>1, <1>4
  <2> QED BY <2>1 DEF Complete
<1>6. block_of(d, dirf, i) \in Block /\ block_of(d, dirf, i) < d.nextbno
  <2>1. i \in 0..(NINDIRECT - 1)
    BY <1>4, <1>5, Sizes
  <2> QED BY <1>5, <2>1, BlockPtr, PtrRange
<1> QED BY <1>3, <1>4, <1>6 DEF Place, Slots

LEMMA FirstFile ==
  ASSUME NEW d, Kept(d), NEW dirf \in Place, Complete(d, dirf), NEW name,
         NEW f, f = first_file(d, dirf, name), f # <<>>
  PROVE  f \in Place /\ f[1] < d.nextbno /\ File(d, f).f_name = name
<1> DEFINE files == Entries(d, dirf)
           hits == {n \in DOMAIN files : File(d, files[n]).f_name = name}
<1>1. hits # {} /\ f = files[Min(hits)]
  BY DEF first_file
<1>2. hits \subseteq Nat
  BY DEF Entries
<1>3. Min(hits) \in hits
  <2> HIDE DEF hits
  <2>1. \E x \in hits : \A y \in hits : x <= y
    BY <1>1, <1>2, Least
  <2> QED BY <2>1 DEF Min
<1>4. Min(hits) \in DOMAIN files /\ File(d, files[Min(hits)]).f_name = name
  BY <1>3
<1> HIDE DEF hits
<1> QED BY <1>1, <1>4, EntriesIn

\* A File for a new entry of a directory.
Created(d, e, f) ==
  /\ Format(e) /\ SameNames(d, e) /\ d.nextbno <= e.nextbno
  /\ f \in Place /\ ~HasName(e, f) /\ f[1] < e.nextbno

LEMMA CreateSpec ==
  ASSUME NEW d, Format(d), d.assert, NEW dirf \in DirSet(d), Fits(create_file(d, dirf).d)
  PROVE  Created(d, create_file(d, dirf).d, create_file(d, dirf).f)
<1> DEFINE c == create_file(d, dirf)
           unused == first_file(d, dirf, "")
           n == File(d, dirf).f_size \div BY2BLK
           e == make_link_block(d, dirf, n)
<1>0. d \in Image /\ Kept(d) /\ Unused(d) /\ dirf \in Place /\ Complete(d, dirf)
  BY DEF Format, Kept, DirSet
<1>1. CASE unused # <<>>
  <2>1. c.d = d /\ c.f = unused
    BY <1>1 DEF create_file
  <2>2. unused \in Place /\ unused[1] < d.nextbno /\ ~HasName(d, unused)
    <3> DEFINE f == unused
               none == ""
    <3>1. f = first_file(d, dirf, none) /\ f # <<>>
      BY <1>1
    <3> HIDE DEF f, none
    <3>2. f \in Place /\ f[1] < d.nextbno /\ File(d, f).f_name = none
      BY <1>0, <3>1, FirstFile
    <3>3. ~HasName(d, f)
      BY <3>2 DEF HasName, none
    <3> QED BY <3>2, <3>3 DEF f
  <2>3. d.nextbno <= d.nextbno
    BY <1>0, Next1 DEF Image
  <2>4. Created(d, d, unused)
    BY <2>2, <2>3 DEF Created, SameNames
  <2> HIDE DEF c, unused
  <2>5. Created(d, c.d, c.f)
    BY <2>1, <2>4, Zenon
  <2> QED BY <2>5, Zenon DEF c
<1>2. CASE unused = <<>>
  <2>1. c.d = e /\ c.f = <<d.nextbno, 0>>
    BY <1>2 DEF create_file
  <2>2. Format(e) /\ SameNames(d, e) /\ d.nextbno < e.nextbno /\ d.nextbno \in Block
    <3>1. Fits(e)
      BY <2>1
    <3> HIDE DEF e, n
    <3>2. e = make_link_block(d, dirf, n) /\ n = File(d, dirf).f_size \div BY2BLK
      BY DEF e, n
    <3> QED BY <3>1, <3>2, LinkBlockSpec
  <2> HIDE DEF e, c
  <2>3. c.f \in Place /\ c.f[1] = d.nextbno
    BY <2>1, <2>2, Sizes DEF Place, Slots
  <2>4. d.nextbno >= d.nextbno /\ d.nextbno <= e.nextbno
    BY <1>0, <2>2 DEF Image, Format, Kept
  <2>5. ~HasName(e, c.f)
    <3>1. File(d, c.f).f_name = ""
      BY <1>0, <2>3, <2>4 DEF Unused
    <3> QED BY <2>2, <2>3, <3>1 DEF SameNames, HasName
  <2>6. Created(d, c.d, c.f)
    BY <2>1, <2>2, <2>3, <2>4, <2>5 DEF Created
  <2> QED BY <2>6, Zenon DEF c
<1> QED BY <1>1, <1>2

LEMMA SetFileNext ==
  ASSUME NEW d \in Image, NEW f, NEW rec
  PROVE  SetFile(d, f, rec).nextbno = d.nextbno /\ SetFile(d, f, rec).assert = d.assert
BY DEF SetFile, Image

LEMMA ZeroBlocks == CeilDiv(0, BY2BLK) = 0 /\ 0 % BY2BLK = 0
<1>1. 0 = 0 \div BY2BLK /\ 0 = 0 % BY2BLK
  <2>1. 0 = BY2BLK * 0 + 0 /\ 0 \in 0..(BY2BLK - 1)
    BY Sizes
  <2> QED BY <2>1, Divided, Sizes
<1> QED BY <1>1, OneMore

LEMMA Unnamed ==
  ASSUME NEW d, Unused(d), NEW f \in Place, ~HasName(d, f)
  PROVE  File(d, f).f_size = 0
BY DEF Unused, HasName

NamedPath(path) == path \in Seq(Names) \ {<<>>} /\ Last(path) # ""

\* What the turn of fsformat for one host file leaves, if it did not fail.
Formatted(d, e) == Format(e) /\ d.nextbno <= e.nextbno /\ DirSet(d) \subseteq DirSet(e)

LEMMA WriteDirectorySpec ==
  ASSUME NEW d, Format(d), d.assert, NEW dirf \in DirSet(d), NEW path, NamedPath(path),
         NEW e, e = write_directory(d, dirf, path), Fits(e)
  PROVE  Formatted(d, e) /\ create_file(d, dirf).f \in DirSet(e)
<1> DEFINE x == create_file(d, dirf).d
           f == create_file(d, dirf).f
           rec == [File(x, f) EXCEPT !.f_name = Last(path), !.f_type = "FTYPE_DIR"]
<1>0. d \in Image
  BY DEF Format, Kept
<1>1. e = SetFile(x, f, rec)
  BY DEF write_directory
<1>2. x \in Image
  BY <1>0, CreateGrown DEF Grown
<1>3. Fits(x)
  <2> HIDE DEF x, f, rec
  <2> QED BY <1>1, <1>2, SetFileNext DEF Fits
<1>4. Created(d, x, f)
  BY <1>3, CreateSpec
<1>5. /\ Format(x) /\ SameNames(d, x) /\ d.nextbno <= x.nextbno
      /\ f \in Place /\ ~HasName(x, f) /\ f[1] < x.nextbno
  BY <1>4 DEF Created
<1> HIDE DEF x, f
<1>6. Kept(x) /\ Unused(x) /\ DirSizes(x)
  BY <1>5 DEF Format
<1>7. Last(path) \in Names
  BY LastName DEF NamedPath
<1>8. /\ rec \in FileRec /\ rec.f_indirect = File(x, f).f_indirect /\ rec.f_direct = File(x, f).f_direct
      /\ rec.f_size = File(x, f).f_size /\ rec.f_name = Last(path) /\ rec.f_type = "FTYPE_DIR"
  <2>1. File(x, f) \in FileRec
    BY <1>2, <1>5, SizeType
  <2> QED BY <1>7, <2>1, NamedDirType
<1> HIDE DEF rec
<1>9. InfoSet(x, e, f, rec)
  <2>1. NamedRec(rec)
    BY <1>8 DEF NamedRec, NamedPath
  <2> QED BY <1>1, <1>5, <1>6, <1>8, <2>1, InfoSpec
<1>10. /\ Kept(e) /\ Unused(e) /\ e.nextbno = x.nextbno /\ e.assert = x.assert
       /\ \A g \in Place : SameBlocks(x, e, g)
       /\ \A g \in Place : File(e, g) = IF g = f THEN rec ELSE File(x, g)
  BY <1>9 DEF InfoSet
<1>11. File(x, f).f_size = 0
  BY <1>5, <1>6, Unnamed
<1>12. \A g \in Place : File(e, g).f_size = File(x, g).f_size
  BY <1>8, <1>10
<1>13. DirSizes(e)
  <2> SUFFICES ASSUME NEW g \in Place, IsDir(e, g) PROVE File(e, g).f_size % BY2BLK = 0
    BY DEF DirSizes
  <2>1. CASE g = f
    BY <1>11, <1>12, <2>1, ZeroBlocks
  <2>2. CASE g # f
    <3>1. IsDir(x, g)
      BY <1>10, <2>2 DEF IsDir
    <3> QED BY <1>6, <1>12, <3>1 DEF DirSizes
  <2> QED BY <2>1, <2>2
<1>14. e.assert => \A g \in Place : Complete(e, g)
  <2>1. e.assert => \A g \in Place : Complete(x, g)
    BY <1>5, <1>10 DEF Format
  <2> QED BY <1>2, <1>10, <1>12, <2>1, CompleteSame
<1>15. Format(e)
  BY <1>10, <1>13, <1>14 DEF Format
<1>16. f \in DirSet(e)
  <2>1. File(e, f) = rec
    BY <1>5, <1>10
  <2>2. HasName(e, f) /\ IsDir(e, f)
    BY <1>8, <2>1 DEF HasName, IsDir, NamedPath
  <2> QED BY <1>5, <2>2 DEF DirSet
<1>17. DirSet(d) \subseteq DirSet(e)
  <2> SUFFICES ASSUME NEW g \in DirSet(d) PROVE g \in DirSet(e)
    OBVIOUS
  <2>1. g \in Place /\ HasName(x, g) /\ IsDir(x, g)
    BY <1>5 DEF DirSet, SameNames, HasName, IsDir
  <2>2. g # f
    BY <1>5, <2>1
  <2>3. File(e, g) = File(x, g)
    BY <1>10, <2>1, <2>2
  <2> QED BY <2>1, <2>3 DEF DirSet, HasName, IsDir
<1>18. Formatted(d, e)
  BY <1>5, <1>10, <1>15, <1>17 DEF Formatted
<1> QED BY <1>16, <1>18 DEF f

\* The loop of write_file after i blocks of the File f.
Filling(s, x, f, i) ==
  /\ Kept(x) /\ Unused(x) /\ SameInfo(s, x) /\ s.nextbno <= x.nextbno
  /\ x.assert => /\ i <= NINDIRECT
                 /\ \A g \in Place : g # f => Complete(x, g)
                 /\ \A j \in 0..(i - 1) : block_of(x, f, j) # 0

LEMMA FillStep ==
  ASSUME NEW s, NEW x, NEW f \in Place, NEW i \in Nat, Filling(s, x, f, i), s.nextbno \in Nat,
         NEW e, Copied(x, e, f, i)
  PROVE  Filling(s, e, f, i + 1)
<1>1. Kept(x) /\ SameInfo(s, x) /\ s.nextbno <= x.nextbno
  BY DEF Filling
<1>2. Kept(e) /\ Unused(e) /\ SameInfo(x, e) /\ x.nextbno <= e.nextbno
  BY DEF Copied
<1>3. SameInfo(s, e)
  BY <1>1, <1>2 DEF SameInfo
<1>4. s.nextbno <= e.nextbno
  <2>1. x.nextbno \in Nat /\ e.nextbno \in Nat
    BY <1>1, <1>2 DEF Kept, Image
  <2> QED BY <1>1, <1>2, <2>1
<1>5. ASSUME e.assert
      PROVE  /\ i + 1 <= NINDIRECT
             /\ \A g \in Place : g # f => Complete(e, g)
             /\ \A j \in 0..((i + 1) - 1) : block_of(e, f, j) # 0
  <2>1. x.assert /\ i < NINDIRECT
    BY <1>5 DEF Copied
  <2>2. PICK v \in Nat : v # 0 /\ BlockSet(x, e, f, i, v)
    BY <1>5 DEF Copied
  <2>3. /\ \A g \in Place : g # f => Complete(x, g)
        /\ \A j \in 0..(i - 1) : block_of(x, f, j) # 0
    BY <2>1 DEF Filling
  <2>4. ASSUME NEW g \in Place, g # f
        PROVE  Complete(e, g)
    <3>1. SameBlocks(x, e, g)
      BY <2>2, <2>4 DEF BlockSet, SameBlocks
    <3>2. File(e, g).f_size = File(x, g).f_size
      BY <1>2 DEF SameInfo
    <3>3. x \in Image /\ Complete(x, g)
      BY <1>1, <2>3, <2>4 DEF Kept
    <3> QED BY <3>1, <3>2, <3>3, CompleteSame
  <2>5. ASSUME NEW j \in 0..i
        PROVE  block_of(e, f, j) # 0
    <3>1. j \in 0..(NINDIRECT - 1) /\ (j # i => j \in 0..(i - 1))
      BY <2>1, Sizes
    <3> QED BY <2>2, <2>3, <3>1 DEF BlockSet
  <2>6. i + 1 <= NINDIRECT /\ (i + 1) - 1 = i
    BY <2>1, Sizes
  <2> QED BY <2>4, <2>5, <2>6
<1> QED BY <1>2, <1>3, <1>4, <1>5 DEF Filling

LEMMA FitsBefore ==
  ASSUME NEW d \in Image, NEW e \in Image, d.nextbno <= e.nextbno, Fits(e)
  PROVE  Fits(d)
<1>1. d.nextbno \in Nat /\ e.nextbno \in Nat /\ NBLOCK \in Nat
  BY Sizes DEF Image
<1> QED BY <1>1 DEF Fits

\* The File is named; what it holds is missing.
Named(d, s, f, size) ==
  /\ Filling(s, s, f, 0) /\ s.nextbno >= d.nextbno /\ s \in Image /\ f \in Place
  /\ HasName(s, f) /\ ~IsDir(s, f) /\ File(s, f).f_size = size
  /\ DirSizes(s) /\ DirSet(d) \subseteq DirSet(s)

LEMMA NamedSpec ==
  ASSUME NEW d, Format(d), d.assert, NEW dirf \in DirSet(d), NEW path, NamedPath(path),
         NEW size \in Nat, NEW x, NEW f, x = create_file(d, dirf).d, f = create_file(d, dirf).f,
         NEW s, s = named_file(x, f, path, size), Fits(s)
  PROVE  Named(d, s, f, size)
<1> DEFINE rec == [File(x, f) EXCEPT !.f_name = Last(path), !.f_size = size, !.f_type = "FTYPE_REG"]
<1>0. d \in Image
  BY DEF Format, Kept
<1>1. s = SetFile(x, f, rec)
  BY DEF named_file
<1>2. x \in Image
  BY <1>0, CreateGrown DEF Grown
<1>3. Fits(x)
  <2> HIDE DEF rec
  <2> QED BY <1>1, <1>2, SetFileNext DEF Fits
<1>4. Created(d, x, f)
  BY <1>3, CreateSpec
<1>5. /\ Format(x) /\ SameNames(d, x) /\ d.nextbno <= x.nextbno
      /\ f \in Place /\ ~HasName(x, f) /\ f[1] < x.nextbno
  BY <1>4 DEF Created
<1>6. Kept(x) /\ Unused(x) /\ DirSizes(x)
  BY <1>5 DEF Format
<1>7. Last(path) \in Names
  BY LastName DEF NamedPath
<1>8. /\ rec \in FileRec /\ rec.f_indirect = File(x, f).f_indirect /\ rec.f_direct = File(x, f).f_direct
      /\ rec.f_size = size /\ rec.f_name = Last(path) /\ rec.f_type = "FTYPE_REG"
  <2>1. File(x, f) \in FileRec
    BY <1>2, <1>5, SizeType
  <2> DEFINE r == File(x, f)
             name == Last(path)
  <2>2. r \in FileRec /\ name \in Names
    BY <1>7, <2>1
  <2> HIDE DEF r, name
  <2>3. LET t == [r EXCEPT !.f_name = name, !.f_size = size, !.f_type = "FTYPE_REG"]
        IN  /\ t \in FileRec /\ t.f_indirect = r.f_indirect /\ t.f_name = name
            /\ t.f_size = size /\ t.f_type = "FTYPE_REG" /\ t.f_direct = r.f_direct
    BY <2>2 DEF FileRec
  <2> QED BY <2>3, Zenon DEF r, name
<1> HIDE DEF rec
<1>9. InfoSet(x, s, f, rec)
  <2>1. NamedRec(rec)
    BY <1>8 DEF NamedRec, NamedPath
  <2> QED BY <1>1, <1>5, <1>6, <1>8, <2>1, InfoSpec
<1>10. /\ Kept(s) /\ Unused(s) /\ s.nextbno = x.nextbno /\ s.assert = x.assert
       /\ \A g \in Place : SameBlocks(x, s, g)
       /\ \A g \in Place : File(s, g) = IF g = f THEN rec ELSE File(x, g)
  BY <1>9 DEF InfoSet
<1>11. File(s, f) = rec /\ \A g \in Place : g # f => File(s, g) = File(x, g)
  BY <1>5, <1>10
<1>12. HasName(s, f) /\ ~IsDir(s, f) /\ File(s, f).f_size = size
  BY <1>8, <1>11 DEF HasName, IsDir, NamedPath
<1>13. DirSizes(s)
  BY <1>6, <1>11, <1>12 DEF DirSizes, IsDir
<1>14. s.assert => \A g \in Place : g # f => Complete(s, g)
  <2>1. s.assert => \A g \in Place : Complete(x, g)
    BY <1>5, <1>10 DEF Format
  <2> QED BY <1>2, <1>10, <1>11, <2>1, CompleteSame
<1>15. Filling(s, s, f, 0)
  <2>1. SameInfo(s, s)
    BY DEF SameInfo
  <2>2. s.nextbno <= s.nextbno
    BY <1>10, Next1 DEF Kept, Image
  <2>3. 0 <= NINDIRECT /\ \A j \in 0..(0 - 1) : block_of(s, f, j) # 0
    BY Sizes
  <2> QED BY <1>10, <1>14, <2>1, <2>2, <2>3 DEF Filling
<1>16. DirSet(d) \subseteq DirSet(s)
  <2> SUFFICES ASSUME NEW g \in DirSet(d) PROVE g \in DirSet(s)
    OBVIOUS
  <2>1. g \in Place /\ HasName(x, g) /\ IsDir(x, g)
    BY <1>5 DEF DirSet, SameNames, HasName, IsDir
  <2>2. g # f
    BY <1>5, <2>1
  <2>3. File(s, g) = File(x, g)
    BY <1>11, <2>1, <2>2
  <2> QED BY <2>1, <2>3 DEF DirSet, HasName, IsDir
<1>17. s.nextbno >= d.nextbno
  BY <1>0, <1>2, <1>5, <1>10 DEF Image
<1>18. s \in Image
  BY <1>10 DEF Kept
<1> QED BY <1>5, <1>12, <1>13, <1>15, <1>16, <1>17, <1>18 DEF Named

\* The file is complete at the end of the loop.
LEMMA Filled ==
  ASSUME NEW d \in Image, NEW s, NEW f, NEW size \in Nat, Named(d, s, f, size),
         NEW e, Filling(s, e, f, CeilDiv(size, BY2BLK))
  PROVE  Formatted(d, e)
<1> DEFINE n == CeilDiv(size, BY2BLK)
<1>1. f \in Place /\ ~IsDir(s, f) /\ File(s, f).f_size = size /\ DirSizes(s)
      /\ DirSet(d) \subseteq DirSet(s) /\ s.nextbno >= d.nextbno /\ s \in Image
  BY DEF Named
<1>2. Kept(e) /\ Unused(e) /\ SameInfo(s, e) /\ s.nextbno <= e.nextbno
  BY DEF Filling
<1>3. DirSizes(e)
  BY <1>1, <1>2 DEF DirSizes, SameInfo, IsDir
<1>4. DirSet(d) \subseteq DirSet(e)
  BY <1>1, <1>2 DEF DirSet, SameInfo, HasName, IsDir
<1>5. ASSUME e.assert, NEW g \in Place
      PROVE  Complete(e, g)
  <2>1. /\ n <= NINDIRECT
        /\ \A h \in Place : h # f => Complete(e, h)
        /\ \A j \in 0..(n - 1) : block_of(e, f, j) # 0
    BY <1>5 DEF Filling
  <2>2. n \in Nat
    BY Blocks
  <2>3. File(e, f).f_size = size
    BY <1>1, <1>2 DEF SameInfo
  <2>4. Complete(e, f)
    <3> HIDE DEF n
    <3>1. \A i \in 0..(n - 1) : i < NINDIRECT
      BY <2>1, <2>2, Sizes
    <3>2. CeilDiv(File(e, f).f_size, BY2BLK) = n
      BY <2>3 DEF n
    <3> QED BY <2>1, <3>1, <3>2 DEF Complete
  <2> QED BY <2>1, <2>4
<1>6. d.nextbno <= e.nextbno
  BY <1>1, <1>2 DEF Kept, Image
<1> QED BY <1>2, <1>3, <1>4, <1>5, <1>6 DEF Formatted, Format

LEMMA WriteFileSpec ==
  ASSUME NEW d, Format(d), d.assert, NEW dirf \in DirSet(d), NEW path, NamedPath(path),
         NEW size \in Nat, NEW e, e = write_file(d, dirf, path, size), Fits(e)
  PROVE  Formatted(d, e)
<1> DEFINE x == create_file(d, dirf).d
           f == create_file(d, dirf).f
           n == CeilDiv(size, BY2BLK)
<1>0. d \in Image /\ path \in Seq(Names) /\ path # <<>>
  BY DEF Format, Kept, NamedPath
<1>1. n \in Nat
  BY Blocks
<1>2. PICK c : Writing(c, d, dirf, path, size)
  BY <1>0, WriteLoop
<1>3. /\ e = c[n] /\ c[0] = named_file(x, f, path, size)
      /\ \A i \in 0..(n - 1) : c[i + 1] = copy_block(c[i], f, path, i)
  BY <1>2 DEF Writing
<1>4. x \in Image
  BY <1>0, CreateGrown DEF Grown
<1> HIDE DEF x, f, n
<1> DEFINE s == c[0]
<1>5. s \in Image
  BY <1>0, <1>3, <1>4, NamedGrown DEF Grown
<1>6. \A k \in 0..n : c[k] \in Image /\ (Fits(c[k]) => Fits(s))
  <2> DEFINE S == {k \in 0..n : c[k] \in Image /\ (Fits(c[k]) => Fits(s))}
  <2>1. 0 \in S
    BY <1>1, <1>5
  <2>2. ASSUME NEW k \in 0..(n - 1), k \in S
        PROVE  k + 1 \in S
    <3>1. c[k] \in Image /\ (Fits(c[k]) => Fits(s)) /\ k \in Nat /\ k + 1 \in 0..n
      BY <1>1, <2>2
    <3>2. Grown(c[k], c[k + 1])
      BY <1>0, <1>3, <3>1, CopyGrown
    <3>3. c[k + 1] \in Image /\ c[k].nextbno <= c[k + 1].nextbno
      BY <3>1, <3>2 DEF Grown, Image
    <3>4. Fits(c[k + 1]) => Fits(c[k])
      BY <3>1, <3>3, FitsBefore
    <3> QED BY <3>1, <3>3, <3>4
  <2> HIDE DEF S
  <2>3. \A k \in 0..n : k \in S
    BY <1>1, <2>1, <2>2, Counting
  <2> QED BY <2>3 DEF S
<1>7. Fits(s)
  <2>1. n \in 0..n
    BY <1>1
  <2> QED BY <1>3, <1>6, <2>1
<1>8. Named(d, s, f, size)
  <2> HIDE DEF s
  <2>1. s = named_file(x, f, path, size)
    BY <1>3 DEF s
  <2> QED BY <1>7, <2>1, NamedSpec DEF x, f
<1>9. Filling(s, s, f, 0) /\ f \in Place /\ HasName(s, f)
  BY <1>8 DEF Named
<1>10. \A k \in 0..n : Fits(c[k]) => Filling(s, c[k], f, k)
  <2> DEFINE S == {k \in 0..n : Fits(c[k]) => Filling(s, c[k], f, k)}
  <2>1. 0 \in S
    BY <1>1, <1>9
  <2>2. ASSUME NEW k \in 0..(n - 1), k \in S
        PROVE  k + 1 \in S
    <3>1. (Fits(c[k]) => Filling(s, c[k], f, k)) /\ k \in Nat /\ k + 1 \in 0..n /\ k \in 0..n
      BY <1>1, <2>2
    <3>2. c[k] \in Image /\ c[k + 1] \in Image
      BY <1>6, <3>1
    <3>3. ASSUME Fits(c[k + 1])
          PROVE  Filling(s, c[k + 1], f, k + 1)
      <4>1. c[k].nextbno <= c[k + 1].nextbno
        <5>1. Grown(c[k], c[k + 1])
          BY <1>0, <1>3, <3>1, <3>2, CopyGrown
        <5> QED BY <3>2, <5>1 DEF Grown, Image
      <4>2. Filling(s, c[k], f, k)
        BY <3>1, <3>2, <3>3, <4>1, FitsBefore
      <4>3. Kept(c[k]) /\ Unused(c[k]) /\ HasName(c[k], f)
        BY <1>9, <4>2 DEF Filling, SameInfo, HasName
      <4>4. Copied(c[k], c[k + 1], f, k)
        <5> DEFINE a == c[k]
                   b == c[k + 1]
        <5>1. b = copy_block(a, f, path, k) /\ Fits(b) /\ Kept(a) /\ Unused(a) /\ HasName(a, f)
          BY <1>3, <3>3, <4>3
        <5> HIDE DEF a, b
        <5>2. Copied(a, b, f, k)
          BY <1>0, <1>9, <3>1, <5>1, CopySpec
        <5> QED BY <5>2 DEF a, b
      <4>5. s.nextbno \in Nat
        BY <1>5 DEF Image
      <4> HIDE DEF s
      <4> QED BY <1>9, <3>1, <4>2, <4>4, <4>5, FillStep
    <3> QED BY <3>1, <3>3
  <2> HIDE DEF S
  <2>3. \A k \in 0..n : k \in S
    BY <1>1, <2>1, <2>2, Counting
  <2> QED BY <2>3 DEF S
<1>11. Filling(s, e, f, n)
  <2>1. n \in 0..n
    BY <1>1
  <2> QED BY <1>3, <1>10, <2>1
<1> HIDE DEF s
<1>12. Filling(s, e, f, CeilDiv(size, BY2BLK))
  BY <1>11 DEF n
<1> QED BY <1>0, <1>8, <1>12, Filled

-----------------------------------------------------------------------------
(* fsformat keeps Format, and the server finds all of it marked as used. *)

LEMMA FormatInit == Format(init_disk) /\ Root \in DirSet(init_disk)
<1> DEFINE d == init_disk
<1>1. /\ d \in Image /\ d.nextbno = first_block
      /\ \A b \in Block :
           /\ \A k \in Slots : d.blk[b].files[k] = IF b = 1 /\ k = 0 THEN RootFile ELSE NoFile
           /\ \A i \in 0..(NINDIRECT - 1) : d.blk[b].index[i] = 0
  BY InitImage DEF first_block
<1>2. first_block \in Nat /\ first_block > 1 /\ first_block <= NBLOCK /\ 0 \in Slots /\ 1 \in Block
  BY Bitmap, Sizes DEF first_block, Slots, Block
<1> HIDE DEF d
<1>3. \A f \in Place : File(d, f) = IF f = Root THEN RootFile ELSE NoFile
  BY <1>1, Places DEF File, Root
<1>4. \A f \in Place : /\ File(d, f).f_size = 0 /\ File(d, f).f_indirect = 0
                       /\ \A i \in 0..(NDIRECT - 1) : File(d, f).f_direct[i] = 0
  BY <1>3, NoFileType
<1>5. ASSUME NEW q \in Ptrs
      PROVE  Ptr(d, q) = 0
  <2>1. CASE \E g \in Place, n \in 0..(NDIRECT - 1) : q = DirectAt(g, n)
    BY <1>4, <2>1, DirectValue
  <2>2. CASE \E g \in Place : q = IndirectAt(g)
    BY <1>4, <2>2, IndirectValue
  <2>3. CASE \E b \in Block, n \in 0..(NINDIRECT - 1) : q = IndexAt(b, n)
    BY <1>1, <2>3, IndexValue
  <2> QED BY <2>1, <2>2, <2>3, PtrKinds
<1>6. Kept(d)
  BY <1>1, <1>2, <1>5, Sizes DEF Kept
<1>7. \A f \in Place : f[1] >= d.nextbno => f # Root
  BY <1>1, <1>2 DEF Root
<1>8. Unused(d)
  <2>1. \A f \in Place : f[1] >= d.nextbno => File(d, f).f_name = ""
    BY <1>3, <1>7, NoFileType
  <2> QED BY <1>4, <1>5, <2>1, PtrIn DEF Unused
<1>9. DirSizes(d) /\ \A f \in Place : Complete(d, f)
  <2>1. \A f \in Place : CeilDiv(File(d, f).f_size, BY2BLK) = 0 /\ File(d, f).f_size % BY2BLK = 0
    BY <1>4, ZeroBlocks
  <2>2. 0..(0 - 1) = {}
    OBVIOUS
  <2> QED BY <2>1, <2>2 DEF DirSizes, Complete
<1>10. Root \in DirSet(d)
  <2>1. Root \in Place
    BY <1>2 DEF Place, Root
  <2>2. File(d, Root) = RootFile
    BY <1>3, <2>1
  <2> QED BY <2>1, <2>2, NoFileType DEF DirSet, HasName, IsDir
<1> QED BY <1>6, <1>8, <1>9, <1>10, Zenon DEF Format, d

TodoSet(D) == {t \in TaskSet(D) : NamedPath(t.path)}

LEMMA LastAppended ==
  ASSUME NEW path \in Seq(Names), NEW name \in Names
  PROVE  Last(Append(path, name)) = name
<1>1. Len(Append(path, name)) = Len(path) + 1 /\ Len(path) + 1 \in Nat
  OBVIOUS
<1>2. Append(path, name)[Len(path) + 1] = name
  OBVIOUS
<1> QED BY <1>1, <1>2, Zenon DEF Last

LEMMA TodoType ==
  ASSUME NEW seq \in Seq(HostFile), NEW D, NEW dirf \in D, NEW path \in Seq(Names)
  PROVE  Tasks(seq, dirf, path) \in Seq(TodoSet(D))
<1> DEFINE ts == Tasks(seq, dirf, path)
<1>1. ts \in Seq(TaskSet(D))
  BY TasksType
<1>2. Len(ts) = Len(seq) /\ Len(seq) \in Nat
  BY DEF Tasks
<1>3. ASSUME NEW n \in 1..Len(seq)
      PROVE  ts[n] \in TodoSet(D)
  <2>1. ts[n] \in TaskSet(D)
    BY <1>1, <1>2
  <2>2. ts[n].path = Append(path, seq[n].name)
    BY DEF Tasks
  <2>3. seq[n] \in HostFile
    OBVIOUS
  <2>4. seq[n].name \in Names /\ seq[n].name # ""
    BY <2>3, HostAssumption DEF Names
  <2>5. Last(Append(path, seq[n].name)) = seq[n].name
    BY <2>4, LastAppended
  <2>6. ts[n].path \in Seq(Names) \ {<<>>}
    BY <2>1 DEF TaskSet
  <2> QED BY <2>1, <2>2, <2>4, <2>5, <2>6 DEF TodoSet, NamedPath
<1>4. ts = [n \in 1..Len(seq) |-> ts[n]]
  BY <1>2 DEF Tasks
<1> HIDE DEF ts
<1>5. ts \in Seq(TodoSet(D))
  BY <1>2, <1>3, <1>4
<1> QED BY <1>5 DEF ts

\* The image the server works on.
FreeOK(d) == \A b \in Block : block_is_free(d, b) => first_block <= b /\ NoPtr(d, b)
Served(d) == Kept(d) /\ FreeOK(d) /\ \A f \in Place : Complete(d, f)

FormatInv ==
  /\ host \in Hosts
  /\ boot.pc \in {"format", "failed"} /\ Fits(img) => Format(img)
  /\ boot.pc = "format" => img.assert
  /\ boot.pc = "format" /\ Fits(img) => todo \in Seq(TodoSet(DirSet(img)))
  /\ boot.pc \notin {"format", "failed"} /\ Fits(img) => Served(img)

LEMMA ServedFlush ==
  ASSUME NEW d, Format(d), d.assert
  PROVE  Served(flush_bitmap(d))
<1> DEFINE e == flush_bitmap(d)
<1>0. d \in Image /\ Kept(d) /\ Unused(d) /\ \A f \in Place : Complete(d, f)
  BY DEF Format, Kept
<1>1. /\ e \in Image /\ e.nextbno = d.nextbno /\ e.assert = d.assert /\ SameFiles(d, e)
      /\ \A b \in Block : block_is_free(e, b) <=> block_is_free(d, b) /\ b >= d.nextbno
  BY <1>0, FlushSpec
<1> HIDE DEF e
<1>2. Kept(e) /\ SameInfo(d, e) /\ SamePtrs(d, e)
  BY <1>0, <1>1, SameContents
<1>3. ASSUME NEW b \in Block, block_is_free(e, b)
      PROVE  first_block <= b /\ NoPtr(e, b)
  <2>1. b >= d.nextbno
    BY <1>1, <1>3
  <2>2. first_block \in Nat /\ first_block > 0 /\ d.nextbno \in Nat /\ b \in Nat
    BY <1>0, Bitmap DEF first_block, Image, Block
  <2>3. first_block <= d.nextbno /\ \A p \in Ptrs : Ptr(e, p) # 0 => Ptr(e, p) < d.nextbno
    BY <1>1, <1>2, <1>0 DEF Kept
  <2>4. \A p \in Ptrs : Ptr(e, p) \in Nat
    BY <1>1, PtrNat
  <2> QED BY <2>1, <2>2, <2>3, <2>4 DEF NoPtr
<1>4. ASSUME NEW f \in Place
      PROVE  Complete(e, f)
  <2>1. SameBlocks(d, e, f)
    BY <1>0, <1>2, SameTree DEF SameBlocks
  <2>2. File(e, f).f_size = File(d, f).f_size
    BY <1>2 DEF SameInfo
  <2> QED BY <1>0, <2>1, <2>2, CompleteSame
<1> QED BY <1>2, <1>3, <1>4, Zenon DEF e, Served, FreeOK

LEMMA InvFormat ==
  ASSUME BootInv, FormatInv, fsformat
  PROVE  FormatInv'
<1> DEFINE t == Head(todo)
           f == create_file(img, t.dirf).f
<1>1. /\ boot.pc = "format" /\ todo # <<>> /\ host' = host
      /\ img' = IF t.file.dir THEN write_directory(img, t.dirf, t.path)
                ELSE write_file(img, t.dirf, t.path, t.file.size)
      /\ todo' = IF t.file.dir THEN Tasks(t.file.kids, f, t.path) \o Tail(todo) ELSE Tail(todo)
      /\ boot' = IF img'.assert THEN boot ELSE [boot EXCEPT !.pc = "failed"]
  BY Zenon DEF fsformat
<1>2. img \in Image /\ boot \in BootRec /\ img.assert
  BY <1>1 DEF BootInv, FormatInv
<1>3. PICK D : todo \in Seq(TaskSet(D))
  BY <1>1 DEF BootInv
<1>4. t \in TaskSet(D)
  BY <1>1, <1>3
<1>5. t.file \in HostFile /\ t.path \in Seq(Names) /\ t.path # <<>>
  BY <1>4 DEF TaskSet
<1>6. t.file.size \in Nat /\ t.file.kids \in Seq(HostFile)
  BY <1>5, HostAssumption
<1>7. boot'.pc = IF img'.assert THEN "format" ELSE "failed"
  BY <1>1, <1>2 DEF BootRec
<1> HIDE DEF t, f
<1>8. Grown(img, img')
  BY <1>1, <1>2, <1>5, <1>6, WriteGrown, DirectoryGrown
<1>9. Fits(img)' => Fits(img)
  <2>1. img' \in Image /\ img.nextbno <= img'.nextbno
    BY <1>2, <1>8 DEF Grown, Image
  <2>2. Fits(img)' <=> Fits(img')
    BY DEF Fits
  <2> QED BY <1>2, <2>1, <2>2, FitsBefore
<1>10. ASSUME Fits(img)'
       PROVE  Format(img) /\ todo \in Seq(TodoSet(DirSet(img))) /\ t \in TodoSet(DirSet(img))
  <2>1. Fits(img)
    BY <1>9, <1>10
  <2>2. Format(img) /\ todo \in Seq(TodoSet(DirSet(img)))
    BY <1>1, <2>1 DEF FormatInv
  <2> QED BY <1>1, <2>2 DEF t
<1>11. ASSUME Fits(img)'
       PROVE  /\ Formatted(img, img')
              /\ t.file.dir => f \in DirSet(img')
  <2>1. /\ Format(img) /\ t.dirf \in DirSet(img) /\ NamedPath(t.path) /\ Fits(img')
    BY <1>10, <1>11 DEF TodoSet, TaskSet, Fits
  <2>2. CASE t.file.dir
    <3>1. img' = write_directory(img, t.dirf, t.path)
      BY <1>1, <2>2
    <3> DEFINE e == img'
    <3>2. e = write_directory(img, t.dirf, t.path) /\ Fits(e)
      BY <2>1, <3>1
    <3> HIDE DEF e
    <3>3. Formatted(img, e) /\ create_file(img, t.dirf).f \in DirSet(e)
      BY <1>2, <2>1, <3>2, WriteDirectorySpec
    <3> QED BY <3>3 DEF e, f
  <2>3. CASE ~t.file.dir
    <3>1. img' = write_file(img, t.dirf, t.path, t.file.size)
      BY <1>1, <2>3
    <3> DEFINE e == img'
    <3>2. e = write_file(img, t.dirf, t.path, t.file.size) /\ Fits(e)
      BY <2>1, <3>1
    <3> HIDE DEF e
    <3>3. Formatted(img, e)
      BY <1>2, <1>6, <2>1, <3>2, WriteFileSpec
    <3> QED BY <2>3, <3>3 DEF e
  <2> QED BY <2>2, <2>3
<1>12. ASSUME Fits(img)'
       PROVE  todo' \in Seq(TodoSet(DirSet(img')))
  <2> DEFINE E == DirSet(img')
  <2>1. DirSet(img) \subseteq E
    BY <1>11, <1>12 DEF Formatted
  <2>2. TodoSet(DirSet(img)) \subseteq TodoSet(E)
    BY <2>1 DEF TodoSet, TaskSet
  <2>3. t.file.dir => f \in E
    BY <1>11, <1>12
  <2>4. todo \in Seq(TodoSet(DirSet(img)))
    BY <1>10, <1>12
  <2> HIDE DEF E
  <2>5. Tail(todo) \in Seq(TodoSet(E))
    BY <1>1, <2>2, <2>4
  <2>6. t.file.dir => Tasks(t.file.kids, f, t.path) \in Seq(TodoSet(E))
    BY <1>5, <1>6, <2>3, TodoType
  <2>7. t.file.dir => Tasks(t.file.kids, f, t.path) \o Tail(todo) \in Seq(TodoSet(E))
    BY <2>5, <2>6
  <2>8. todo' \in Seq(TodoSet(E))
    BY <1>1, <2>5, <2>7
  <2> QED BY <2>8 DEF E
<1>13. Fits(img)' => Format(img)' /\ todo' \in Seq(TodoSet(DirSet(img)))'
  BY <1>11, <1>12 DEF Formatted
<1>14. boot'.pc \in {"format", "failed"} /\ (boot'.pc = "format" => img'.assert)
  BY <1>7
<1>15. host' \in Hosts'
  BY <1>1 DEF FormatInv
<1> QED BY <1>13, <1>14, <1>15, Zenon DEF FormatInv

\* The steps that start the server leave the image alone.
LEMMA InvSteps ==
  ASSUME BootInv, FormatInv, read_super \/ check_write_block \/ read_bitmap \/ PowerCut
  PROVE  FormatInv'
<1>1. img' = img /\ host' = host /\ boot.pc \in Booting
  BY DEF read_super, check_write_block, read_bitmap, PowerCut, Step, Booting
<1>2. boot \in BootRec
  BY DEF BootInv
<1>3. boot'.pc \notin {"format", "failed"}
  <2>1. CASE read_super
    BY <1>2, <2>1 DEF read_super, Step, BootRec
  <2>2. CASE check_write_block
    BY <1>2, <2>2 DEF check_write_block, Step, BootRec
  <2>3. CASE read_bitmap
    <3>1. boot' = [boot EXCEPT !.pc = "panic"] \/ boot' = [boot EXCEPT !.pc = "serve"]
      BY <2>3, Zenon DEF read_bitmap, Step
    <3> QED BY <1>2, <3>1 DEF BootRec
  <2>4. CASE PowerCut
    <3>1. boot' = [boot EXCEPT !.pc = "off", !.page0 = "none", !.page1 = "none",
                               !.cut = @ \/ boot.disk1 = "oops"]
      BY <2>4 DEF PowerCut, Step
    <3> QED BY <1>2, <3>1 DEF BootRec
  <2> QED BY <2>1, <2>2, <2>3, <2>4
<1>4. Fits(img) => Served(img)
  BY <1>1 DEF FormatInv, Booting
<1>5. (Fits(img) => Served(img))'
  BY <1>1, <1>4, Zenon
<1>6. host' \in Hosts'
  BY <1>1 DEF FormatInv
<1> QED BY <1>3, <1>5, <1>6, Zenon DEF FormatInv

LEMMA InvFlush ==
  ASSUME BootInv, FormatInv, finish_fs
  PROVE  FormatInv'
<1>1. /\ boot.pc = "format" /\ img' = flush_bitmap(img) /\ host' = host
      /\ boot' = [boot EXCEPT !.pc = "off", !.disk1 = "super"]
  BY DEF finish_fs
<1>2. boot'.pc = "off" /\ img \in Image /\ img.assert
  BY <1>1 DEF BootInv, BootRec, FormatInv
<1>3. ASSUME Fits(img')
      PROVE  Served(img')
  <2>1. img'.nextbno = img.nextbno
    BY <1>1, <1>2, FlushSpec
  <2>2. Format(img)
    BY <1>1, <1>3, <2>1 DEF FormatInv, Fits
  <2> QED BY <1>1, <1>2, <2>2, ServedFlush
<1>4. host' \in Hosts'
  BY <1>1 DEF FormatInv
<1> QED BY <1>2, <1>3, <1>4 DEF FormatInv

LEMMA InvInit == Init => FormatInv
<1> SUFFICES ASSUME Init PROVE FormatInv
  OBVIOUS
<1>1. host \in Hosts /\ host \in Seq(HostFile) /\ img = init_disk /\ boot.pc = "format"
      /\ todo = Tasks(host, Root, <<>>)
  BY HostAssumption DEF Init
<1>2. Format(img) /\ Root \in DirSet(img)
  BY <1>1, FormatInit
<1>3. img.assert
  BY <1>1 DEF init_disk
<1>4. todo \in Seq(TodoSet(DirSet(img)))
  <2> DEFINE D == DirSet(img)
  <2>1. <<>> \in Seq(Names) /\ Root \in D
    BY <1>2
  <2> HIDE DEF D
  <2>2. todo \in Seq(TodoSet(D))
    BY <1>1, <2>1, TodoType
  <2> QED BY <2>2 DEF D
<1> QED BY <1>1, <1>2, <1>3, <1>4 DEF FormatInv

-----------------------------------------------------------------------------
(* Removing a file *)

LEMMA SetFreeSpec ==
  ASSUME NEW d \in Image, NEW a \in Block
  PROVE  LET e == SetFree(d, a)
         IN  /\ e \in Image /\ e.nextbno = d.nextbno /\ e.assert = d.assert /\ SameFiles(d, e)
             /\ \A b \in Block : block_is_free(e, b) <=> block_is_free(d, b) \/ b = a
<1> DEFINE at == bit_block(a)
           wa == <<bit_word(a), a % BIT2WORD>>
           e == SetFree(d, a)
           new == [b \in Block |-> IF b = at THEN [d.blk[b] EXCEPT !.bits = @ \union {wa}] ELSE d.blk[b]]
<1>0. a \in Nat /\ at \in Block /\ bit_word(a) \in Word /\ a % BIT2WORD \in Bit
  BY Bitmap, BitPlace, Sizes DEF Block
<1>w. wa \in Word \X Bit
  BY <1>0
<1>e. e = [d EXCEPT !.blk[at].bits = @ \union {wa}]
  BY Zenon DEF SetFree, bit_block, bit_word
<1> HIDE DEF at, wa, e
<1>1. e = [d EXCEPT !.blk = new]
  BY <1>e DEF Image
<1>2. ASSUME NEW b \in Block
      PROVE  /\ new[b] \in BlockRec /\ new[b].files = d.blk[b].files
             /\ new[b].index = d.blk[b].index
             /\ new[b].bits = IF b = at THEN d.blk[b].bits \union {wa} ELSE d.blk[b].bits
  <2>1. d.blk[b] \in BlockRec
    BY DEF Image
  <2>2. CASE b = at
    <3> DEFINE bits == d.blk[b].bits \union {wa}
    <3>1. new[b] = [d.blk[b] EXCEPT !.bits = bits]
      BY <2>2
    <3>2. bits \in SUBSET (Word \X Bit)
      BY <1>w, <2>1 DEF BlockRec
    <3> HIDE DEF new, bits
    <3>3. new[b] \in BlockRec /\ new[b].files = d.blk[b].files
          /\ new[b].index = d.blk[b].index /\ new[b].bits = bits
      BY <2>1, <3>1, <3>2 DEF BlockRec
    <3> QED BY <2>2, <3>3 DEF bits
  <2>3. CASE b # at
    BY <2>1, <2>3
  <2> QED BY <2>2, <2>3
<1>3. new \in [Block -> BlockRec]
  BY <1>2
<1> HIDE DEF new
<1>4. e \in Image /\ e.blk = new /\ e.nextbno = d.nextbno /\ e.assert = d.assert
  BY <1>1, <1>3 DEF Image
<1>5. ASSUME NEW b \in Block
      PROVE  block_is_free(e, b) <=> block_is_free(d, b) \/ b = a
  <2> DEFINE wb == <<bit_word(b), b % BIT2WORD>>
  <2>1. b \in Nat /\ b < NBLOCK /\ bit_block(b) \in Block
    BY Bitmap, Sizes DEF Block
  <2>2. bit_block(b) = at /\ wb = wa => b = a
    BY <1>0, <2>1, BitOwn DEF at, wa
  <2>3. b = a => bit_block(b) = at /\ wb = wa
    BY DEF at, wa
  <2>5. \A x : block_is_free(x, b) <=> wb \in x.blk[bit_block(b)].bits
    BY <2>1, FreeBit
  <2> HIDE DEF wb
  <2>4. e.blk[bit_block(b)].bits = IF bit_block(b) = at THEN d.blk[bit_block(b)].bits \union {wa}
                                   ELSE d.blk[bit_block(b)].bits
    BY <1>2, <1>4, <2>1
  <2> QED BY <2>2, <2>3, <2>4, <2>5
<1> QED BY <1>2, <1>4, <1>5 DEF e, SameFiles

\* The block of a pointer is freed, then the pointer is cleared.
LEMMA FreePtr ==
  ASSUME NEW d, Kept(d), FreeOK(d), NEW p \in Ptrs, NEW x, x = free_block(d, Ptr(d, p)),
         NEW e \in Image, e.nextbno = x.nextbno, SameBits(x, e), SetPtr(x, e, p, 0)
  PROVE  Kept(e) /\ FreeOK(e) /\ e.nextbno = d.nextbno /\ SetPtr(d, e, p, 0)
<1> DEFINE a == Ptr(d, p)
<1>0. d \in Image /\ d.nextbno \in Nat /\ d.nextbno <= NBLOCK /\ first_block \in Nat
  BY Bitmap DEF Kept, Image, first_block
<1>1. a # 0 => a \in Block /\ first_block <= a /\ a < NBLOCK
  BY PtrRange, Sizes DEF Block
<1>2. /\ x \in Image /\ x.nextbno = d.nextbno /\ SamePtrs(d, x)
      /\ \A b \in Block : block_is_free(x, b) <=> block_is_free(d, b) \/ (b = a /\ a # 0)
  <2>1. CASE a = 0
    BY <1>0, <2>1 DEF free_block, SamePtrs
  <2>2. CASE a # 0
    <3>1. a \in Block /\ ~(a >= NBLOCK)
      BY <1>1, <2>2, Sizes DEF Block
    <3>2. x = SetFree(d, a)
      BY <2>2, <3>1 DEF free_block
    <3> HIDE DEF a
    <3>3. x \in Image /\ x.nextbno = d.nextbno /\ SameFiles(d, x)
          /\ \A b \in Block : block_is_free(x, b) <=> block_is_free(d, b) \/ b = a
      BY <1>0, <3>1, <3>2, SetFreeSpec
    <3> QED BY <2>2, <3>3, FilesSame
  <2> QED BY <2>1, <2>2
<1>3. \A b \in Block : block_is_free(e, b) <=> block_is_free(x, b)
  BY Bitmap DEF SameBits, block_is_free, bit_block
<1>4. SetPtr(d, e, p, 0)
  BY <1>2 DEF SetPtr, SamePtrs
<1>5. d.nextbno <= e.nextbno /\ e.nextbno <= NBLOCK
  BY <1>0, <1>2, Next1
<1>6. Kept(e)
  BY <1>4, <1>5, KeptSet
<1>7. ASSUME NEW b \in Block, block_is_free(e, b)
      PROVE  first_block <= b /\ NoPtr(e, b)
  <2>1. block_is_free(d, b) \/ (b = a /\ a # 0)
    BY <1>2, <1>3, <1>7
  <2>2. first_block <= b /\ b # 0
    <3>1. first_block <= b
      BY <1>1, <2>1 DEF FreeOK
    <3>2. b \in Nat /\ first_block > 0
      BY Sizes, Bitmap DEF Block, first_block
    <3> QED BY <1>0, <3>1, <3>2
  <2>3. ASSUME NEW q \in Ptrs
        PROVE  Ptr(e, q) # b
    <3>1. CASE q = p
      BY <1>4, <2>2, <3>1 DEF SetPtr
    <3>2. CASE q # p
      <4>1. Ptr(e, q) = Ptr(d, q)
        BY <1>4, <3>2 DEF SetPtr
      <4>2. CASE block_is_free(d, b)
        BY <4>1, <4>2 DEF FreeOK, NoPtr
      <4>3. CASE b = a /\ a # 0
        BY <3>2, <4>1, <4>3 DEF Kept
      <4> QED BY <2>1, <4>2, <4>3
    <3> QED BY <3>1, <3>2
  <2> QED BY <2>2, <2>3 DEF NoPtr
<1>8. FreeOK(e)
  BY <1>7 DEF FreeOK
<1>9. e.nextbno = d.nextbno
  BY <1>2
<1> QED BY <1>4, <1>6, <1>8, <1>9

\* A pointer to an indirect block belongs to one file.
LEMMA IndirectTree ==
  ASSUME NEW d, NEW e, Kept(d), NEW f \in Place, NEW v, SetPtr(d, e, IndirectAt(f), v),
         NEW g \in Place, g # f
  PROVE  SameBlocks(d, e, g)
<1> SUFFICES ASSUME NEW i \in 0..(NINDIRECT - 1)
             PROVE  block_of(e, g, i) = block_of(d, g, i)
  BY DEF SameBlocks
<1>1. Ptr(e, IndirectAt(g)) = Ptr(d, IndirectAt(g))
  <2>1. IndirectAt(g) # IndirectAt(f)
    BY PtrsDiffer, Zenon
  <2> QED BY <2>1, PtrIn DEF SetPtr
<1>2. \A b \in Block : Ptr(e, IndexAt(b, i)) = Ptr(d, IndexAt(b, i))
  <2>1. \A b \in Block : IndexAt(b, i) # IndirectAt(f) /\ IndexAt(b, i) \in Ptrs
    BY PtrIn DEF DirectAt, IndirectAt, IndexAt
  <2> QED BY <2>1 DEF SetPtr
<1>3. CASE i < NDIRECT
  <2>1. DirectAt(g, i) \in Ptrs
    BY <1>3, DirectIndex
  <2>2. DirectAt(g, i) # IndirectAt(f)
    BY PtrsDiffer, Zenon
  <2>3. block_of(e, g, i) = Ptr(e, DirectAt(g, i)) /\ block_of(d, g, i) = Ptr(d, DirectAt(g, i))
    BY <1>3, BlockOf
  <2> QED BY <2>1, <2>2, <2>3 DEF SetPtr
<1>4. CASE ~(i < NDIRECT)
  <2>1. Ptr(d, IndirectAt(g)) # 0 => Ptr(d, IndirectAt(g)) \in Block
    BY IndirectBlock
  <2> QED BY <1>1, <1>2, <1>4, <2>1, BlockOf
<1> QED BY <1>3, <1>4

\* While file_truncate clears the blocks of f: what the server had before is s.
Clearing(s, x, f) ==
  /\ Kept(x) /\ FreeOK(x) /\ SameInfo(s, x) /\ x.nextbno = s.nextbno
  /\ \A g \in Place : g # f => SameBlocks(s, x, g)

LEMMA FreeBlockSame ==
  ASSUME NEW d, Kept(d), NEW p \in Ptrs, NEW x, x = free_block(d, Ptr(d, p))
  PROVE  /\ Kept(x) /\ x \in Image /\ x.nextbno = d.nextbno /\ SameInfo(d, x) /\ SamePtrs(d, x)
         /\ \A g \in Place : File(x, g) = File(d, g)
<1> DEFINE a == Ptr(d, p)
<1>0. d \in Image /\ d.nextbno \in Nat /\ d.nextbno <= NBLOCK
  BY DEF Kept, Image
<1>1. CASE a = 0
  BY <1>0, <1>1 DEF free_block, SamePtrs, SameInfo
<1>2. CASE a # 0
  <2>1. a \in Block /\ ~(a >= NBLOCK)
    BY <1>2, PtrRange, Sizes DEF Block
  <2>2. x = SetFree(d, a)
    BY <1>2, <2>1 DEF free_block
  <2> HIDE DEF a
  <2>3. x \in Image /\ x.nextbno = d.nextbno /\ SameFiles(d, x)
    BY <1>0, <2>1, <2>2, SetFreeSpec
  <2>4. SamePtrs(d, x) /\ SameInfo(d, x) /\ \A g \in Place : File(x, g) = File(d, g)
    BY <2>3, FilesSame
  <2>5. d.nextbno <= x.nextbno /\ x.nextbno <= NBLOCK
    BY <1>0, <2>3, Next1
  <2> QED BY <2>3, <2>4, <2>5, KeptSame
<1> QED BY <1>1, <1>2

LEMMA ClearStep ==
  ASSUME NEW s, NEW x, NEW f \in Place, Clearing(s, x, f), NEW i \in Nat
  PROVE  Clearing(s, file_clear_block(x, f, i), f)
<1> DEFINE a == block_of(x, f, i)
           y == free_block(x, a)
           z == file_clear_block(x, f, i)
<1>0. Kept(x) /\ FreeOK(x) /\ SameInfo(s, x) /\ x.nextbno = s.nextbno /\ x \in Image
  BY DEF Clearing, Kept
<1>1. CASE i >= NINDIRECT \/ a = 0
  BY <1>1 DEF file_clear_block
<1>2. CASE ~(i >= NINDIRECT) /\ a # 0
  <2> DEFINE p == PtrOf(x, f, i)
  <2>1. i \in 0..(NINDIRECT - 1) /\ a # 0
    BY <1>2, Sizes
  <2>2. p \in Ptrs /\ a = Ptr(x, p) /\ (~(i < NDIRECT) => Ptr(x, IndirectAt(f)) # 0)
    BY <1>0, <2>1, BlockPtr
  <2>3. y = free_block(x, Ptr(x, p))
    BY <2>2
  <2> HIDE DEF a, y, p
  <2>4. /\ Kept(y) /\ y \in Image /\ y.nextbno = x.nextbno /\ SameInfo(x, y) /\ SamePtrs(x, y)
        /\ \A g \in Place : File(y, g) = File(x, g)
    BY <1>0, <2>2, <2>3, FreeBlockSame
  <2>5. Written(y, z) /\ SetPtr(y, z, p, 0) /\ BlockSet(y, z, f, i, 0)
    <3>1. CASE i < NDIRECT
      <4>1. i \in 0..(NDIRECT - 1)
        BY <2>1, <3>1, DirectIndex
      <4>2. z = SetFile(y, f, [File(y, f) EXCEPT !.f_direct[i] = 0])
        BY <1>2, <3>1 DEF file_clear_block, a, y
      <4>3. p = DirectAt(f, i)
        BY <3>1 DEF p, PtrOf
      <4> HIDE DEF z
      <4>4. Written(y, z) /\ SetPtr(y, z, DirectAt(f, i), 0)
        BY <2>4, <4>1, <4>2, SetDirect
      <4>5. BlockSet(y, z, f, i, 0)
        BY <2>4, <4>1, <4>4, DirectTree
      <4> QED BY <4>3, <4>4, <4>5
    <3>2. CASE ~(i < NDIRECT)
      <4> DEFINE b == Ptr(x, IndirectAt(f))
      <4>1. b \in Block /\ b # 0
        BY <1>0, <2>2, <3>2, IndirectBlock
      <4>2. z = SetIndex(y, File(x, f).f_indirect, i, 0)
        BY <1>2, <3>2 DEF file_clear_block, a, y, SetIndex
      <4>3. z = SetIndex(y, b, i, 0)
        BY <4>2, IndirectValue
      <4>4. p = IndexAt(b, i)
        BY <3>2 DEF p, PtrOf
      <4>5. b = Ptr(y, IndirectAt(f))
        BY <2>4, PtrIn DEF SamePtrs
      <4> HIDE DEF z, b
      <4>6. Written(y, z) /\ SetPtr(y, z, IndexAt(b, i), 0)
        BY <2>1, <2>4, <4>1, <4>3, SetIndexed
      <4>7. BlockSet(y, z, f, i, 0)
        BY <2>1, <2>4, <3>2, <4>1, <4>5, <4>6, IndexTree
      <4> QED BY <4>4, <4>6, <4>7
    <3> QED BY <3>1, <3>2
  <2> HIDE DEF z
  <2>6. z \in Image /\ z.nextbno = y.nextbno /\ SameBits(y, z) /\ SameInfo(y, z)
    BY <2>5 DEF Written
  <2>7. Kept(z) /\ FreeOK(z) /\ z.nextbno = x.nextbno
    BY <1>0, <2>2, <2>3, <2>5, <2>6, FreePtr
  <2>8. SameInfo(s, z)
    BY <1>0, <2>4, <2>6 DEF SameInfo
  <2>9. ASSUME NEW g \in Place, g # f
        PROVE  SameBlocks(s, z, g)
    <3>1. SameBlocks(s, x, g)
      BY <2>9 DEF Clearing
    <3>2. SameBlocks(x, y, g)
      BY <1>0, <2>4, SameTree DEF SameBlocks
    <3>3. SameBlocks(y, z, g)
      BY <2>5, <2>9 DEF BlockSet, SameBlocks
    <3> QED BY <3>1, <3>2, <3>3 DEF SameBlocks
  <2>10. z.nextbno = s.nextbno
    BY <1>0, <2>7
  <2>11. Clearing(s, z, f)
    BY <2>7, <2>8, <2>9, <2>10 DEF Clearing
  <2> QED BY <2>11 DEF z
<1> QED BY <1>1, <1>2

\* The states of file_truncate's loop.
Clears(c, d, f, n) ==
  c = [i \in 0..n |-> IF i = 0 THEN d ELSE file_clear_block(c[i - 1], f, i - 1)]

LEMMA ClearsExist ==
  ASSUME NEW d, NEW f \in Place, Clearing(d, d, f), NEW n \in Nat
  PROVE  \E c : Clears(c, d, f, n)
<1> DEFINE D == {x \in Image : Clearing(d, x, f)}
           turn == [i \in 1..n |-> [x \in D |-> file_clear_block(x, f, i - 1)]]
<1>1. \A i \in 1..n : \A x \in D : turn[i][x] = file_clear_block(x, f, i - 1)
  OBVIOUS
<1>2. d \in D
  BY DEF Clearing, Kept
<1> HIDE DEF turn
<1>3. \A i \in 1..n : \A x \in D : turn[i][x] \in D
  <2> TAKE i \in 1..n
  <2> TAKE x \in D
  <2>1. i - 1 \in Nat /\ Clearing(d, x, f)
    OBVIOUS
  <2>2. Clearing(d, file_clear_block(x, f, i - 1), f)
    BY <2>1, ClearStep
  <2>3. file_clear_block(x, f, i - 1) \in Image
    BY <2>2 DEF Clearing, Kept
  <2> QED BY <1>1, <2>2, <2>3
<1> HIDE DEF D
<1>p. PICK c : Turns(c, n, D, d, turn)
  BY <1>2, <1>3, LoopExists
<1>4. /\ c = [i \in 0..n |-> IF i = 0 THEN d ELSE turn[i][c[i - 1]]]
      /\ \A i \in 0..n : c[i] \in D
  BY <1>p, Zenon DEF Turns
<1>5. \A i \in 0..n : (IF i = 0 THEN d ELSE turn[i][c[i - 1]])
                     = IF i = 0 THEN d ELSE file_clear_block(c[i - 1], f, i - 1)
  <2> TAKE i \in 0..n
  <2>1. i = 0 \/ (i \in 1..n /\ i - 1 \in 0..n)
    OBVIOUS
  <2> QED BY <1>1, <1>4, <2>1, Zenon
<1>6. [i \in 0..n |-> IF i = 0 THEN d ELSE turn[i][c[i - 1]]]
      = [i \in 0..n |-> IF i = 0 THEN d ELSE file_clear_block(c[i - 1], f, i - 1)]
  BY <1>5, Zenon
<1>7. Clears(c, d, f, n)
  BY <1>4, <1>6, Zenon DEF Clears
<1> QED BY <1>7

LEMMA ClearsKeep ==
  ASSUME NEW d, NEW f \in Place, Clearing(d, d, f), NEW n \in Nat, NEW c, Clears(c, d, f, n)
  PROVE  Clearing(d, c[n], f)
<1>1. \A i \in 0..n : c[i] = IF i = 0 THEN d ELSE file_clear_block(c[i - 1], f, i - 1)
  BY Zenon DEF Clears
<1> DEFINE S == {i \in 0..n : Clearing(d, c[i], f)}
<1>2. 0 \in S
  BY <1>1
<1>3. ASSUME NEW k \in 0..(n - 1), k \in S
      PROVE  k + 1 \in S
  <2>1. k + 1 \in 0..n /\ k + 1 # 0 /\ (k + 1) - 1 = k /\ k \in Nat /\ Clearing(d, c[k], f)
    BY <1>3
  <2>2. c[k + 1] = file_clear_block(c[k], f, k)
    BY <1>1, <2>1
  <2> QED BY <2>1, <2>2, ClearStep
<1> HIDE DEF S
<1>4. \A k \in 0..n : k \in S
  BY <1>2, <1>3, Counting
<1> QED BY <1>4 DEF S

LEMMA ClearRec ==
  ASSUME NEW r \in FileRec, NEW n \in Nat
  PROVE  LET t == [r EXCEPT !.f_indirect = n, !.f_size = n]
         IN  t \in FileRec /\ t.f_indirect = n /\ t.f_size = n /\ t.f_direct = r.f_direct
             /\ t.f_name = r.f_name /\ t.f_type = r.f_type
BY DEF FileRec

\* The file has no blocks any more, and its other blocks stay as they were.
LEMMA TruncateSpec ==
  ASSUME NEW d, Served(d), NEW f \in Place
  PROVE  Served(file_truncate(d, f)) /\ file_truncate(d, f).nextbno = d.nextbno
<1> DEFINE n == File(d, f).f_size \div BY2BLK + 1
           c == CHOOSE g : Clears(g, d, f, n)
           e == c[n]
           g == free_block(e, File(e, f).f_indirect)
           rec == [File(g, f) EXCEPT !.f_indirect = 0, !.f_size = 0]
           z == file_truncate(d, f)
<1>0. Kept(d) /\ FreeOK(d) /\ d \in Image /\ \A h \in Place : Complete(d, h)
  BY DEF Served, Kept
<1>1. z = SetFile(g, f, rec)
  BY DEF file_truncate, Clears
<1>2. n \in Nat
  BY <1>0, SizeType, Blocks
<1> HIDE DEF n
<1>3. Clearing(d, d, f)
  BY <1>0 DEF Clearing, SameInfo, SameBlocks
<1>4. Clears(c, d, f, n)
  BY <1>2, <1>3, ClearsExist
<1> HIDE DEF c
<1>5. Clearing(d, e, f)
  BY <1>2, <1>3, <1>4, ClearsKeep
<1> HIDE DEF e
<1> DEFINE p == IndirectAt(f)
<1>6. p \in Ptrs /\ File(e, f).f_indirect = Ptr(e, p)
  BY PtrIn, IndirectValue
<1>7. Kept(e) /\ FreeOK(e) /\ SameInfo(d, e) /\ e.nextbno = d.nextbno
  BY <1>5 DEF Clearing
<1>8. g = free_block(e, Ptr(e, p))
  BY <1>6
<1> HIDE DEF g
<1>9. /\ Kept(g) /\ g \in Image /\ g.nextbno = e.nextbno /\ SameInfo(e, g) /\ SamePtrs(e, g)
      /\ \A h \in Place : File(g, h) = File(e, h)
  BY <1>6, <1>7, <1>8, FreeBlockSame
<1>10. /\ rec \in FileRec /\ rec.f_indirect = 0 /\ rec.f_size = 0
       /\ rec.f_direct = File(g, f).f_direct
  BY <1>9, SizeType, ClearRec
<1> HIDE DEF rec, z
<1>11. FileSet(g, z, f, rec) /\ SetPtr(g, z, p, 0)
  BY <1>1, <1>9, <1>10, SetIndirect, Zenon
<1>12. z \in Image /\ z.nextbno = g.nextbno /\ SameBits(g, z)
       /\ \A h \in Place : File(z, h) = IF h = f THEN rec ELSE File(g, h)
  BY <1>11 DEF FileSet
<1>13. Kept(z) /\ FreeOK(z) /\ z.nextbno = e.nextbno
  BY <1>6, <1>7, <1>8, <1>11, <1>12, FreePtr
<1>14. ASSUME NEW h \in Place
       PROVE  Complete(z, h)
  <2>1. CASE h = f
    <3>1. CeilDiv(File(z, h).f_size, BY2BLK) = 0
      BY <1>10, <1>12, <2>1, ZeroBlocks
    <3>2. 0..(0 - 1) = {}
      OBVIOUS
    <3> QED BY <3>1, <3>2 DEF Complete
  <2>2. CASE h # f
    <3>1. SameBlocks(d, e, h)
      BY <1>5, <2>2 DEF Clearing
    <3>2. SameBlocks(e, g, h)
      BY <1>7, <1>9, SameTree DEF SameBlocks
    <3>3. SameBlocks(g, z, h)
      BY <1>9, <1>11, <2>2, IndirectTree
    <3>4. SameBlocks(d, z, h)
      BY <3>1, <3>2, <3>3 DEF SameBlocks
    <3>5. File(z, h).f_size = File(d, h).f_size
      BY <1>7, <1>9, <1>12, <2>2 DEF SameInfo
    <3> QED BY <1>0, <3>4, <3>5, CompleteSame
  <2> QED BY <2>1, <2>2
<1>15. z.nextbno = d.nextbno
  BY <1>7, <1>13
<1> QED BY <1>13, <1>14, <1>15, Zenon DEF Served, z

\* A File of a served image gets another name.
LEMMA RenameRec ==
  ASSUME NEW r \in FileRec, NEW name \in Names
  PROVE  LET t == [r EXCEPT !.f_name = name]
         IN  t \in FileRec /\ t.f_indirect = r.f_indirect /\ t.f_size = r.f_size
             /\ t.f_direct = r.f_direct
BY DEF FileRec

LEMMA RenameSpec ==
  ASSUME NEW d, Served(d), NEW f \in Place, NEW name \in Names
  PROVE  LET e == SetFile(d, f, [File(d, f) EXCEPT !.f_name = name])
         IN  Served(e) /\ e.nextbno = d.nextbno
<1> DEFINE rec == [File(d, f) EXCEPT !.f_name = name]
           e == SetFile(d, f, rec)
<1>0. Kept(d) /\ FreeOK(d) /\ d \in Image /\ \A h \in Place : Complete(d, h)
  BY DEF Served, Kept
<1>1. rec \in FileRec /\ rec.f_indirect = File(d, f).f_indirect
      /\ rec.f_direct = File(d, f).f_direct /\ rec.f_size = File(d, f).f_size
  BY <1>0, SizeType, RenameRec
<1> HIDE DEF rec
<1>2. FileSet(d, e, f, rec) /\ SamePtrs(d, e)
  BY <1>0, <1>1, SetInfo
<1> HIDE DEF e
<1>3. /\ e \in Image /\ e.nextbno = d.nextbno /\ SameBits(d, e)
      /\ \A h \in Place : File(e, h) = IF h = f THEN rec ELSE File(d, h)
  BY <1>2 DEF FileSet
<1>4. d.nextbno <= e.nextbno /\ e.nextbno <= NBLOCK
  BY <1>0, <1>3, Next1 DEF Kept, Image
<1>5. Kept(e)
  BY <1>0, <1>2, <1>3, <1>4, KeptSame
<1>6. FreeOK(e)
  <2>1. \A b \in Block : block_is_free(e, b) <=> block_is_free(d, b)
    BY <1>3, Bitmap DEF SameBits, block_is_free, bit_block
  <2> QED BY <1>0, <1>2, <2>1 DEF FreeOK, NoPtr, SamePtrs
<1>7. ASSUME NEW h \in Place
      PROVE  Complete(e, h)
  <2>1. SameBlocks(d, e, h)
    BY <1>0, <1>2, SameTree DEF SameBlocks
  <2>2. File(e, h).f_size = File(d, h).f_size
    BY <1>1, <1>3
  <2> QED BY <1>0, <2>1, <2>2, CompleteSame
<1> QED BY <1>3, <1>5, <1>6, <1>7, Zenon DEF Served, e, rec

\* Looking up a name ends at a File.
Walked == [ret : {"ok", "E_NOT_FOUND", "E_BAD_PATH"}, file : Place]

LEMMA WalkName ==
  ASSUME NEW d, Served(d), NEW w \in Walked, NEW name
  PROVE  walk_name(d, w, name) \in Walked
<1>0. w.file \in Place
  BY DEF Walked
<1>1. dir_lookup(d, w.file, name) \in Walked
  <2> DEFINE dir == w.file
             f == first_file(d, dir, name)
  <2>1. CASE f = <<>>
    <3>1. dir_lookup(d, dir, name) = [ret |-> "E_NOT_FOUND", file |-> dir]
      BY <2>1 DEF dir_lookup
    <3> QED BY <1>0, <3>1 DEF Walked
  <2>2. CASE f # <<>>
    <3>1. dir_lookup(d, dir, name) = [ret |-> "ok", file |-> f]
      BY <2>2 DEF dir_lookup
    <3>2. Kept(d) /\ Complete(d, dir)
      BY <1>0 DEF Served
    <3>3. f \in Place
      BY <1>0, <2>2, <3>2, FirstFile
    <3> HIDE DEF f
    <3> QED BY <3>1, <3>3 DEF Walked
  <2> QED BY <2>1, <2>2
<1>2. [w EXCEPT !.ret = "E_BAD_PATH"] \in Walked /\ [w EXCEPT !.ret = "E_NOT_FOUND"] \in Walked
  BY DEF Walked
<1> QED BY <1>1, <1>2, Zenon DEF walk_name

Walks(c, d, path, n) ==
  c = [i \in 0..n |-> IF i = 0 THEN [ret |-> "ok", file |-> Root]
                      ELSE walk_name(d, c[i - 1], path[i])]

LEMMA WalksExist ==
  ASSUME NEW d, Served(d), NEW path, NEW n \in Nat
  PROVE  \E c : Walks(c, d, path, n)
<1> DEFINE top == [ret |-> "ok", file |-> Root]
           turn == [i \in 1..n |-> [w \in Walked |-> walk_name(d, w, path[i])]]
<1>1. \A i \in 1..n : \A w \in Walked : turn[i][w] = walk_name(d, w, path[i])
  OBVIOUS
<1>2. top \in Walked
  BY FormatInit DEF Walked, DirSet
<1> HIDE DEF turn
<1>3. \A i \in 1..n : \A w \in Walked : turn[i][w] \in Walked
  BY <1>1, WalkName
<1> HIDE DEF top
<1>p. PICK c : Turns(c, n, Walked, top, turn)
  BY <1>2, <1>3, LoopExists
<1>4. /\ c = [i \in 0..n |-> IF i = 0 THEN top ELSE turn[i][c[i - 1]]]
      /\ \A i \in 0..n : c[i] \in Walked
  BY <1>p, Zenon DEF Turns
<1>5. \A i \in 0..n : (IF i = 0 THEN top ELSE turn[i][c[i - 1]])
                     = IF i = 0 THEN top ELSE walk_name(d, c[i - 1], path[i])
  <2> TAKE i \in 0..n
  <2>1. i = 0 \/ (i \in 1..n /\ i - 1 \in 0..n)
    OBVIOUS
  <2> QED BY <1>1, <1>4, <2>1, Zenon
<1>6. [i \in 0..n |-> IF i = 0 THEN top ELSE turn[i][c[i - 1]]]
      = [i \in 0..n |-> IF i = 0 THEN top ELSE walk_name(d, c[i - 1], path[i])]
  BY <1>5, Zenon
<1>7. Walks(c, d, path, n)
  BY <1>4, <1>6, Zenon DEF Walks, top
<1> QED BY <1>7

LEMMA WalkPath ==
  ASSUME NEW d, Served(d), NEW path \in Seq(Names)
  PROVE  walk_path(d, path) \in Walked
<1> DEFINE n == Len(path)
           c == CHOOSE g : Walks(g, d, path, n)
           top == [ret |-> "ok", file |-> Root]
<1>1. walk_path(d, path) = c[n] /\ n \in Nat
  BY DEF walk_path, Walks
<1>t. top \in Walked
  BY FormatInit DEF Walked, DirSet
<1> HIDE DEF n
<1>2. Walks(c, d, path, n)
  BY <1>1, WalksExist
<1> HIDE DEF c
<1>3. \A i \in 0..n : c[i] = IF i = 0 THEN top ELSE walk_name(d, c[i - 1], path[i])
  BY <1>2, Zenon DEF Walks
<1> HIDE DEF top
<1> DEFINE S == {i \in 0..n : c[i] \in Walked}
<1>4. 0 \in S
  BY <1>1, <1>3, <1>t
<1>5. ASSUME NEW k \in 0..(n - 1), k \in S
      PROVE  k + 1 \in S
  <2>1. k + 1 \in 0..n /\ k + 1 # 0 /\ (k + 1) - 1 = k /\ c[k] \in Walked
    BY <1>1, <1>5
  <2>2. c[k + 1] = walk_name(d, c[k], path[k + 1])
    BY <1>3, <2>1
  <2> QED BY <2>1, <2>2, WalkName
<1> HIDE DEF S
<1>6. \A k \in 0..n : k \in S
  BY <1>1, <1>4, <1>5, Counting
<1>7. n \in S
  BY <1>1, <1>6
<1> QED BY <1>1, <1>7 DEF S

\* The host's files have paths.
Paths(S) == \A h \in S : h.path \in Seq(Names) /\ h.file.kids \in Seq(HostFile)

LEMMA LevelPaths ==
  ASSUME NEW S, Paths(S)
  PROVE  Paths(Level(S))
<1> SUFFICES ASSUME NEW h \in S, NEW k \in ToSet(h.file.kids),
                    NEW x, x = [path |-> Append(h.path, k.name), file |-> k]
             PROVE  x.path \in Seq(Names) /\ x.file.kids \in Seq(HostFile)
  BY DEF Paths, Level
<1>1. h.path \in Seq(Names) /\ h.file.kids \in Seq(HostFile)
  BY DEF Paths
<1>2. k \in HostFile
  BY <1>1 DEF ToSet
<1>3. k.name \in Names /\ k.kids \in Seq(HostFile)
  BY <1>2, HostAssumption DEF Names
<1>4. x.path = Append(h.path, k.name) /\ x.file = k
  OBVIOUS
<1> QED BY <1>1, <1>3, <1>4

LEMMA HostPaths ==
  ASSUME host \in Hosts
  PROVE  Paths(HostFiles)
<1> DEFINE top == {[path |-> <<>>, file |-> [name |-> "/", dir |-> TRUE, size |-> 0, kids |-> host]]}
<1>1. Paths(top)
  <2>1. host \in Seq(HostFile)
    BY HostAssumption
  <2>2. <<>> \in Seq(Names)
    OBVIOUS
  <2>3. ASSUME NEW h \in top
        PROVE  h.path = <<>> /\ h.file.kids = host
    <3>1. h = [path |-> <<>>, file |-> [name |-> "/", dir |-> TRUE, size |-> 0, kids |-> host]]
      OBVIOUS
    <3> HIDE DEF top
    <3>2. h.path = <<>>
      BY <3>1
    <3> DEFINE dir == [name |-> "/", dir |-> TRUE, size |-> 0, kids |-> host]
    <3>3. h.file = dir
      BY <3>1
    <3>4. dir.kids = host
      OBVIOUS
    <3> QED BY <3>2, <3>3, <3>4
  <2> HIDE DEF top
  <2> QED BY <2>1, <2>2, <2>3 DEF Paths
<1>2. HostFiles = top \union Level(top) \union Level(Level(top)) \union Level(Level(Level(top)))
  BY DEF HostFiles
<1> HIDE DEF top
<1>3. Paths(Level(top))
  BY <1>1, LevelPaths, Zenon
<1>4. Paths(Level(Level(top)))
  BY <1>3, LevelPaths, Zenon
<1>5. Paths(Level(Level(Level(top))))
  BY <1>4, LevelPaths, Zenon
<1> QED BY <1>1, <1>2, <1>3, <1>4, <1>5, Zenon DEF Paths

LEMMA InvRemove ==
  ASSUME FormatInv, Fits(img), NEW h \in HostFiles, file_remove(h.path)
  PROVE  FormatInv'
<1> DEFINE path == h.path
           w == walk_path(img, path)
           d == file_truncate(img, w.file)
<1>1. /\ boot.pc = "serve" /\ boot' = boot /\ host' = host
      /\ img' = SetFile(d, w.file, [File(d, w.file) EXCEPT !.f_name = ""])
  BY Zenon DEF file_remove
<1>2. path \in Seq(Names) /\ host \in Hosts
  BY HostPaths DEF FormatInv, Paths
<1>3. ASSUME Served(img)
      PROVE  Served(img') /\ img'.nextbno = img.nextbno
  <2>1. w \in Walked
    <3> HIDE DEF path
    <3> QED BY <1>2, <1>3, WalkPath
  <2> HIDE DEF w
  <2> DEFINE f == w.file
             none == ""
  <2>2. f \in Place /\ none \in Names
    BY <2>1 DEF Walked, Names
  <2>3. img' = SetFile(d, f, [File(d, f) EXCEPT !.f_name = none])
    BY <1>1
  <2>4. d = file_truncate(img, f)
    OBVIOUS
  <2> HIDE DEF f, none, d
  <2>5. Served(d) /\ d.nextbno = img.nextbno
    BY <1>3, <2>2, <2>4, TruncateSpec
  <2> QED BY <2>2, <2>3, <2>5, RenameSpec
<1>4. boot'.pc = "serve" /\ host' \in Hosts'
  BY <1>1, <1>2
<1>5. Fits(img') => Served(img')
  <2>1. Fits(img) => Served(img)
    BY <1>1 DEF FormatInv
  <2> QED BY <1>3, <2>1
<1> QED BY <1>4, <1>5 DEF FormatInv

-----------------------------------------------------------------------------
(* What holds of a served image *)

NamesInv == BootInv /\ FormatInv

\* The size of a complete file.
LEMMA CompleteSize ==
  ASSUME NEW d \in Image, NEW f \in Place, Complete(d, f)
  PROVE  /\ CeilDiv(File(d, f).f_size, BY2BLK) \in 0..NINDIRECT
         /\ File(d, f).f_size <= NINDIRECT * BY2BLK
<1> DEFINE size == File(d, f).f_size
           n == CeilDiv(size, BY2BLK)
<1>1. size \in Nat /\ n \in Nat /\ BY2BLK * n >= size /\ BY2BLK * n \in Nat
  BY SizeType, Blocks
<1>2. \A i \in 0..(n - 1) : i < NINDIRECT
  BY DEF Complete
<1> HIDE DEF size, n
<1>3. n <= NINDIRECT
  <2> SUFFICES ASSUME ~(n <= NINDIRECT) PROVE FALSE
    OBVIOUS
  <2>1. NINDIRECT \in 0..(n - 1)
    BY <1>1, Sizes
  <2> QED BY <1>2, <2>1, Sizes
<1>4. size <= NINDIRECT * BY2BLK
  <2>1. BY2BLK * (NINDIRECT - n) \in Nat
    BY <1>1, <1>3, Sizes
  <2>2. BY2BLK * (NINDIRECT - n) = NINDIRECT * BY2BLK - BY2BLK * n
    BY <1>1, Sizes
  <2>3. NINDIRECT * BY2BLK \in Nat
    BY Sizes
  <2> QED BY <1>1, <2>1, <2>2, <2>3
<1> QED BY <1>1, <1>3, <1>4, Sizes DEF size, n

LEMMA KeptImage ==
  ASSUME NEW d, Kept(d), NEW b \in Block, NEW k \in Slots
  PROVE  /\ d.nextbno \in 0..NBLOCK
         /\ d.blk[b].files[k].f_indirect \in Block
         /\ Complete(d, <<b, k>>) => d.blk[b].files[k].f_size <= NINDIRECT * BY2BLK
<1> DEFINE f == <<b, k>>
<1>1. f \in Place /\ File(d, f) = d.blk[b].files[k]
  BY DEF Place, File
<1>2. d \in Image /\ d.nextbno \in Nat /\ d.nextbno <= NBLOCK
  BY DEF Kept, Image
<1> HIDE DEF f
<1>3. IndirectAt(f) \in Ptrs /\ File(d, f).f_indirect = Ptr(d, IndirectAt(f))
  BY <1>1, PtrIn, IndirectValue
<1>4. Ptr(d, IndirectAt(f)) # 0 => Ptr(d, IndirectAt(f)) \in Block
  BY <1>3, PtrRange
<1>5. 0 \in Block
  BY Sizes DEF Block
<1>6. Complete(d, f) => File(d, f).f_size <= NINDIRECT * BY2BLK
  BY <1>1, <1>2, CompleteSize
<1> QED BY <1>1, <1>2, <1>3, <1>4, <1>5, <1>6, Sizes DEF f

LEMMA InvTypes ==
  ASSUME NamesInv, Fits(img)
  PROVE  TypeOK
<1>1. Kept(img) /\ (img.assert => \A f \in Place : Complete(img, f))
  <2>1. CASE boot.pc \in {"format", "failed"}
    <3>1. Format(img)
      BY <2>1 DEF NamesInv, FormatInv
    <3> QED BY <3>1 DEF Format
  <2>2. CASE boot.pc \notin {"format", "failed"}
    <3>1. Served(img)
      BY <2>2 DEF NamesInv, FormatInv
    <3> QED BY <3>1 DEF Served
  <2> QED BY <2>1, <2>2
<1>2. 0 \in Block /\ 0 \in Slots
  BY Sizes DEF Block, Slots
<1>3. img.nextbno \in 0..NBLOCK
  BY <1>1, <1>2, KeptImage
<1>4. ASSUME NEW b \in Block, NEW k \in Slots
      PROVE  /\ img.assert => img.blk[b].files[k].f_size <= NINDIRECT * BY2BLK
             /\ img.blk[b].files[k].f_indirect \in Block
  <2>1. <<b, k>> \in Place
    BY DEF Place
  <2> QED BY <1>1, <2>1, KeptImage
<1>5. boot.pc \in Pcs /\ boot.cut \in BOOLEAN /\ {boot.page0, boot.page1, boot.disk1} \subseteq Pages
  <2>1. boot \in BootRec
    BY DEF NamesInv, BootInv
  <2> QED BY <2>1 DEF BootRec
<1>6. host \in Hosts
  BY DEF NamesInv, FormatInv
<1> QED BY <1>3, <1>4, <1>5, <1>6, Zenon DEF TypeOK, Pages

\* Where the pointers to the blocks of a file are.
Own(d, f) == {PtrOf(d, f, i) : i \in 0..(CeilDiv(File(d, f).f_size, BY2BLK) - 1)}
               \union {IndirectAt(f)}

\* No pointer is of two files.
LEMMA OwnPtrs ==
  ASSUME NEW d, Served(d), NEW f \in Place, NEW g \in Place, NEW p \in Own(d, f), p \in Own(d, g)
  PROVE  p \in Ptrs /\ (Ptr(d, p) # 0 => f = g)
<1>0. Kept(d) /\ d \in Image /\ Complete(d, f) /\ Complete(d, g)
  BY DEF Served, Kept
<1>1. ASSUME NEW h \in Place, NEW q \in Own(d, h)
      PROVE  \/ q = IndirectAt(h)
             \/ \E i \in 0..(NINDIRECT - 1) : q = DirectAt(h, i)
             \/ Ptr(d, IndirectAt(h)) # 0 /\ Ptr(d, IndirectAt(h)) \in Block
                 /\ \E i \in 0..(NINDIRECT - 1) : q = IndexAt(Ptr(d, IndirectAt(h)), i)
  <2> SUFFICES ASSUME NEW i \in 0..(CeilDiv(File(d, h).f_size, BY2BLK) - 1), q = PtrOf(d, h, i)
               PROVE  \/ \E j \in 0..(NINDIRECT - 1) : q = DirectAt(h, j)
                      \/ Ptr(d, IndirectAt(h)) # 0 /\ Ptr(d, IndirectAt(h)) \in Block
                          /\ \E j \in 0..(NINDIRECT - 1) : q = IndexAt(Ptr(d, IndirectAt(h)), j)
    BY DEF Own
  <2>1. CeilDiv(File(d, h).f_size, BY2BLK) \in Nat
    BY <1>0, SizeType, Blocks
  <2>2. i < NINDIRECT /\ block_of(d, h, i) # 0
    BY DEF Served, Complete
  <2>3. i \in 0..(NINDIRECT - 1)
    BY <2>1, <2>2, Sizes
  <2>4. ~(i < NDIRECT) => Ptr(d, IndirectAt(h)) # 0
    BY <1>0, <2>2, <2>3, BlockPtr
  <2>5. Ptr(d, IndirectAt(h)) # 0 => Ptr(d, IndirectAt(h)) \in Block
    BY <1>0, IndirectBlock
  <2> QED BY <2>3, <2>4, <2>5 DEF PtrOf
<1>2. p \in Ptrs
  <2> SUFFICES ASSUME NEW i \in 0..(CeilDiv(File(d, f).f_size, BY2BLK) - 1), p = PtrOf(d, f, i)
               PROVE  p \in Ptrs
    BY PtrIn DEF Own
  <2>1. CeilDiv(File(d, f).f_size, BY2BLK) \in Nat
    BY <1>0, SizeType, Blocks
  <2>2. i < NINDIRECT /\ block_of(d, f, i) # 0
    BY <1>0 DEF Complete
  <2>3. i \in 0..(NINDIRECT - 1)
    BY <2>1, <2>2, Sizes
  <2> QED BY <1>0, <2>2, <2>3, BlockPtr
<1>3. CASE p = IndirectAt(f)
  <2>1. \A i : p # DirectAt(g, i) /\ p # IndexAt(Ptr(d, IndirectAt(g)), i)
    BY <1>3 DEF DirectAt, IndirectAt, IndexAt
  <2>2. p = IndirectAt(g)
    BY <1>1, <2>1
  <2> QED BY <1>2, <1>3, <2>2, PtrsDiffer, Zenon
<1>4. CASE \E i \in 0..(NINDIRECT - 1) : p = DirectAt(f, i)
  <2>1. PICK i \in 0..(NINDIRECT - 1) : p = DirectAt(f, i)
    BY <1>4
  <2>2. p # IndirectAt(g) /\ \A j : p # IndexAt(Ptr(d, IndirectAt(g)), j)
    BY <2>1 DEF DirectAt, IndirectAt, IndexAt
  <2>3. PICK j \in 0..(NINDIRECT - 1) : p = DirectAt(g, j)
    BY <1>1, <2>2
  <2>4. DirectAt(f, i) = DirectAt(g, j)
    BY <2>1, <2>3
  <2>5. f = g
    BY <2>4, PtrsDiffer, Zenon
  <2> QED BY <1>2, <2>5
<1>5. CASE Ptr(d, IndirectAt(f)) # 0 /\ Ptr(d, IndirectAt(f)) \in Block
           /\ \E i \in 0..(NINDIRECT - 1) : p = IndexAt(Ptr(d, IndirectAt(f)), i)
  <2>1. PICK i \in 0..(NINDIRECT - 1) : p = IndexAt(Ptr(d, IndirectAt(f)), i)
    BY <1>5
  <2>2. p # IndirectAt(g) /\ \A j : p # DirectAt(g, j)
    BY <2>1 DEF DirectAt, IndirectAt, IndexAt
  <2>3. PICK j \in 0..(NINDIRECT - 1) : p = IndexAt(Ptr(d, IndirectAt(g)), j)
    BY <1>1, <2>2
  <2>4. Ptr(d, IndirectAt(f)) = Ptr(d, IndirectAt(g))
    BY <2>1, <2>3 DEF IndexAt
  <2>5. IndirectAt(f) = IndirectAt(g)
    BY <1>0, <1>5, <2>4, PtrIn DEF Kept
  <2> QED BY <1>2, <2>5, PtrsDiffer, Zenon
<1> QED BY <1>1, <1>3, <1>4, <1>5

\* A block of a file is the value of one of its pointers.
LEMMA OwnedPtr ==
  ASSUME Served(img), NEW f \in Place, NEW b \in Owned(f)
  PROVE  b # 0 /\ \E p \in Own(img, f) : p \in Ptrs /\ b = Ptr(img, p)
<1>0. Kept(img) /\ img \in Image /\ Complete(img, f)
  BY DEF Served, Kept
<1>1. CASE b \in {File(img, f).f_indirect} \ {0}
  <2>1. b # 0 /\ b = Ptr(img, IndirectAt(f))
    BY <1>1, IndirectValue
  <2> QED BY <2>1, PtrIn DEF Own
<1>2. CASE \E i \in 0..(NBlocks(f) - 1) : b = block_of(img, f, i)
  <2>1. PICK i \in 0..(CeilDiv(File(img, f).f_size, BY2BLK) - 1) : b = block_of(img, f, i)
    BY <1>2 DEF NBlocks
  <2>2. CeilDiv(File(img, f).f_size, BY2BLK) \in Nat
    BY <1>0, SizeType, Blocks
  <2>3. i < NINDIRECT /\ b # 0
    BY <1>0, <2>1 DEF Complete
  <2>4. i \in 0..(NINDIRECT - 1)
    BY <2>2, <2>3, Sizes
  <2>5. PtrOf(img, f, i) \in Ptrs /\ b = Ptr(img, PtrOf(img, f, i))
    BY <1>0, <2>1, <2>3, <2>4, BlockPtr
  <2> QED BY <2>3, <2>5 DEF Own
<1> QED BY <1>1, <1>2 DEF Owned

\* No block is in a file twice.
LEMMA OwnedCount ==
  ASSUME Served(img), NEW f \in Place
  PROVE  Cardinality(Owned(f)) = NBlocks(f) + (IF File(img, f).f_indirect = 0 THEN 0 ELSE 1)
<1> DEFINE n == NBlocks(f)
           I == 0..(n - 1)
           B == {block_of(img, f, i) : i \in I}
           x == File(img, f).f_indirect
           m == [i \in I |-> block_of(img, f, i)]
<1>0. Kept(img) /\ img \in Image /\ Complete(img, f)
  BY DEF Served, Kept
<1>1. n \in Nat
  BY <1>0, SizeType, Blocks DEF NBlocks
<1>2. x = Ptr(img, IndirectAt(f)) /\ IndirectAt(f) \in Ptrs
  BY IndirectValue, PtrIn
<1>3. ASSUME NEW i \in I
      PROVE  /\ i \in 0..(NINDIRECT - 1) /\ block_of(img, f, i) # 0
             /\ PtrOf(img, f, i) \in Ptrs /\ block_of(img, f, i) = Ptr(img, PtrOf(img, f, i))
             /\ PtrOf(img, f, i) # IndirectAt(f)
  <2>1. i < NINDIRECT /\ block_of(img, f, i) # 0
    BY <1>0 DEF Complete, NBlocks
  <2>2. i \in 0..(NINDIRECT - 1)
    BY <1>1, <2>1, Sizes
  <2>3. PtrOf(img, f, i) # IndirectAt(f)
    BY DEF PtrOf, DirectAt, IndirectAt, IndexAt
  <2> QED BY <1>0, <2>1, <2>2, <2>3, BlockPtr
<1>4. \A i, j \in I : PtrOf(img, f, i) = PtrOf(img, f, j) => i = j
  BY DEF PtrOf, DirectAt, IndexAt
<1>5. \A i, j \in I : block_of(img, f, i) = block_of(img, f, j) => i = j
  <2> TAKE i \in I
  <2> TAKE j \in I
  <2> HAVE block_of(img, f, i) = block_of(img, f, j)
  <2>1. PtrOf(img, f, i) = PtrOf(img, f, j)
    BY <1>0, <1>3 DEF Kept
  <2> QED BY <1>4, <2>1
<1>6. x # 0 => x \notin B
  <2> SUFFICES ASSUME x # 0, NEW i \in I, x = block_of(img, f, i) PROVE FALSE
    OBVIOUS
  <2>1. Ptr(img, IndirectAt(f)) = Ptr(img, PtrOf(img, f, i)) /\ Ptr(img, IndirectAt(f)) # 0
    BY <1>2, <1>3
  <2>2. IndirectAt(f) = PtrOf(img, f, i)
    BY <1>0, <1>2, <1>3, <2>1 DEF Kept
  <2> QED BY <1>3, <2>2
<1>7. IsFiniteSet(B) /\ Cardinality(B) = n
  <2>1. IsFiniteSet(I) /\ Cardinality(I) = n
    <3>1. 0 \in Int /\ n - 1 \in Int
      BY <1>1
    <3>2. IsFiniteSet(I) /\ Cardinality(I) = IF 0 > n - 1 THEN 0 ELSE n - 1 - 0 + 1
      BY <3>1, FS_Interval
    <3> QED BY <1>1, <3>2
  <2>2. m \in Bijection(I, B)
    <3>1. m \in [I -> B] /\ \A i \in I : m[i] = block_of(img, f, i)
      OBVIOUS
    <3>2. \A b \in B : \E i \in I : m[i] = b
      OBVIOUS
    <3> HIDE DEF m, B, I
    <3>3. \A i, j \in I : m[i] = m[j] => i = j
      BY <1>5, <3>1
    <3> QED BY <3>1, <3>2, <3>3 DEF Bijection, Injection, Surjection, IsInjective
  <2>3. ExistsBijection(I, B)
    BY <2>2 DEF ExistsBijection
  <2> HIDE DEF m, B, I
  <2> QED BY <2>1, <2>3, FS_Bijection
<1>8. Owned(f) = B \union ({x} \ {0})
  BY DEF Owned
<1> HIDE DEF B, I, n, x, m
<1>9. CASE x = 0
  <2>1. Owned(f) = B
    BY <1>8, <1>9
  <2> QED BY <1>1, <1>7, <1>9, <2>1 DEF n, x
<1>10. CASE x # 0
  <2>1. Owned(f) = B \cup {x}
    BY <1>8, <1>10
  <2>2. Cardinality(B \cup {x}) = n + 1
    BY <1>6, <1>7, <1>10, FS_AddElement
  <2> QED BY <1>1, <1>10, <2>1, <2>2 DEF n, x
<1> QED BY <1>9, <1>10

LEMMA InvSound ==
  ASSUME NamesInv, Fits(img)
  PROVE  Sound
<1> SUFFICES ASSUME boot.pc = "serve"
             PROVE  /\ 0 \notin InUse /\ InUse \intersect Reserved = {}
                    /\ \A f, g \in Live : f # g => Owned(f) \intersect Owned(g) = {}
                    /\ \A f \in Live : Cardinality(Owned(f)) =
                         NBlocks(f) + (IF File(img, f).f_indirect = 0 THEN 0 ELSE 1)
                    /\ \A b \in InUse \union Reserved : ~block_is_free(img, b)
  BY Zenon DEF Sound
<1>1. Served(img) /\ host \in Hosts
  BY DEF NamesInv, FormatInv
<1>2. Kept(img) /\ FreeOK(img)
  BY <1>1 DEF Served
<1>3. Live \subseteq Place
  <2> SUFFICES ASSUME NEW h \in HostFiles
               PROVE  walk_path(img, h.path).file \in Place
    BY DEF Live
  <2>1. h.path \in Seq(Names)
    BY <1>1, HostPaths DEF Paths
  <2> DEFINE path == h.path
  <2>2. path \in Seq(Names)
    BY <2>1
  <2> HIDE DEF path
  <2>3. walk_path(img, path) \in Walked
    BY <1>1, <2>2, WalkPath
  <2>4. walk_path(img, path).file \in Place
    BY <2>3 DEF Walked
  <2> QED BY <2>4 DEF path
<1>4. ASSUME NEW b \in InUse
      PROVE  /\ b # 0 /\ b \in Block /\ b \notin Reserved
             /\ ~block_is_free(img, b)
  <2>1. PICK f \in Place : b \in Owned(f)
    BY <1>3, <1>4 DEF InUse
  <2>2. PICK p \in Ptrs : b = Ptr(img, p) /\ b # 0
    BY <1>1, <2>1, OwnedPtr
  <2>3. b \in Nat /\ b \in Block /\ first_block <= b
    BY <1>2, <2>2, PtrRange
  <2>4. b \notin Reserved
    BY <2>3, Bitmap DEF Reserved, first_block
  <2>5. ~block_is_free(img, b)
    BY <1>2, <2>2, <2>3 DEF FreeOK, NoPtr
  <2> QED BY <2>2, <2>3, <2>4, <2>5
<1>5. ASSUME NEW f \in Live, NEW g \in Live, f # g
      PROVE  Owned(f) \intersect Owned(g) = {}
  <2> SUFFICES ASSUME NEW b \in Owned(f), b \in Owned(g) PROVE FALSE
    OBVIOUS
  <2>0. f \in Place /\ g \in Place
    BY <1>3
  <2>1. PICK p \in Own(img, f) : p \in Ptrs /\ b = Ptr(img, p) /\ b # 0
    BY <1>1, <2>0, OwnedPtr
  <2>2. PICK q \in Own(img, g) : q \in Ptrs /\ b = Ptr(img, q)
    BY <1>1, <2>0, OwnedPtr
  <2>3. p = q
    BY <1>2, <2>1, <2>2 DEF Kept
  <2> QED BY <1>1, <1>5, <2>0, <2>1, <2>2, <2>3, OwnPtrs
<1>6. ASSUME NEW b \in Reserved
      PROVE  ~block_is_free(img, b)
  <2>1. b \in Nat /\ b \in Block /\ ~(first_block <= b)
    BY Bitmap, Sizes DEF Reserved, Block, first_block
  <2> QED BY <1>2, <2>1 DEF FreeOK
<1>7. \A f \in Live : Cardinality(Owned(f)) =
         NBlocks(f) + (IF File(img, f).f_indirect = 0 THEN 0 ELSE 1)
  BY <1>1, <1>3, OwnedCount
<1> QED BY <1>4, <1>5, <1>6, <1>7

LEMMA NamesNext ==
  ASSUME NamesInv, Fits(img), [Next]_vars
  PROVE  NamesInv'
<1>0. BootInv /\ FormatInv
  BY DEF NamesInv
<1>1. BootInv'
  BY <1>0, BootNext
<1>2. FormatInv'
  <2>1. CASE fsformat
    BY <1>0, <2>1, InvFormat
  <2>2. CASE finish_fs
    BY <1>0, <2>2, InvFlush
  <2>3. CASE read_super \/ check_write_block \/ read_bitmap \/ PowerCut
    BY <1>0, <2>3, InvSteps
  <2>4. CASE \E h \in HostFiles : file_remove(h.path)
    BY <1>0, <2>4, InvRemove
  <2>5. CASE UNCHANGED vars
    <3>1. host' = host /\ todo' = todo /\ img' = img /\ boot' = boot
      BY <2>5 DEF vars
    <3>2. (Fits(img) <=> Fits(img)') /\ (Format(img) <=> Format(img)') /\ (Served(img) <=> Served(img)')
          /\ (todo \in Seq(TodoSet(DirSet(img))) <=> (todo \in Seq(TodoSet(DirSet(img))))')
      BY <3>1, Zenon
    <3> QED BY <1>0, <3>1, <3>2, Zenon DEF FormatInv
  <2> QED BY <2>1, <2>2, <2>3, <2>4, <2>5 DEF Next
<1> QED BY <1>1, <1>2 DEF NamesInv

\* As long as what fsformat writes fits on the disk, which it does not check: the types, a
\* super block that is followed by no more blocks than there are, no size a file's pointers
\* cannot hold and no indirect pointer past the disk.
THEOREM NamesTypes == Spec /\ [](img.nextbno <= NBLOCK) => []TypeOK
<1>1. Init => NamesInv
  BY BootInit, InvInit DEF NamesInv
<1>2. NamesInv /\ img.nextbno <= NBLOCK /\ [Next]_vars => NamesInv'
  BY NamesNext DEF Fits
<1>3. NamesInv /\ img.nextbno <= NBLOCK => TypeOK
  BY InvTypes DEF Fits
<1> QED BY <1>1, <1>2, <1>3, PTL DEF Spec

\* As long as what fsformat writes fits on the disk: no two of the Files a name leads to share
\* a block, none has a block of the system, a missing one or one twice, and none of their
\* blocks is free in the bitmap, whatever the server removes.
THEOREM NamesSound == Spec /\ [](img.nextbno <= NBLOCK) => []Sound
<1>1. Init => NamesInv
  BY BootInit, InvInit DEF NamesInv
<1>2. NamesInv /\ img.nextbno <= NBLOCK /\ [Next]_vars => NamesInv'
  BY NamesNext DEF Fits
<1>3. NamesInv /\ img.nextbno <= NBLOCK => Sound
  BY InvSound DEF Fits
<1> QED BY <1>1, <1>2, <1>3, PTL DEF Spec
=============================================================================
