---------------------------- MODULE LibraryProofs ----------------------------
(***************************************************************************)
(* The algorithms of the library, for inputs of every length.              *)
(***************************************************************************)
EXTENDS Library, SequenceTheorems, FiniteSetTheorems, WellFoundedInduction, TLAPS

-----------------------------------------------------------------------------
(* Loops *)

LEMMA Least ==
  ASSUME NEW S, S \subseteq Nat, S # {}
  PROVE  \E x \in S : \A y \in S : x <= y
<1>1. \E x \in S : \A y \in S : ~(<<y, x>> \in OpToRel(<, Nat))
  BY NatLessThanWellFounded, WFMin, Zenon
<1>2. PICK x \in S : \A y \in S : ~(<<y, x>> \in OpToRel(<, Nat))
  BY <1>1, Zenon
<1>3. \A y \in S : ~(y < x)
  BY <1>2, Zenon DEF OpToRel
<1> QED BY <1>3

LEMMA Counting ==
  ASSUME NEW n \in Nat, NEW S, 0 \in S, \A k \in 0..(n - 1) : k \in S => k + 1 \in S
  PROVE  \A k \in 0..n : k \in S
<1> DEFINE Bad == {k \in 0..n : k \notin S}
<1> SUFFICES ASSUME Bad # {} PROVE FALSE
  OBVIOUS
<1>1. PICK x \in Bad : \A y \in Bad : x <= y
  <2>1. Bad \subseteq Nat
    OBVIOUS
  <2> HIDE DEF Bad
  <2> QED BY <2>1, Least
<1>2. x # 0 /\ x - 1 \in 0..(n - 1)
  OBVIOUS
<1>3. x - 1 \in S
  BY <1>1, <1>2
<1>4. (x - 1) + 1 \in S
  BY <1>2, <1>3
<1> QED BY <1>2, <1>4

After(c, f, s, n) == c = [i \in 0..n |-> IF i = 0 THEN s ELSE f[c[i - 1]]]

LEMMA IterateSteps ==
  ASSUME NEW f, NEW s, NEW n \in Nat
  PROVE  \E c : /\ Iterate(f, s, n) = c[n] /\ c[0] = s
                /\ \A i \in 1..n : c[i] = f[c[i - 1]]
<1> DEFINE S == {k \in 0..n : \E c : After(c, f, s, k)}
<1>1. 0 \in S
  <2>1. After([i \in 0..0 |-> s], f, s, 0)
    BY DEF After
  <2> QED BY <2>1
<1>2. ASSUME NEW k \in 0..(n - 1), k \in S
      PROVE  k + 1 \in S
  <2>1. PICK c : After(c, f, s, k)
    BY <1>2
  <2> DEFINE d == [i \in 0..(k + 1) |-> IF i \in 0..k THEN c[i] ELSE f[c[k]]]
  <2>2. \A i \in 0..k : c[i] = IF i = 0 THEN s ELSE f[c[i - 1]]
    BY <2>1, Zenon DEF After
  <2>3. \A i \in 0..k : d[i] = c[i]
    OBVIOUS
  <2>4. d[k + 1] = f[c[k]]
    OBVIOUS
  <2>5. d = [i \in 0..(k + 1) |-> d[i]]
    OBVIOUS
  <2> HIDE DEF d
  <2>6. ASSUME NEW i \in 0..(k + 1)
        PROVE  d[i] = IF i = 0 THEN s ELSE f[d[i - 1]]
    <3>1. CASE i \in 0..k
      <4>1. i = 0 \/ i - 1 \in 0..k
        OBVIOUS
      <4> QED BY <2>2, <2>3, <3>1, <4>1
    <3>2. CASE i = k + 1
      <4>1. i # 0 /\ i - 1 = k /\ k \in 0..k
        BY <3>2
      <4> QED BY <2>3, <2>4, <3>2, <4>1
    <3> QED BY <3>1, <3>2
  <2>7. After(d, f, s, k + 1)
    BY <2>5, <2>6 DEF After
  <2> QED BY <2>7
<1> HIDE DEF S
<1>3. n \in S
  BY <1>1, <1>2, Counting
<1> DEFINE c == CHOOSE g : After(g, f, s, n)
<1>4. Iterate(f, s, n) = c[n]
  BY DEF Iterate, After
<1>5. After(c, f, s, n)
  BY <1>3 DEF S
<1> HIDE DEF c
<1>6. \A i \in 0..n : c[i] = IF i = 0 THEN s ELSE f[c[i - 1]]
  BY <1>5, Zenon DEF After
<1>7. c[0] = s /\ \A i \in 1..n : c[i] = f[c[i - 1]]
  BY <1>6
<1> QED BY <1>4, <1>7

\* What holds before the first turn and is kept by every turn holds in the end.
LEMMA IterateInv ==
  ASSUME NEW f, NEW s, NEW n \in Nat, NEW J,
         s \in J[0], \A i \in 0..(n - 1) : \A a \in J[i] : f[a] \in J[i + 1]
  PROVE  Iterate(f, s, n) \in J[n]
<1>1. PICK c : /\ Iterate(f, s, n) = c[n] /\ c[0] = s
               /\ \A i \in 1..n : c[i] = f[c[i - 1]]
  BY IterateSteps
<1> DEFINE S == {i \in 0..n : c[i] \in J[i]}
<1>2. 0 \in S
  BY <1>1
<1>3. ASSUME NEW k \in 0..(n - 1), k \in S
      PROVE  k + 1 \in S
  <2>1. c[k + 1] = f[c[k]]
    <3>1. k + 1 \in 1..n /\ (k + 1) - 1 = k
      OBVIOUS
    <3> QED BY <1>1, <3>1
  <2> QED BY <1>3, <2>1
<1> HIDE DEF S
<1>4. n \in S
  BY <1>2, <1>3, Counting
<1> QED BY <1>1, <1>4 DEF S

AfterElem(c, f, s, seq, n) == c = [i \in 0..n |-> IF i = 0 THEN s ELSE f[c[i - 1]][seq[i]]]

LEMMA ThroughSteps ==
  ASSUME NEW f, NEW s, NEW seq, Len(seq) \in Nat
  PROVE  \E c : /\ AfterElem(c, f, s, seq, Len(seq)) /\ Through(f, s, seq) = c[Len(seq)]
<1> DEFINE n == Len(seq)
           P(c, k) == AfterElem(c, f, s, seq, k)
           S == {k \in 0..n : \E c : P(c, k)}
           turned(a, i) == f[a][seq[i]]
<1>0. n \in Nat
  OBVIOUS
<1>p. \A c, k : P(c, k) <=> c = [i \in 0..k |-> IF i = 0 THEN s ELSE turned(c[i - 1], i)]
  BY DEF AfterElem
<1>e. Through(f, s, seq) = (CHOOSE g : P(g, n))[n]
  BY DEF Through, AfterElem
<1> HIDE DEF n, P, turned
<1>1. 0 \in S
  <2>1. [i \in 0..0 |-> s] = [i \in 0..0 |-> IF i = 0 THEN s ELSE turned([j \in 0..0 |-> s][i - 1], i)]
    OBVIOUS
  <2>2. P([i \in 0..0 |-> s], 0)
    BY <1>p, <2>1, Zenon
  <2> QED BY <1>0, <2>2
<1>2. ASSUME NEW k \in 0..(n - 1), k \in S
      PROVE  k + 1 \in S
  <2>1. PICK c : P(c, k)
    BY <1>2
  <2> DEFINE d == [i \in 0..(k + 1) |-> IF i \in 0..k THEN c[i] ELSE turned(c[k], k + 1)]
  <2>2. \A i \in 0..k : c[i] = IF i = 0 THEN s ELSE turned(c[i - 1], i)
    BY <1>p, <2>1, Zenon
  <2>3. \A i \in 0..k : d[i] = c[i]
    OBVIOUS
  <2>4. d[k + 1] = turned(c[k], k + 1)
    OBVIOUS
  <2>5. d = [i \in 0..(k + 1) |-> d[i]]
    OBVIOUS
  <2> HIDE DEF d
  <2>6. ASSUME NEW i \in 0..(k + 1)
        PROVE  d[i] = IF i = 0 THEN s ELSE turned(d[i - 1], i)
    <3>1. CASE i \in 0..k
      <4>1. i = 0 \/ i - 1 \in 0..k
        OBVIOUS
      <4> QED BY <2>2, <2>3, <3>1, <4>1, Zenon
    <3>2. CASE i = k + 1
      <4>1. i # 0 /\ i - 1 = k /\ k \in 0..k
        BY <3>2
      <4> QED BY <2>3, <2>4, <3>2, <4>1, Zenon
    <3> QED BY <3>1, <3>2
  <2>7. P(d, k + 1)
    <3>1. d = [i \in 0..(k + 1) |-> IF i = 0 THEN s ELSE turned(d[i - 1], i)]
      BY <2>5, <2>6, Zenon
    <3> QED BY <1>p, <3>1, Zenon
  <2>8. k + 1 \in 0..n
    BY <1>0
  <2> QED BY <2>7, <2>8
<1> HIDE DEF S
<1>3. n \in S
  <2>1. \A k \in 0..(n - 1) : k \in S => k + 1 \in S
    BY <1>2, Zenon
  <2>2. \A k \in 0..n : k \in S
    BY <1>0, <1>1, <2>1, Counting, Zenon
  <2> QED BY <1>0, <2>2
<1> DEFINE c == CHOOSE g : P(g, n)
<1>4. P(c, n)
  BY <1>3 DEF S
<1>5. Through(f, s, seq) = c[n]
  BY <1>e
<1> HIDE DEF c
<1> QED BY <1>4, <1>5 DEF P, n

\* A loop over a sequence, one element further at a time.
Stepwise(f, s, seq) ==
  /\ Through(f, s, SubSeq(seq, 1, 0)) = s
  /\ \A k \in 1..Len(seq) :
       Through(f, s, SubSeq(seq, 1, k)) = f[Through(f, s, SubSeq(seq, 1, k - 1))][seq[k]]
  /\ SubSeq(seq, 1, Len(seq)) = seq

LEMMA ThroughNext ==
  ASSUME NEW f, NEW s, NEW X, NEW seq \in Seq(X)
  PROVE  Stepwise(f, s, seq)
<1> DEFINE n == Len(seq)
           turned(a, i) == f[a][seq[i]]
<1>0. n \in Nat
  OBVIOUS
<1>1. PICK c : AfterElem(c, f, s, seq, n)
  BY <1>0, ThroughSteps, Zenon
<1>2. \A i \in 0..n : c[i] = IF i = 0 THEN s ELSE turned(c[i - 1], i)
  BY <1>1, Zenon DEF AfterElem
<1>3. ASSUME NEW m \in 0..n
      PROVE  Through(f, s, SubSeq(seq, 1, m)) = c[m]
  <2> DEFINE pre == SubSeq(seq, 1, m)
  <2>1. Len(pre) = m /\ \A i \in 1..m : pre[i] = seq[i]
    BY <1>0
  <2> HIDE DEF pre
  <2>2. PICK d : AfterElem(d, f, s, pre, m) /\ Through(f, s, pre) = d[m]
    <3>1. m \in Nat
      BY <1>0
    <3> QED BY <2>1, <3>1, ThroughSteps, Zenon
  <2>3. \A i \in 0..m : d[i] = IF i = 0 THEN s ELSE f[d[i - 1]][pre[i]]
    BY <2>2, Zenon DEF AfterElem
  <2> DEFINE S == {i \in 0..m : d[i] = c[i]}
  <2>4. 0 \in S
    BY <1>0, <1>2, <2>3
  <2>5. ASSUME NEW k \in 0..(m - 1), k \in S
        PROVE  k + 1 \in S
    <3>1. k + 1 \in 1..m /\ k + 1 \in 0..m /\ k + 1 \in 0..n /\ k + 1 # 0 /\ (k + 1) - 1 = k
      BY <1>0
    <3>2. d[k + 1] = f[d[k]][pre[k + 1]] /\ c[k + 1] = f[c[k]][seq[k + 1]]
      BY <1>2, <2>3, <3>1, Zenon
    <3>3. d[k] = c[k] /\ pre[k + 1] = seq[k + 1]
      BY <2>1, <2>5, <3>1
    <3> QED BY <3>1, <3>2, <3>3
  <2> HIDE DEF S
  <2>6. m \in S
    <3>1. \A k \in 0..(m - 1) : k \in S => k + 1 \in S
      BY <2>5, Zenon
    <3>2. m \in Nat /\ m \in 0..m
      BY <1>0
    <3>3. \A k \in 0..m : k \in S
      BY <2>4, <3>1, <3>2, Counting, Zenon
    <3> QED BY <3>2, <3>3, Zenon
  <2> QED BY <2>2, <2>6 DEF S, pre
<1>4. Through(f, s, SubSeq(seq, 1, 0)) = s
  BY <1>0, <1>2, <1>3
<1>5. ASSUME NEW k \in 1..n
      PROVE  Through(f, s, SubSeq(seq, 1, k)) = f[Through(f, s, SubSeq(seq, 1, k - 1))][seq[k]]
  <2>1. k \in 0..n /\ k - 1 \in 0..n /\ k # 0
    BY <1>0
  <2>2. c[k] = f[c[k - 1]][seq[k]]
    BY <1>2, <2>1, Zenon
  <2>3. Through(f, s, SubSeq(seq, 1, k)) = c[k] /\ Through(f, s, SubSeq(seq, 1, k - 1)) = c[k - 1]
    BY <1>3, <2>1, Zenon
  <2> QED BY <2>2, <2>3, Zenon
<1>6. SubSeq(seq, 1, n) = seq
  OBVIOUS
<1> QED BY <1>4, <1>5, <1>6 DEF Stepwise

-----------------------------------------------------------------------------
(* kern/syscall_all.c: ranges *)

LEMMA Wrapping ==
  ASSUME NEW a \in 0..(AddrSize - 1), NEW b \in 0..(AddrSize - 1)
  PROVE  IF a + b < AddrSize THEN Wrap(a + b) = a + b ELSE Wrap(a + b) = a + b - AddrSize
<1>1. AddrSize \in Nat \ {0}
  BY StringsAssumption
<1>2. \A m \in Nat \ {0} : \A x \in 0..(m - 1) : x % m = x /\ (x + m) % m = x
  OBVIOUS
<1>3. CASE a + b < AddrSize
  BY <1>1, <1>2, <1>3 DEF Wrap
<1>4. CASE ~(a + b < AddrSize)
  <2>1. (a + b - AddrSize) \in 0..(AddrSize - 1) /\ (a + b - AddrSize) + AddrSize = a + b
    BY <1>1, <1>4
  <2> QED BY <1>1, <1>2, <1>4, <2>1 DEF Wrap
<1> QED BY <1>3, <1>4

LEMMA RangeCases ==
  ASSUME NEW va \in 0..(AddrSize - 1), NEW pa \in 0..(AddrSize - 1), NEW len \in 0..(AddrSize - 1)
  PROVE  /\ sys_dev(va, pa, len) <=>
              \/ len = 0
              \/ /\ UTEMP <= va /\ va + len <= UTOP
                 /\ \E d \in Devices : d[1] <= pa /\ pa + len <= d[1] + d[2]
         /\ sys_print_cons(va, len) <=> va < UTOP /\ va + len <= UTOP
<1>1. AddrSize \in Nat \ {0} /\ UTEMP \in Nat /\ UTOP \in 0..(AddrSize - 1)
  BY StringsAssumption
<1>2. \A d \in Devices : /\ d[1] \in 0..(AddrSize - 1) /\ d[2] \in 0..(AddrSize - 1)
                         /\ d[1] + d[2] < AddrSize
  BY StringsAssumption
<1>3. \A d \in Devices : Wrap(d[1] + d[2]) = d[1] + d[2]
  BY <1>2, Wrapping
<1>4. is_illegal_va_range(va, len) <=> len # 0 /\ ~(UTEMP <= va /\ va + len <= UTOP)
  BY <1>1, Wrapping DEF is_illegal_va_range
<1>5. is_illegal_dev_pa_range(pa, len) <=>
        len # 0 /\ ~\E d \in Devices : d[1] <= pa /\ pa + len <= d[1] + d[2]
  <2>1. CASE pa + len < AddrSize
    <3>1. Wrap(pa + len) = pa + len
      BY <2>1, Wrapping
    <3>2. \A d \in Devices : in_range(d[1], d[2], pa, len) <=> d[1] <= pa /\ pa + len <= d[1] + d[2]
      BY <1>3, <3>1 DEF in_range
    <3> QED BY <1>1, <3>1, <3>2 DEF is_illegal_dev_pa_range
  <2>2. CASE ~(pa + len < AddrSize)
    <3>1. len # 0 /\ Wrap(pa + len) < pa
      BY <1>1, <2>2, Wrapping
    <3>2. \A d \in Devices : ~(pa + len <= d[1] + d[2])
      BY <1>1, <1>2, <2>2
    <3> QED BY <3>1, <3>2 DEF is_illegal_dev_pa_range
  <2> QED BY <2>1, <2>2
<1>6. sys_print_cons(va, len) <=> va < UTOP /\ va + len <= UTOP
  BY <1>1, Wrapping DEF sys_print_cons
<1> QED BY <1>4, <1>5, <1>6 DEF sys_dev

-----------------------------------------------------------------------------
(* lib/string.c: memcpy *)

\* Regions of memory that memcpy may be called with.
Regions(mem, dst, src, n) ==
  /\ dst \in Nat /\ src \in Nat /\ n \in Nat
  /\ \E M \in Nat : mem \in [0..(M - 1) -> Int] /\ dst + n <= M /\ src + n <= M
  /\ dst + n <= src \/ src + n <= dst

\* Memory and the loops' state when k bytes are copied.
Copied(mem, dst, src, k) ==
  [b \in DOMAIN mem |-> IF b \in dst..(dst + k - 1) THEN mem[src + (b - dst)] ELSE mem[b]]
CopyAt(mem, dst, src, n, k) ==
  [mem |-> Copied(mem, dst, src, k), dst |-> dst + k, src |-> src + k, max |-> dst + n, ok |-> TRUE]

LEMMA CopiedType ==
  ASSUME NEW mem, NEW dst, NEW src, NEW n, Regions(mem, dst, src, n), NEW k \in 0..n
  PROVE  /\ Copied(mem, dst, src, k) \in [DOMAIN mem -> Int]
         /\ DOMAIN Copied(mem, dst, src, k) = DOMAIN mem
         /\ CopyAt(mem, dst, src, n, k) \in Copying(CopyAt(mem, dst, src, n, k))
<1>1. PICK M \in Nat : mem \in [0..(M - 1) -> Int] /\ dst + n <= M /\ src + n <= M
  BY DEF Regions
<1>2. dst \in Nat /\ src \in Nat /\ n \in Nat
  BY DEF Regions
<1>3. \A b \in dst..(dst + k - 1) : src + (b - dst) \in 0..(M - 1)
  BY <1>1, <1>2
<1>4. DOMAIN mem = 0..(M - 1) /\ \A b \in DOMAIN mem : mem[b] \in Int
  BY <1>1
<1>5. Copied(mem, dst, src, k) \in [DOMAIN mem -> Int] /\ DOMAIN Copied(mem, dst, src, k) = DOMAIN mem
  BY <1>3, <1>4 DEF Copied
<1>6. dst + k \in Int /\ src + k \in Int /\ dst + n \in Int
  BY <1>2
<1> QED BY <1>5, <1>6 DEF CopyAt, Copying

CopyTurn(a) ==
  [a EXCEPT !.mem[a.dst] = a.mem[a.src], !.dst = @ + 1, !.src = @ + 1]

LEMMA CopyRecord ==
  ASSUME NEW x, NEW d, NEW s, NEW m
  PROVE  CopyTurn([mem |-> x, dst |-> d, src |-> s, max |-> m, ok |-> TRUE])
           = [mem |-> [x EXCEPT ![d] = x[s]], dst |-> d + 1, src |-> s + 1, max |-> m, ok |-> TRUE]
<1> DEFINE a == [mem |-> x, dst |-> d, src |-> s, max |-> m, ok |-> TRUE]
<1>1. a.mem = x /\ a.dst = d /\ a.src = s
  OBVIOUS
<1>2. CopyTurn(a) = [a EXCEPT !.mem[d] = x[s], !.dst = d + 1, !.src = s + 1]
  <2> HIDE DEF a
  <2> QED BY <1>1 DEF CopyTurn
<1> QED BY <1>2

LEMMA CopyOne ==
  ASSUME NEW mem, NEW dst, NEW src, NEW n, Regions(mem, dst, src, n), NEW k \in 0..(n - 1)
  PROVE  CopyTurn(CopyAt(mem, dst, src, n, k)) = CopyAt(mem, dst, src, n, k + 1)
<1>1. PICK M \in Nat : mem \in [0..(M - 1) -> Int] /\ dst + n <= M /\ src + n <= M
  BY DEF Regions
<1>2. dst \in Nat /\ src \in Nat /\ n \in Nat /\ (dst + n <= src \/ src + n <= dst)
  BY DEF Regions
<1> DEFINE old == Copied(mem, dst, src, k)
           new == Copied(mem, dst, src, k + 1)
<1>3. old[src + k] = mem[src + k]
  <2>1. src + k \in 0..(M - 1) /\ src + k \notin dst..(dst + k - 1)
    BY <1>1, <1>2
  <2> QED BY <1>1, <2>1 DEF Copied
<1>4. [old EXCEPT ![dst + k] = mem[src + k]] = new
  <2>1. \A b \in 0..(M - 1) :
          /\ b \in dst..(dst + (k + 1) - 1) <=> b \in dst..(dst + k - 1) \/ b = dst + k
          /\ b = dst + k => src + (b - dst) = src + k
    BY <1>2
  <2> QED BY <1>1, <2>1 DEF Copied
<1>5. (dst + k) + 1 = dst + (k + 1) /\ (src + k) + 1 = src + (k + 1)
  BY <1>2
<1> HIDE DEF old, new
<1>6. CopyTurn([mem |-> old, dst |-> dst + k, src |-> src + k, max |-> dst + n, ok |-> TRUE])
        = [mem |-> new, dst |-> dst + (k + 1), src |-> src + (k + 1), max |-> dst + n, ok |-> TRUE]
  BY <1>3, <1>4, <1>5, CopyRecord
<1> QED BY <1>6 DEF CopyAt, old, new

LEMMA CopyBytes ==
  ASSUME NEW mem, NEW dst, NEW src, NEW n, Regions(mem, dst, src, n), NEW k \in 0..n,
         NEW until
  PROVE  \E j \in k..n : /\ copy_bytes(CopyAt(mem, dst, src, n, k), until) = CopyAt(mem, dst, src, n, j)
                         /\ j = n \/ (until = "word" /\ (dst + j) % 4 = 0)
<1> DEFINE At0(j) == CopyAt(mem, dst, src, n, j)
           loop == [a \in Copying(At0(k)) |->
                      IF a.dst >= a.max \/ (until = "word" /\ a.dst % 4 = 0) THEN a ELSE CopyTurn(a)]
           stop(j) == until = "word" /\ (dst + j) % 4 = 0
           J == [i \in 0..(n - k) |-> {At0(j) : j \in {m \in k..n : m = k + i \/ stop(m)}}]
<1>1. dst \in Nat /\ n \in Nat /\ k \in Nat /\ n - k \in Nat
  BY DEF Regions
<1>2. ASSUME NEW j \in k..n
      PROVE  loop[At0(j)] = IF j >= n \/ stop(j) THEN At0(j) ELSE At0(j + 1)
  <2>1. At0(j) \in Copying(At0(k))
    BY <1>1, CopiedType DEF Copying, CopyAt
  <2>2. At0(j).dst = dst + j /\ At0(j).max = dst + n
    BY DEF CopyAt
  <2>3. j < n => CopyTurn(At0(j)) = At0(j + 1)
    <3> SUFFICES ASSUME j < n PROVE CopyTurn(At0(j)) = At0(j + 1)
      OBVIOUS
    <3>1. j \in 0..(n - 1)
      BY <1>1
    <3> QED BY <3>1, CopyOne
  <2>4. dst + j >= dst + n <=> j >= n
    BY <1>1
  <2>5. loop[At0(j)] = IF dst + j >= dst + n \/ stop(j) THEN At0(j) ELSE CopyTurn(At0(j))
    <3> HIDE DEF At0
    <3> QED BY <2>1, <2>2
  <2> HIDE DEF At0, loop, stop
  <2> QED BY <1>1, <2>3, <2>4, <2>5
<1>3. At0(k) \in J[0]
  BY <1>1
<1>4. ASSUME NEW i \in 0..(n - k - 1), NEW a \in J[i]
      PROVE  loop[a] \in J[i + 1]
  <2> HIDE DEF At0, loop, stop
  <2>1. PICK j \in k..n : (j = k + i \/ stop(j)) /\ a = At0(j)
    BY <1>1, <1>4
  <2>2. CASE j >= n \/ stop(j)
    BY <1>1, <1>2, <2>1, <2>2
  <2>3. CASE ~(j >= n \/ stop(j))
    <3>1. j + 1 \in k..n /\ j + 1 = k + (i + 1) /\ loop[a] = At0(j + 1)
      BY <1>1, <1>2, <2>1, <2>3
    <3>2. i + 1 \in 0..(n - k)
      BY <1>1
    <3> QED BY <3>1, <3>2
  <2> QED BY <2>2, <2>3
<1>5. Iterate(loop, At0(k), n - k) \in J[n - k]
  <2> HIDE DEF J, loop, At0
  <2> QED BY <1>1, <1>3, <1>4, IterateInv
<1>6. copy_bytes(At0(k), until) = Iterate(loop, At0(k), n - k)
  <2>1. At0(k).max - At0(k).dst = n - k
    BY <1>1 DEF CopyAt
  <2> HIDE DEF At0
  <2> QED BY <2>1 DEF copy_bytes, CopyTurn
<1> HIDE DEF At0, loop
<1>7. PICK j \in k..n : (j = n \/ stop(j)) /\ Iterate(loop, At0(k), n - k) = At0(j)
  BY <1>1, <1>5
<1> QED BY <1>6, <1>7 DEF At0

WordTurn(a) ==
  [a EXCEPT !.mem = [b \in DOMAIN a.mem |-> IF b \in a.dst..(a.dst + 3)
                       THEN a.mem[a.src + (b - a.dst)] ELSE a.mem[b]],
            !.ok = @ /\ a.dst % 4 = 0 /\ a.src % 4 = 0,
            !.dst = @ + 4, !.src = @ + 4]

LEMMA WordRecord ==
  ASSUME NEW x, NEW d, NEW s, NEW m, d % 4 = 0, s % 4 = 0
  PROVE  WordTurn([mem |-> x, dst |-> d, src |-> s, max |-> m, ok |-> TRUE])
           = [mem |-> [b \in DOMAIN x |-> IF b \in d..(d + 3) THEN x[s + (b - d)] ELSE x[b]],
              dst |-> d + 4, src |-> s + 4, max |-> m, ok |-> TRUE]
<1> DEFINE a == [mem |-> x, dst |-> d, src |-> s, max |-> m, ok |-> TRUE]
           y == [b \in DOMAIN x |-> IF b \in d..(d + 3) THEN x[s + (b - d)] ELSE x[b]]
<1>1. a.mem = x /\ a.dst = d /\ a.src = s /\ a.ok = TRUE
  OBVIOUS
<1>2. WordTurn(a) = [a EXCEPT !.mem = y, !.ok = TRUE, !.dst = d + 4, !.src = s + 4]
  <2> HIDE DEF a
  <2> QED BY <1>1 DEF WordTurn
<1> HIDE DEF y
<1>3. WordTurn(a) = [mem |-> y, dst |-> d + 4, src |-> s + 4, max |-> m, ok |-> TRUE]
  BY <1>2
<1> QED BY <1>3 DEF y

LEMMA CopyFour ==
  ASSUME NEW mem, NEW dst, NEW src, NEW n, Regions(mem, dst, src, n), NEW k \in 0..n, k + 4 <= n,
         (dst + k) % 4 = 0, (src + k) % 4 = 0
  PROVE  WordTurn(CopyAt(mem, dst, src, n, k)) = CopyAt(mem, dst, src, n, k + 4)
<1>1. PICK M \in Nat : mem \in [0..(M - 1) -> Int] /\ dst + n <= M /\ src + n <= M
  BY DEF Regions
<1>2. dst \in Nat /\ src \in Nat /\ n \in Nat /\ (dst + n <= src \/ src + n <= dst)
  BY DEF Regions
<1> DEFINE old == Copied(mem, dst, src, k)
           new == Copied(mem, dst, src, k + 4)
           word == [b \in DOMAIN old |-> IF b \in (dst + k)..((dst + k) + 3)
                                         THEN old[(src + k) + (b - (dst + k))] ELSE old[b]]
<1>3. DOMAIN old = 0..(M - 1) /\ DOMAIN new = 0..(M - 1)
  BY <1>1 DEF Copied
<1>4. ASSUME NEW b \in 0..(M - 1)
      PROVE  word[b] = new[b]
  <2>1. CASE b \in (dst + k)..((dst + k) + 3)
    <3>1. /\ (src + k) + (b - (dst + k)) = src + (b - dst) /\ src + (b - dst) \in 0..(M - 1)
          /\ src + (b - dst) \notin dst..(dst + k - 1) /\ b \in dst..(dst + (k + 4) - 1)
      BY <1>1, <1>2, <2>1
    <3>2. old[src + (b - dst)] = mem[src + (b - dst)] /\ new[b] = mem[src + (b - dst)]
      BY <1>1, <3>1 DEF Copied
    <3> HIDE DEF old, new
    <3> QED BY <1>3, <2>1, <3>1, <3>2
  <2>2. CASE b \notin (dst + k)..((dst + k) + 3)
    <3>1. b \in dst..(dst + (k + 4) - 1) <=> b \in dst..(dst + k - 1)
      BY <1>2, <2>2
    <3>2. new[b] = old[b]
      BY <1>1, <3>1 DEF Copied
    <3> HIDE DEF old, new
    <3> QED BY <1>3, <2>2, <3>2
  <2> QED BY <2>1, <2>2
<1>5. word = new
  <2>1. new = [b \in 0..(M - 1) |-> new[b]]
    BY <1>3 DEF Copied
  <2>2. word = [b \in 0..(M - 1) |-> word[b]]
    BY <1>3
  <2> HIDE DEF word, new
  <2> QED BY <1>4, <2>1, <2>2
<1>6. (dst + k) + 4 = dst + (k + 4) /\ (src + k) + 4 = src + (k + 4)
  BY <1>2
<1>7. WordTurn([mem |-> old, dst |-> dst + k, src |-> src + k, max |-> dst + n, ok |-> TRUE])
        = [mem |-> word, dst |-> (dst + k) + 4, src |-> (src + k) + 4, max |-> dst + n, ok |-> TRUE]
  BY WordRecord
<1> HIDE DEF old, new, word
<1> QED BY <1>5, <1>6, <1>7 DEF CopyAt, old, new

LEMMA CopyWords ==
  ASSUME NEW mem, NEW dst, NEW src, NEW n, Regions(mem, dst, src, n), NEW k \in 0..n,
         k = n \/ ((dst + k) % 4 = 0 /\ (src + k) % 4 = 0)
  PROVE  \E j \in k..n : copy_words(CopyAt(mem, dst, src, n, k)) = CopyAt(mem, dst, src, n, j)
<1> DEFINE At0(j) == CopyAt(mem, dst, src, n, j)
           loop == [a \in Copying(At0(k)) |-> IF a.dst + 4 > a.max THEN a ELSE WordTurn(a)]
           even(j) == j = n \/ ((dst + j) % 4 = 0 /\ (src + j) % 4 = 0)
           J == [i \in 0..(n - k) |-> {At0(j) : j \in {m \in k..n : even(m)}}]
<1>1. dst \in Nat /\ src \in Nat /\ n \in Nat /\ k \in Nat /\ n - k \in Nat
  BY DEF Regions
<1>2. ASSUME NEW j \in k..n, even(j)
      PROVE  loop[At0(j)] = IF j + 4 > n THEN At0(j) ELSE At0(j + 4)
  <2>1. At0(j) \in Copying(At0(k))
    BY <1>1, CopiedType DEF Copying, CopyAt
  <2>2. At0(j).dst = dst + j /\ At0(j).max = dst + n
    BY DEF CopyAt
  <2>3. j + 4 <= n => WordTurn(At0(j)) = At0(j + 4)
    <3> SUFFICES ASSUME j + 4 <= n PROVE WordTurn(At0(j)) = At0(j + 4)
      OBVIOUS
    <3>1. j \in 0..n /\ j # n
      BY <1>1
    <3> QED BY <1>2, <3>1, CopyFour
  <2>4. dst + j + 4 > dst + n <=> j + 4 > n
    BY <1>1
  <2>5. loop[At0(j)] = IF dst + j + 4 > dst + n THEN At0(j) ELSE WordTurn(At0(j))
    <3> HIDE DEF At0
    <3> QED BY <2>1, <2>2
  <2> HIDE DEF At0, loop
  <2> QED BY <1>1, <2>3, <2>4, <2>5
<1>3. At0(k) \in J[0]
  BY <1>1
<1>4. ASSUME NEW i \in 0..(n - k - 1), NEW a \in J[i]
      PROVE  loop[a] \in J[i + 1]
  <2>0. i + 1 \in 0..(n - k) /\ i \in 0..(n - k)
    BY <1>1
  <2>1. PICK j \in k..n : even(j) /\ a = At0(j)
    BY <1>4, <2>0
  <2>2. CASE j + 4 > n
    <3> HIDE DEF At0, loop, even
    <3> QED BY <1>2, <2>0, <2>1, <2>2
  <2>3. CASE ~(j + 4 > n)
    <3>0. j + 4 \in k..n /\ j # n
      BY <1>1, <2>3
    <3>1. j + 4 \in k..n /\ (dst + j) % 4 = 0 /\ (src + j) % 4 = 0
      <4> HIDE DEF At0
      <4> QED BY <2>1, <3>0
    <3>2. \A x \in Nat : (x + 4) % 4 = x % 4
      OBVIOUS
    <3>3. dst + j \in Nat /\ src + j \in Nat /\ dst + (j + 4) = (dst + j) + 4 /\ src + (j + 4) = (src + j) + 4
      BY <1>1
    <3>4. even(j + 4)
      BY <3>1, <3>2, <3>3
    <3> HIDE DEF At0, loop, even
    <3> QED BY <1>2, <2>0, <2>1, <2>3, <3>1, <3>4
  <2> QED BY <2>2, <2>3
<1>5. Iterate(loop, At0(k), n - k) \in J[n - k]
  <2> HIDE DEF J, loop, At0
  <2> QED BY <1>1, <1>3, <1>4, IterateInv
<1>6. copy_words(At0(k)) = Iterate(loop, At0(k), n - k)
  <2>1. At0(k).max - At0(k).dst = n - k
    BY <1>1 DEF CopyAt
  <2> HIDE DEF At0
  <2> QED BY <2>1 DEF copy_words, WordTurn
<1> HIDE DEF At0, loop
<1>7. PICK j \in k..n : Iterate(loop, At0(k), n - k) = At0(j)
  BY <1>1, <1>5
<1> QED BY <1>6, <1>7 DEF At0

\* The bytes of the one region are in the other, nothing else has changed, and no word
\* access was unaligned.
LEMMA MemcpyCopies ==
  ASSUME NEW mem, NEW dst, NEW src, NEW n, Regions(mem, dst, src, n)
  PROVE  memcpy(mem, dst, src, n) = CopyAt(mem, dst, src, n, n)
<1> DEFINE At0(j) == CopyAt(mem, dst, src, n, j)
<1>1. dst \in Nat /\ src \in Nat /\ n \in Nat /\ 0 \in 0..n /\ n \in 0..n
  BY DEF Regions
<1>2. At0(0) = [mem |-> mem, dst |-> dst, src |-> src, max |-> dst + n, ok |-> TRUE]
  <2>1. Copied(mem, dst, src, 0) = mem
    <3>1. PICK M \in Nat : mem \in [0..(M - 1) -> Int]
      BY DEF Regions
    <3>2. \A b \in 0..(M - 1) : b \notin dst..(dst + 0 - 1)
      BY <1>1
    <3> QED BY <3>1, <3>2 DEF Copied
  <2>2. dst + 0 = dst /\ src + 0 = src
    BY <1>1
  <2> QED BY <2>1, <2>2 DEF CopyAt
<1>3. ASSUME NEW j \in 0..n
      PROVE  copy_bytes(At0(j), "end") = At0(n)
  <2>1. PICK i \in j..n : copy_bytes(At0(j), "end") = At0(i) /\ (i = n \/ ("end" = "word" /\ (dst + i) % 4 = 0))
    BY CopyBytes
  <2> QED BY <2>1
<1>4. CASE src % 4 # dst % 4
  <2>1. memcpy(mem, dst, src, n) = copy_bytes(At0(0), "end")
    <3> HIDE DEF At0
    <3> QED BY <1>2, <1>4 DEF memcpy
  <2> QED BY <1>1, <1>3, <2>1
<1>5. CASE src % 4 = dst % 4
  <2>1. PICK j \in 0..n : copy_bytes(At0(0), "word") = At0(j) /\ (j = n \/ ("word" = "word" /\ (dst + j) % 4 = 0))
    BY <1>1, CopyBytes
  <2>2. PICK i \in 0..n : copy_words(At0(j)) = At0(i)
    <3>1. j = n \/ ((dst + j) % 4 = 0 /\ (src + j) % 4 = 0)
      BY <1>1, <1>5, <2>1
    <3>2. \E i \in j..n : copy_words(At0(j)) = At0(i)
      BY <3>1, CopyWords
    <3> QED BY <1>1, <3>2
  <2>3. copy_bytes(At0(i), "end") = At0(n)
    BY <1>3
  <2>4. memcpy(mem, dst, src, n) = copy_bytes(copy_words(copy_bytes(At0(0), "word")), "end")
    <3> HIDE DEF At0
    <3> QED BY <1>2, <1>5 DEF memcpy
  <2> QED BY <2>1, <2>2, <2>3, <2>4
<1> QED BY <1>4, <1>5

-----------------------------------------------------------------------------
(* lib/string.c: memset *)

Region(mem, dst, byte, n) ==
  /\ dst \in Nat /\ n \in Nat /\ byte \in Int
  /\ \E M \in Nat : mem \in [0..(M - 1) -> Int] /\ dst + n <= M

Filled(mem, dst, byte, k) ==
  [b \in DOMAIN mem |-> IF b \in dst..(dst + k - 1) THEN byte ELSE mem[b]]
FillAt(mem, dst, byte, n, k) ==
  [mem |-> Filled(mem, dst, byte, k), dst |-> dst + k, max |-> dst + n, ok |-> TRUE]

LEMMA FilledType ==
  ASSUME NEW mem, NEW dst, NEW byte, NEW n, Region(mem, dst, byte, n), NEW k \in 0..n
  PROVE  /\ Filled(mem, dst, byte, k) \in [DOMAIN mem -> Int]
         /\ DOMAIN Filled(mem, dst, byte, k) = DOMAIN mem
         /\ FillAt(mem, dst, byte, n, k) \in Filling(FillAt(mem, dst, byte, n, k))
<1>1. PICK M \in Nat : mem \in [0..(M - 1) -> Int]
  BY DEF Region
<1>2. dst \in Nat /\ n \in Nat /\ byte \in Int
  BY DEF Region
<1>3. DOMAIN mem = 0..(M - 1) /\ \A b \in DOMAIN mem : mem[b] \in Int
  BY <1>1
<1>4. Filled(mem, dst, byte, k) \in [DOMAIN mem -> Int] /\ DOMAIN Filled(mem, dst, byte, k) = DOMAIN mem
  BY <1>2, <1>3 DEF Filled
<1>5. dst + k \in Int /\ dst + n \in Int
  BY <1>2
<1> QED BY <1>4, <1>5 DEF FillAt, Filling

LEMMA FillRecord ==
  ASSUME NEW x, NEW d, NEW m, NEW byte, NEW step, step = 4 => d % 4 = 0
  PROVE  fill([mem |-> x, dst |-> d, max |-> m, ok |-> TRUE], byte, step)
           = [mem |-> [b \in DOMAIN x |-> IF b \in d..(d + step - 1) THEN byte ELSE x[b]],
              dst |-> d + step, max |-> m, ok |-> TRUE]
<1> DEFINE a == [mem |-> x, dst |-> d, max |-> m, ok |-> TRUE]
           y == [b \in DOMAIN x |-> IF b \in d..(d + step - 1) THEN byte ELSE x[b]]
<1>1. a.mem = x /\ a.dst = d /\ a.ok = TRUE
  OBVIOUS
<1>2. fill(a, byte, step) = [a EXCEPT !.mem = y, !.ok = TRUE, !.dst = d + step]
  <2> HIDE DEF a
  <2> QED BY <1>1 DEF fill
<1> HIDE DEF y
<1>3. fill(a, byte, step) = [mem |-> y, dst |-> d + step, max |-> m, ok |-> TRUE]
  BY <1>2
<1> QED BY <1>3 DEF y

LEMMA FillStep ==
  ASSUME NEW mem, NEW dst, NEW byte, NEW n, Region(mem, dst, byte, n), NEW k \in 0..n,
         NEW step \in Nat, k + step <= n, step = 4 => (dst + k) % 4 = 0
  PROVE  fill(FillAt(mem, dst, byte, n, k), byte, step) = FillAt(mem, dst, byte, n, k + step)
<1>1. PICK M \in Nat : mem \in [0..(M - 1) -> Int]
  BY DEF Region
<1>2. dst \in Nat /\ n \in Nat /\ byte \in Int
  BY DEF Region
<1> DEFINE old == Filled(mem, dst, byte, k)
           new == Filled(mem, dst, byte, k + step)
           more == [b \in DOMAIN old |-> IF b \in (dst + k)..((dst + k) + step - 1) THEN byte ELSE old[b]]
<1>3. DOMAIN old = 0..(M - 1)
  BY <1>1 DEF Filled
<1>4. ASSUME NEW b \in 0..(M - 1)
      PROVE  more[b] = new[b]
  <2>1. b \in dst..(dst + (k + step) - 1)
          <=> b \in dst..(dst + k - 1) \/ b \in (dst + k)..((dst + k) + step - 1)
    BY <1>2
  <2>2. old[b] = IF b \in dst..(dst + k - 1) THEN byte ELSE mem[b]
    BY <1>1 DEF Filled
  <2>3. new[b] = IF b \in dst..(dst + (k + step) - 1) THEN byte ELSE mem[b]
    BY <1>1 DEF Filled
  <2> HIDE DEF old, new
  <2> QED BY <1>3, <2>1, <2>2, <2>3
<1>5. more = new
  <2>1. new = [b \in 0..(M - 1) |-> new[b]]
    BY <1>1 DEF Filled
  <2>2. more = [b \in 0..(M - 1) |-> more[b]]
    BY <1>3
  <2> HIDE DEF more, new
  <2> QED BY <1>4, <2>1, <2>2
<1>6. (dst + k) + step = dst + (k + step)
  BY <1>2
<1>7. fill([mem |-> old, dst |-> dst + k, max |-> dst + n, ok |-> TRUE], byte, step)
        = [mem |-> more, dst |-> (dst + k) + step, max |-> dst + n, ok |-> TRUE]
  BY FillRecord
<1> HIDE DEF old, new, more
<1> QED BY <1>5, <1>6, <1>7 DEF FillAt, old, new

LEMMA FillBytes ==
  ASSUME NEW mem, NEW dst, NEW byte, NEW n, Region(mem, dst, byte, n), NEW k \in 0..n, NEW until
  PROVE  \E j \in k..n :
           /\ fill_bytes(FillAt(mem, dst, byte, n, k), byte, until) = FillAt(mem, dst, byte, n, j)
           /\ j = n \/ (until = "word" /\ (dst + j) % 4 = 0)
<1> DEFINE At0(j) == FillAt(mem, dst, byte, n, j)
           loop == [a \in Filling(At0(k)) |->
                      IF a.dst >= a.max \/ (until = "word" /\ a.dst % 4 = 0) THEN a ELSE fill(a, byte, 1)]
           stop(j) == until = "word" /\ (dst + j) % 4 = 0
           J == [i \in 0..(n - k) |-> {At0(j) : j \in {m \in k..n : m = k + i \/ stop(m)}}]
<1>1. dst \in Nat /\ n \in Nat /\ k \in Nat /\ n - k \in Nat
  BY DEF Region
<1>2. ASSUME NEW j \in k..n
      PROVE  loop[At0(j)] = IF j >= n \/ stop(j) THEN At0(j) ELSE At0(j + 1)
  <2>1. At0(j) \in Filling(At0(k))
    BY <1>1, FilledType DEF Filling, FillAt
  <2>2. At0(j).dst = dst + j /\ At0(j).max = dst + n
    BY DEF FillAt
  <2>3. j < n => fill(At0(j), byte, 1) = At0(j + 1)
    <3> SUFFICES ASSUME j < n PROVE fill(At0(j), byte, 1) = At0(j + 1)
      OBVIOUS
    <3>1. j \in 0..n /\ j + 1 <= n /\ 1 \in Nat /\ (1 = 4 => (dst + j) % 4 = 0)
      BY <1>1
    <3> QED BY <3>1, FillStep
  <2>4. dst + j >= dst + n <=> j >= n
    BY <1>1
  <2>5. loop[At0(j)] = IF dst + j >= dst + n \/ stop(j) THEN At0(j) ELSE fill(At0(j), byte, 1)
    <3> HIDE DEF At0
    <3> QED BY <2>1, <2>2
  <2> HIDE DEF At0, loop, stop
  <2> QED BY <1>1, <2>3, <2>4, <2>5
<1>3. At0(k) \in J[0]
  BY <1>1
<1>4. ASSUME NEW i \in 0..(n - k - 1), NEW a \in J[i]
      PROVE  loop[a] \in J[i + 1]
  <2> HIDE DEF At0, loop, stop
  <2>1. PICK j \in k..n : (j = k + i \/ stop(j)) /\ a = At0(j)
    BY <1>1, <1>4
  <2>2. CASE j >= n \/ stop(j)
    BY <1>1, <1>2, <2>1, <2>2
  <2>3. CASE ~(j >= n \/ stop(j))
    <3>1. j + 1 \in k..n /\ j + 1 = k + (i + 1) /\ loop[a] = At0(j + 1)
      BY <1>1, <1>2, <2>1, <2>3
    <3>2. i + 1 \in 0..(n - k)
      BY <1>1
    <3> QED BY <3>1, <3>2
  <2> QED BY <2>2, <2>3
<1>5. Iterate(loop, At0(k), n - k) \in J[n - k]
  <2> HIDE DEF J, loop, At0
  <2> QED BY <1>1, <1>3, <1>4, IterateInv
<1>6. fill_bytes(At0(k), byte, until) = Iterate(loop, At0(k), n - k)
  <2>1. At0(k).max - At0(k).dst = n - k
    BY <1>1 DEF FillAt
  <2> HIDE DEF At0
  <2> QED BY <2>1 DEF fill_bytes
<1> HIDE DEF At0, loop
<1>7. PICK j \in k..n : (j = n \/ stop(j)) /\ Iterate(loop, At0(k), n - k) = At0(j)
  BY <1>1, <1>5
<1> QED BY <1>6, <1>7 DEF At0

LEMMA FillWords ==
  ASSUME NEW mem, NEW dst, NEW byte, NEW n, Region(mem, dst, byte, n), NEW k \in 0..n,
         k = n \/ (dst + k) % 4 = 0
  PROVE  \E j \in k..n : fill_words(FillAt(mem, dst, byte, n, k), byte) = FillAt(mem, dst, byte, n, j)
<1> DEFINE At0(j) == FillAt(mem, dst, byte, n, j)
           loop == [a \in Filling(At0(k)) |-> IF a.dst + 4 > a.max THEN a ELSE fill(a, byte, 4)]
           even(j) == j = n \/ (dst + j) % 4 = 0
           J == [i \in 0..(n - k) |-> {At0(j) : j \in {m \in k..n : even(m)}}]
<1>1. dst \in Nat /\ n \in Nat /\ k \in Nat /\ n - k \in Nat
  BY DEF Region
<1>2. ASSUME NEW j \in k..n, even(j)
      PROVE  loop[At0(j)] = IF j + 4 > n THEN At0(j) ELSE At0(j + 4)
  <2>1. At0(j) \in Filling(At0(k))
    BY <1>1, FilledType DEF Filling, FillAt
  <2>2. At0(j).dst = dst + j /\ At0(j).max = dst + n
    BY DEF FillAt
  <2>3. j + 4 <= n => fill(At0(j), byte, 4) = At0(j + 4)
    <3> SUFFICES ASSUME j + 4 <= n PROVE fill(At0(j), byte, 4) = At0(j + 4)
      OBVIOUS
    <3>1. j \in 0..n /\ j # n /\ 4 \in Nat
      BY <1>1
    <3> QED BY <1>2, <3>1, FillStep
  <2>4. dst + j + 4 > dst + n <=> j + 4 > n
    BY <1>1
  <2>5. loop[At0(j)] = IF dst + j + 4 > dst + n THEN At0(j) ELSE fill(At0(j), byte, 4)
    <3> HIDE DEF At0
    <3> QED BY <2>1, <2>2
  <2> HIDE DEF At0, loop
  <2> QED BY <1>1, <2>3, <2>4, <2>5
<1>3. At0(k) \in J[0]
  BY <1>1
<1>4. ASSUME NEW i \in 0..(n - k - 1), NEW a \in J[i]
      PROVE  loop[a] \in J[i + 1]
  <2>0. i + 1 \in 0..(n - k) /\ i \in 0..(n - k)
    BY <1>1
  <2>1. PICK j \in k..n : even(j) /\ a = At0(j)
    BY <1>4, <2>0
  <2>2. CASE j + 4 > n
    <3> HIDE DEF At0, loop, even
    <3> QED BY <1>2, <2>0, <2>1, <2>2
  <2>3. CASE ~(j + 4 > n)
    <3>1. j + 4 \in k..n /\ j # n
      BY <1>1, <2>3
    <3>2. (dst + j) % 4 = 0
      <4> HIDE DEF At0
      <4> QED BY <2>1, <3>1
    <3>3. \A x \in Nat : (x + 4) % 4 = x % 4
      OBVIOUS
    <3>4. dst + j \in Nat /\ dst + (j + 4) = (dst + j) + 4
      BY <1>1
    <3>5. even(j + 4)
      BY <3>2, <3>3, <3>4
    <3> HIDE DEF At0, loop, even
    <3> QED BY <1>2, <2>0, <2>1, <2>3, <3>1, <3>5
  <2> QED BY <2>2, <2>3
<1>5. Iterate(loop, At0(k), n - k) \in J[n - k]
  <2> HIDE DEF J, loop, At0
  <2> QED BY <1>1, <1>3, <1>4, IterateInv
<1>6. fill_words(At0(k), byte) = Iterate(loop, At0(k), n - k)
  <2>1. At0(k).max - At0(k).dst = n - k
    BY <1>1 DEF FillAt
  <2> HIDE DEF At0
  <2> QED BY <2>1 DEF fill_words
<1> HIDE DEF At0, loop
<1>7. PICK j \in k..n : Iterate(loop, At0(k), n - k) = At0(j)
  BY <1>1, <1>5
<1> QED BY <1>6, <1>7 DEF At0

LEMMA MemsetFills ==
  ASSUME NEW mem, NEW dst, NEW byte, NEW n, Region(mem, dst, byte, n)
  PROVE  memset(mem, dst, byte, n) = FillAt(mem, dst, byte, n, n)
<1> DEFINE At0(j) == FillAt(mem, dst, byte, n, j)
<1>1. dst \in Nat /\ n \in Nat /\ 0 \in 0..n /\ n \in 0..n
  BY DEF Region
<1>2. At0(0) = [mem |-> mem, dst |-> dst, max |-> dst + n, ok |-> TRUE]
  <2>1. Filled(mem, dst, byte, 0) = mem
    <3>1. PICK M \in Nat : mem \in [0..(M - 1) -> Int]
      BY DEF Region
    <3>2. \A b \in 0..(M - 1) : b \notin dst..(dst + 0 - 1)
      BY <1>1
    <3> QED BY <3>1, <3>2 DEF Filled
  <2>2. dst + 0 = dst
    BY <1>1
  <2> QED BY <2>1, <2>2 DEF FillAt
<1>3. PICK j \in 0..n : fill_bytes(At0(0), byte, "word") = At0(j) /\ (j = n \/ ("word" = "word" /\ (dst + j) % 4 = 0))
  BY <1>1, FillBytes
<1>4. PICK i \in 0..n : fill_words(At0(j), byte) = At0(i)
  <2>1. \E i \in j..n : fill_words(At0(j), byte) = At0(i)
    BY <1>3, FillWords
  <2> QED BY <1>1, <2>1
<1>5. PICK l \in i..n : fill_bytes(At0(i), byte, "end") = At0(l) /\ (l = n \/ ("end" = "word" /\ (dst + l) % 4 = 0))
  BY FillBytes
<1>6. memset(mem, dst, byte, n) = fill_bytes(fill_words(fill_bytes(At0(0), byte, "word"), byte), byte, "end")
  <2> HIDE DEF At0
  <2> QED BY <1>2 DEF memset
<1> QED BY <1>3, <1>4, <1>5, <1>6

-----------------------------------------------------------------------------
(* lib/elfloader.c *)

\* Quotient and remainder.
LEMMA Dividing ==
  ASSUME NEW a \in Nat, NEW n \in Nat \ {0}
  PROVE  \E q \in Nat, r \in 0..(n - 1) :
           /\ q = a \div n /\ r = a % n /\ a = n * q + r
           /\ n * q \in Nat /\ n * q = a - r
<1>1. \A q, r \in Nat : q = a \div n /\ r = a % n => a = n * q + r
  BY SMTT(30)
<1>2. PICK q \in Nat, r \in Nat : q = a \div n /\ r = a % n /\ r \in 0..(n - 1)
  OBVIOUS
<1>3. a = n * q + r
  BY <1>1, <1>2, Zenon
<1>4. n * q \in Nat
  OBVIOUS
<1>5. n * q = a - r
  <2>1. \A x \in Nat : a = x + r => x = a - r
    OBVIOUS
  <2> QED BY <1>3, <1>4, <2>1, Zenon
<1> QED BY <1>2, <1>3, <1>4, <1>5, Zenon

LEMMA Divided ==
  ASSUME NEW q \in Nat, NEW n \in Nat \ {0}, NEW r \in 0..(n - 1), NEW b \in Nat, b = n * q + r
  PROVE  q = b \div n /\ r = b % n
<1>1. q = b \div n
  OBVIOUS
<1>2. r = b % n
  OBVIOUS
<1> QED BY <1>1, <1>2

LEMMA Multiple ==
  ASSUME NEW q \in Nat, NEW n \in Nat \ {0}, NEW b \in Nat, b = n * q
  PROVE  b % n = 0
<1>1. b = n * q + 0 /\ 0 \in 0..(n - 1)
  <2>1. n * q \in Nat
    OBVIOUS
  <2> QED BY <2>1
<1> QED BY <1>1, Divided

\* Pages follow each other.
LEMMA NextPage ==
  ASSUME NEW a \in Nat, NEW n \in Nat \ {0}, a % n = 0
  PROVE  (a + n) % n = 0
<1>1. PICK q \in Nat : a = n * q
  <2>1. PICK q \in Nat, r \in 0..(n - 1) : r = a % n /\ n * q = a - r
    BY Dividing
  <2> QED BY <2>1
<1>2. a + n = n * (q + 1) /\ q + 1 \in Nat /\ a + n \in Nat
  BY <1>1
<1> QED BY <1>2, Multiple, Zenon

LEMMA ToNextPage ==
  ASSUME NEW a \in Nat, NEW n \in Nat \ {0}
  PROVE  (a + (n - (a % n))) % n = 0
<1>1. PICK q \in Nat, r \in 0..(n - 1) : a = n * q + r /\ r = a % n
  BY Dividing
<1>2. a + (n - r) = n * (q + 1) /\ q + 1 \in Nat /\ a + (n - r) \in Nat
  BY <1>1
<1>3. (a + (n - r)) % n = 0
  BY <1>2, Multiple, Zenon
<1>4. a % n = r
  BY <1>1
<1> QED BY <1>3, <1>4

LEMMA PageStart ==
  ASSUME NEW a \in Nat, NEW n \in Nat \ {0}
  PROVE  RoundDown(a, n) \in Nat /\ RoundDown(a, n) = a - (a % n) /\ a % n \in 0..(n - 1)
<1>1. PICK q \in Nat, r \in 0..(n - 1) :
        q = a \div n /\ r = a % n /\ n * q \in Nat /\ n * q = a - r
  BY Dividing, Zenon
<1>2. RoundDown(a, n) = n * q
  BY <1>1, Zenon DEF RoundDown
<1>3. a % n = r
  BY <1>1
<1> QED BY <1>1, <1>2, <1>3

\* What a segment has put into memory mem, up to address hi: its bytes, with zeroes before and
\* behind them, from the start of its first page on, and nothing anywhere else.
Span(va, hi) == RoundDown(va, BY2PG)..(hi - 1)
Part(bin, va, bin_size, a) == IF a \in va..(va + bin_size - 1) THEN bin + (a - va) + 1 ELSE 0
Image(mem, bin, va, bin_size, m, hi) ==
  /\ DOMAIN m = DOMAIN mem \union Span(va, hi)
  /\ \A a \in Span(va, hi) : m[a] = Part(bin, va, bin_size, a)
  /\ \A a \in DOMAIN mem \ Span(va, hi) : m[a] = mem[a]

\* The page behind what is loaded is mapped: with the next part of the file, or with zeroes.
LEMMA MapNext ==
  ASSUME NEW mem, NEW bin \in Nat, NEW va \in Nat, NEW bin_size \in Nat, NEW i \in Nat, NEW m,
         Image(mem, bin, va, bin_size, m, va + i),
         (va + i) % BY2PG = 0, NEW src \in Int, NEW len \in Int,
         IF i < bin_size THEN src = bin + i /\ len = Smaller(bin_size - i, BY2PG) ELSE src = -1
  PROVE  Image(mem, bin, va, bin_size, map_page(m, va + i, 0, src, len), va + (i + BY2PG))
<1> DEFINE m1 == map_page(m, va + i, 0, src, len)
           B == BY2PG
           lo == RoundDown(va, B)
           before == Span(va, va + i)
           page == (va + i)..(va + i + B - 1)
           all == Span(va, va + (i + B))
<1>1. B \in Nat \ {0} /\ lo \in Nat /\ lo <= va
  <2>1. BY2PG \in Nat \ {0}
    BY LoaderAssumption
  <2>2. \A r \in 0..(BY2PG - 1) : va - r <= va
    BY <2>1
  <2>3. va % BY2PG \in 0..(BY2PG - 1)
    BY <2>1, PageStart, Zenon
  <2> QED BY <2>1, <2>2, <2>3, PageStart, Zenon
<1>2. RoundDown(va + i, B) = va + i
  <2>1. va + i \in Nat
    OBVIOUS
  <2>2. RoundDown(va + i, B) = (va + i) - ((va + i) % BY2PG)
    BY <1>1, <2>1, PageStart, Zenon
  <2> QED BY <2>1, <2>2
<1>3. PageBytes(va + i) = page
  BY <1>2, Zenon DEF PageBytes
<1>4. /\ DOMAIN m = DOMAIN mem \union before
      /\ \A a \in before : m[a] = Part(bin, va, bin_size, a)
      /\ \A a \in DOMAIN mem \ before : m[a] = mem[a]
  BY DEF Image
<1>s. before = lo..(va + i - 1) /\ all = lo..(va + (i + B) - 1)
  <2>1. before = lo..((va + i) - 1) /\ all = lo..((va + (i + B)) - 1)
    BY DEF Span
  <2>2. (va + i) - 1 = va + i - 1 /\ (va + (i + B)) - 1 = va + (i + B) - 1
    BY <1>1
  <2> QED BY <2>1, <2>2, Zenon
<1> HIDE DEF lo, before, all
<1>5. all = before \union page /\ before \intersect page = {}
  BY <1>1, <1>s
<1>6. m1 = [a \in DOMAIN m \union page |->
              IF a \in page
              THEN IF src >= 0 /\ a - (va + i) \in 0..(0 + len - 1) THEN (src + (a - (va + i) - 0)) + 1 ELSE 0
              ELSE m[a]]
  BY <1>2, <1>3, Zenon DEF map_page
<1>7. ASSUME NEW a \in page
      PROVE  m1[a] = Part(bin, va, bin_size, a)
  <2>1. m1[a] = IF src >= 0 /\ a - (va + i) \in 0..(0 + len - 1) THEN (src + (a - (va + i) - 0)) + 1 ELSE 0
    BY <1>6, Zenon
  <2>2. CASE i < bin_size
    <3>1. src = bin + i /\ len \in Nat /\ len <= bin_size - i /\ len <= B /\ (len = bin_size - i \/ len = B)
      BY <1>1, <2>2 DEF Smaller
    <3> HIDE DEF m1
    <3> QED BY <1>1, <2>1, <2>2, <3>1 DEF Part
  <2>3. CASE ~(i < bin_size)
    <3> HIDE DEF m1
    <3> QED BY <1>1, <2>1, <2>3 DEF Part
  <2> QED BY <2>2, <2>3
<1>8. \A a \in DOMAIN m \ page : m1[a] = m[a]
  BY <1>6, Zenon
<1>9. DOMAIN m1 = DOMAIN m \union page
  BY <1>6, Zenon
<1> HIDE DEF m1, page
<1>10. DOMAIN m1 = DOMAIN mem \union all
  BY <1>4, <1>5, <1>9, Zenon
<1>11. ASSUME NEW a \in all
       PROVE  m1[a] = Part(bin, va, bin_size, a)
  <2>1. CASE a \in page
    BY <1>7, <2>1, Zenon
  <2>2. CASE a \notin page
    <3>1. a \in before /\ a \in DOMAIN m \ page
      BY <1>4, <1>5, <2>2, Zenon
    <3> QED BY <1>4, <1>8, <3>1, Zenon
  <2> QED BY <2>1, <2>2
<1>12. ASSUME NEW a \in DOMAIN mem \ all
       PROVE  m1[a] = mem[a]
  <2>1. a \in DOMAIN m \ page /\ a \in DOMAIN mem \ before
    BY <1>4, <1>5, Zenon
  <2> QED BY <1>4, <1>8, <2>1, Zenon
<1>13. Image(mem, bin, va, bin_size, m1, va + (i + BY2PG))
  BY <1>10, <1>11, <1>12, Zenon DEF Image, all
<1> QED BY <1>13, Zenon DEF m1

AfterLoad(c, mem, bin, va, bin_size, sgsize, n) ==
  c = [k \in 0..n |-> IF k = 0 THEN load_start(mem, bin, va, bin_size)
                      ELSE load_turn(bin, va, bin_size, sgsize, c[k - 1])]

Loads(c, mem, bin, va, bin_size, sgsize, n) ==
  /\ elf_load_seg(mem, bin, va, bin_size, sgsize) = c[n].m
  /\ c[0] = load_start(mem, bin, va, bin_size)
  /\ \A k \in 1..n : c[k] = load_turn(bin, va, bin_size, sgsize, c[k - 1])

LEMMA LoadSteps ==
  ASSUME NEW mem, NEW bin, NEW va, NEW bin_size \in Nat, NEW sgsize \in Nat
  PROVE  \E c : Loads(c, mem, bin, va, bin_size, sgsize, Larger(bin_size, sgsize))
<1> DEFINE n == Larger(bin_size, sgsize)
           P(c, k) == AfterLoad(c, mem, bin, va, bin_size, sgsize, k)
           S == {k \in 0..n : \E c : P(c, k)}
           start == load_start(mem, bin, va, bin_size)
           turned(s) == load_turn(bin, va, bin_size, sgsize, s)
<1>0. n \in Nat
  BY DEF Larger
<1>p. \A c, k : P(c, k) <=> c = [i \in 0..k |-> IF i = 0 THEN start ELSE turned(c[i - 1])]
  BY DEF AfterLoad
<1>e. elf_load_seg(mem, bin, va, bin_size, sgsize) = (CHOOSE g : P(g, n))[n].m
  BY DEF elf_load_seg, AfterLoad
<1> HIDE DEF n, P, start, turned
<1>1. 0 \in S
  <2>1. [i \in 0..0 |-> start] = [i \in 0..0 |-> IF i = 0 THEN start ELSE turned([j \in 0..0 |-> start][i - 1])]
    OBVIOUS
  <2>2. P([i \in 0..0 |-> start], 0)
    BY <1>p, <2>1, Zenon
  <2> QED BY <1>0, <2>2
<1>2. ASSUME NEW k \in 0..(n - 1), k \in S
      PROVE  k + 1 \in S
  <2>1. PICK c : P(c, k)
    BY <1>2
  <2> DEFINE d == [i \in 0..(k + 1) |-> IF i \in 0..k THEN c[i] ELSE turned(c[k])]
  <2>2. \A i \in 0..k : c[i] = IF i = 0 THEN start ELSE turned(c[i - 1])
    BY <1>p, <2>1, Zenon
  <2>3. \A i \in 0..k : d[i] = c[i]
    OBVIOUS
  <2>4. d[k + 1] = turned(c[k])
    OBVIOUS
  <2>5. d = [i \in 0..(k + 1) |-> d[i]]
    OBVIOUS
  <2> HIDE DEF d
  <2>6. ASSUME NEW i \in 0..(k + 1)
        PROVE  d[i] = IF i = 0 THEN start ELSE turned(d[i - 1])
    <3>1. CASE i \in 0..k
      <4>1. i = 0 \/ i - 1 \in 0..k
        OBVIOUS
      <4> QED BY <2>2, <2>3, <3>1, <4>1, Zenon
    <3>2. CASE i = k + 1
      <4>1. i # 0 /\ i - 1 = k /\ k \in 0..k
        BY <3>2
      <4> QED BY <2>3, <2>4, <3>2, <4>1, Zenon
    <3> QED BY <3>1, <3>2
  <2>7. P(d, k + 1)
    <3>1. d = [i \in 0..(k + 1) |-> IF i = 0 THEN start ELSE turned(d[i - 1])]
      BY <2>5, <2>6, Zenon
    <3> QED BY <1>p, <3>1, Zenon
  <2>8. k + 1 \in 0..n
    BY <1>0
  <2> QED BY <2>7, <2>8
<1> HIDE DEF S
<1>3. n \in S
  BY <1>0, <1>1, <1>2, Counting
<1> DEFINE c == CHOOSE g : P(g, n)
<1>5. P(c, n)
  BY <1>3 DEF S
<1>4. elf_load_seg(mem, bin, va, bin_size, sgsize) = c[n].m
  BY <1>e
<1> HIDE DEF c
<1>6. \A i \in 0..n : c[i] = IF i = 0 THEN start ELSE turned(c[i - 1])
  BY <1>p, <1>5, Zenon
<1>7. c[0] = start /\ \A i \in 1..n : c[i] = turned(c[i - 1])
  BY <1>0, <1>6
<1> QED BY <1>4, <1>7 DEF Loads, n, start, turned

\* Before the loops: the first page, if the segment does not begin with it, in an Image
\* that ends with the page, which the file part fills or not.
LEMMA LoadFirst ==
  ASSUME NEW mem, NEW bin \in Nat, NEW va \in Nat, NEW bin_size \in Nat
  PROVE  LET s == load_start(mem, bin, va, bin_size)
         IN  \/ /\ s.i \in Nat /\ s.i <= bin_size /\ (va + s.i) % BY2PG = 0
                /\ Image(mem, bin, va, bin_size, s.m, va + s.i)
             \/ /\ va % BY2PG # 0 /\ bin_size < BY2PG - (va % BY2PG) /\ s.i = bin_size
                /\ Image(mem, bin, va, bin_size, s.m, RoundDown(va, BY2PG) + BY2PG)
<1> DEFINE B == BY2PG
           o == va % BY2PG
           first == Smaller(bin_size, B - o)
           lo == RoundDown(va, B)
           m0 == map_page(mem, va, o, bin, first)
           page == lo..(lo + B - 1)
<1>1. B \in Nat \ {0} /\ lo \in Nat /\ lo = va - o /\ o \in 0..(B - 1)
  <2>1. BY2PG \in Nat \ {0}
    BY LoaderAssumption
  <2> QED BY <2>1, PageStart, Zenon
<1>2. (va + (B - o)) % BY2PG = 0
  BY <1>1, ToNextPage, Zenon
<1>3. CASE o = 0
  <2>1. load_start(mem, bin, va, bin_size) = [m |-> mem, i |-> 0]
    BY <1>3, Zenon DEF load_start
  <2>2. \A a : a \notin Span(va, va + 0)
    BY <1>1, <1>3 DEF Span
  <2>3. Image(mem, bin, va, bin_size, mem, va + 0)
    <3>1. DOMAIN mem = DOMAIN mem \union Span(va, va + 0)
      BY <2>2
    <3> QED BY <2>2, <3>1, Zenon DEF Image
  <2>4. va + 0 = va /\ 0 <= bin_size
    OBVIOUS
  <2>5. [m |-> mem, i |-> 0].m = mem /\ [m |-> mem, i |-> 0].i = 0
    OBVIOUS
  <2> QED BY <1>3, <2>1, <2>3, <2>4, <2>5
<1>4. CASE o # 0
  <2>1. load_start(mem, bin, va, bin_size) = [m |-> m0, i |-> first]
    BY <1>4, Zenon DEF load_start
  <2>2. m0 = [a \in DOMAIN mem \union page |->
                IF a \in page
                THEN IF bin >= 0 /\ a - lo \in o..(o + first - 1) THEN (bin + (a - lo - o)) + 1 ELSE 0
                ELSE mem[a]]
    BY Zenon DEF map_page, PageBytes
  <2>3. first \in Nat /\ first <= bin_size /\ first <= B - o /\ (first = bin_size \/ first = B - o)
    BY <1>1 DEF Smaller
  <2>4. DOMAIN m0 = DOMAIN mem \union page /\ \A a \in DOMAIN mem \ page : m0[a] = mem[a]
    BY <2>2, Zenon
  <2>5. \A a \in page : m0[a] = IF bin >= 0 /\ a - lo \in o..(o + first - 1)
                                THEN (bin + (a - lo - o)) + 1 ELSE 0
    BY <2>2, Zenon
  <2> HIDE DEF m0, first, o, lo
  <2>6. ASSUME NEW a \in page
        PROVE  m0[a] = Part(bin, va, bin_size, a)
    <3>1. m0[a] = IF a \in va..(va + first - 1) THEN bin + (a - va) + 1 ELSE 0
      BY <1>1, <2>3, <2>5
    <3>2. a \in va..(va + first - 1) <=> a \in va..(va + bin_size - 1)
      BY <1>1, <2>3
    <3> QED BY <3>1, <3>2, Zenon DEF Part
  <2>8. Image(mem, bin, va, bin_size, m0, lo + B)
    <3>1. Span(va, lo + B) = page
      <4>1. Span(va, lo + B) = lo..((lo + B) - 1)
        BY Zenon DEF Span, lo
      <4>2. (lo + B) - 1 = lo + B - 1
        BY <1>1
      <4> QED BY <4>1, <4>2, Zenon
    <3> HIDE DEF page
    <3> QED BY <2>4, <2>6, <3>1, Zenon DEF Image
  <2>9. [m |-> m0, i |-> first].m = m0 /\ [m |-> m0, i |-> first].i = first
    OBVIOUS
  <2>10. CASE bin_size < B - o
    <3>1. first = bin_size
      BY <1>1, <2>3, <2>10
    <3> QED BY <1>4, <2>1, <2>8, <2>9, <2>10, <3>1, Zenon DEF o, lo
  <2>11. CASE ~(bin_size < B - o)
    <3>1. first = B - o
      BY <1>1, <2>3, <2>11
    <3>2. lo + B = va + first
      BY <1>1, <3>1
    <3>3. (va + first) % BY2PG = 0
      BY <1>2, <3>1
    <3> QED BY <2>1, <2>3, <2>8, <2>9, <3>2, <3>3, Zenon
  <2> QED BY <2>10, <2>11, Zenon
<1> QED BY <1>3, <1>4, Zenon

LEMMA Quotient ==
  ASSUME NEW a \in Nat, NEW n \in Nat \ {0}, NEW z, z = a % n, z = 0
  PROVE  \E q \in Nat : n * q \in Nat /\ n * q = a
<1>1. PICK q \in Nat, r \in 0..(n - 1) :
        q = a \div n /\ r = a % n /\ n * q \in Nat /\ n * q = a - r
  BY Dividing, Zenon
<1>2. a - 0 = a
  OBVIOUS
<1> QED BY <1>1, <1>2, Zenon

LEMMA RoundUpIs ==
  ASSUME NEW x \in Nat, NEW n \in Nat \ {0}, NEW y \in Nat, y % n = 0, x <= y, y < x + n
  PROVE  RoundUp(x, n) = y
<1>1. PICK q \in Nat : n * q \in Nat /\ n * q = y
  BY Quotient, Zenon
<1>2. x + n - 1 \in Nat /\ (x + n - 1) - y \in 0..(n - 1) /\ x + n - 1 = n * q + ((x + n - 1) - y)
  BY <1>1
<1>3. q = (x + n - 1) \div n
  <2> DEFINE b == x + n - 1
             r == (x + n - 1) - y
  <2>1. b \in Nat /\ r \in 0..(n - 1) /\ b = n * q + r
    BY <1>2
  <2> HIDE DEF b, r
  <2>2. q = b \div n
    BY <2>1, Divided
  <2> QED BY <2>2 DEF b
<1> QED BY <1>1, <1>3, Zenon DEF RoundUp, RoundDown

\* A segment that is Loadable is in memory, for every address, size and size of pages, and
\* what was on other pages is still there.
LEMMA SegmentLoaded ==
  ASSUME NEW mem, NEW bin \in Nat, NEW va \in Nat, NEW bin_size \in Nat, NEW sgsize \in Nat,
         bin_size <= sgsize,
         va % BY2PG = 0 \/ bin_size >= BY2PG - (va % BY2PG) \/ bin_size = sgsize
  PROVE  Image(mem, bin, va, bin_size, elf_load_seg(mem, bin, va, bin_size, sgsize),
               RoundUp(va + sgsize, BY2PG))
<1> DEFINE n == sgsize
           Held(m, hi) == Image(mem, bin, va, bin_size, m, hi)
<1>n. Larger(bin_size, sgsize) = n
  BY DEF Larger
<1>0. PICK c : Loads(c, mem, bin, va, bin_size, sgsize, n)
  BY <1>n, LoadSteps, Zenon
<1>1. /\ elf_load_seg(mem, bin, va, bin_size, sgsize) = c[n].m
      /\ c[0] = load_start(mem, bin, va, bin_size)
      /\ \A k \in 1..n : c[k] = load_turn(bin, va, bin_size, sgsize, c[k - 1])
  BY <1>0, Zenon DEF Loads
<1>b. BY2PG \in Nat \ {0}
  BY LoaderAssumption
<1>t. \A k \in 0..(n - 1) : c[k + 1] = load_turn(bin, va, bin_size, sgsize, c[k])
  <2> TAKE k \in 0..(n - 1)
  <2>1. k + 1 \in 1..n /\ (k + 1) - 1 = k
    OBVIOUS
  <2> QED BY <1>1, <2>1
<1>2. CASE /\ c[0].i \in Nat /\ c[0].i <= bin_size /\ (va + c[0].i) % BY2PG = 0
           /\ Held(c[0].m, va + c[0].i)
  <2> DEFINE Ok(k) == /\ c[k].i \in Nat /\ c[k].i < sgsize + BY2PG /\ (va + c[k].i) % BY2PG = 0
                      /\ Held(c[k].m, va + c[k].i)
                      /\ c[k].i >= k \/ c[k].i >= sgsize
             S == {k \in 0..n : Ok(k)}
  <2>1. 0 \in S
    <3>1. c[0].i < sgsize + BY2PG /\ c[0].i >= 0 /\ 0 \in 0..n
      BY <1>2, <1>b
    <3> QED BY <1>2, <3>1, Zenon
  <2>2. ASSUME NEW k \in 0..(n - 1), k \in S
        PROVE  k + 1 \in S
    <3>1. Ok(k) /\ k + 1 \in 0..n
      BY <2>2
    <3> DEFINE i == c[k].i
               t == c[k + 1]
    <3>2. t = load_turn(bin, va, bin_size, sgsize, c[k])
      BY <1>t, <2>2, Zenon
    <3>s. i < sgsize => /\ (va + (i + BY2PG)) % BY2PG = 0 /\ i + BY2PG \in Nat
                        /\ i + BY2PG >= k + 1 /\ i + BY2PG < sgsize + BY2PG
      <4>1. va + i \in Nat /\ va + (i + BY2PG) = (va + i) + BY2PG
        BY <1>b, <3>1
      <4>2. (va + (i + BY2PG)) % BY2PG = 0
        BY <1>b, <3>1, <4>1, NextPage
      <4>3. i < sgsize => i + BY2PG \in Nat /\ i + BY2PG >= k + 1 /\ i + BY2PG < sgsize + BY2PG
        BY <1>b, <3>1
      <4> QED BY <4>2, <4>3, Zenon
    <3>3. CASE i < bin_size
      <4>0. ~(i >= bin_size) /\ i < sgsize
        BY <3>1, <3>3
      <4> DEFINE m1 == map_page(c[k].m, va + i, 0, bin + i, Smaller(bin_size - i, BY2PG))
      <4>1. t = [m |-> m1, i |-> i + BY2PG]
        BY <3>2, <3>3, <4>0, Zenon DEF load_turn
      <4>2. Smaller(bin_size - i, BY2PG) \in Int
        BY <1>b, <3>1 DEF Smaller
      <4>3. Held(m1, va + (i + BY2PG))
        <5>1. bin + i \in Int /\ i \in Nat
          BY <3>1
        <5> QED BY <3>1, <3>3, <4>2, <5>1, MapNext, Zenon
      <4> HIDE DEF m1
      <4>4. t.i = i + BY2PG /\ t.m = m1
        BY <4>1
      <4>7. Ok(k + 1)
        BY <3>s, <4>0, <4>3, <4>4, Zenon
      <4> QED BY <3>1, <4>7, Zenon
    <3>4. CASE ~(i < bin_size) /\ i < sgsize
      <4>0. i >= bin_size
        BY <3>1, <3>4
      <4> DEFINE m1 == map_page(c[k].m, va + i, 0, -1, 0)
      <4>1. t = [m |-> m1, i |-> i + BY2PG]
        BY <3>2, <3>4, <4>0, Zenon DEF load_turn
      <4>3. Held(m1, va + (i + BY2PG))
        <5>1. i \in Nat /\ -1 \in Int /\ 0 \in Int
          BY <3>1
        <5> QED BY <3>1, <3>4, <5>1, MapNext, Zenon
      <4> HIDE DEF m1
      <4>4. t.i = i + BY2PG /\ t.m = m1
        BY <4>1
      <4>7. Ok(k + 1)
        BY <3>s, <3>4, <4>3, <4>4, Zenon
      <4> QED BY <3>1, <4>7, Zenon
    <3>5. CASE ~(i < bin_size) /\ ~(i < sgsize)
      <4>1. t = c[k]
        BY <3>2, <3>5, Zenon DEF load_turn
      <4>2. i >= sgsize
        BY <3>1, <3>5
      <4>3. Ok(k + 1)
        BY <3>1, <4>1, <4>2, Zenon
      <4> QED BY <3>1, <4>3, Zenon
    <3> QED BY <3>3, <3>4, <3>5
  <2> HIDE DEF S
  <2>3. n \in S
    <3>1. n \in Nat
      OBVIOUS
    <3> QED BY <2>1, <2>2, <3>1, Counting
  <2>4. Ok(n)
    BY <2>3 DEF S
  <2> DEFINE hi == va + c[n].i
  <2>5. va + sgsize \in Nat /\ hi \in Nat /\ va + sgsize <= hi /\ hi < (va + sgsize) + BY2PG
    BY <1>b, <2>4
  <2>6. hi % BY2PG = 0 /\ Held(c[n].m, hi)
    BY <2>4, Zenon
  <2> HIDE DEF hi, Ok
  <2>7. RoundUp(va + sgsize, BY2PG) = hi
    BY <1>b, <2>5, <2>6, RoundUpIs, Zenon
  <2> QED BY <1>1, <2>6, <2>7, Zenon
<1>3. CASE /\ va % BY2PG # 0 /\ bin_size < BY2PG - (va % BY2PG) /\ c[0].i = bin_size
           /\ Held(c[0].m, RoundDown(va, BY2PG) + BY2PG)
  <2>1. bin_size = sgsize
    <3>1. ASSUME NEW r \in Nat, bin_size < BY2PG - r, bin_size >= BY2PG - r
          PROVE  FALSE
      BY <1>b, <3>1
    <3>2. va % BY2PG \in Nat
      BY <1>b, PageStart
    <3> QED BY <1>3, <3>1, <3>2, Zenon
  <2> DEFINE S == {k \in 0..n : c[k] = c[0]}
  <2>2. 0 \in S
    OBVIOUS
  <2>3. ASSUME NEW k \in 0..(n - 1), k \in S
        PROVE  k + 1 \in S
    <3>1. c[k + 1] = load_turn(bin, va, bin_size, sgsize, c[0])
      BY <1>t, <2>3
    <3>2. ~(c[0].i < bin_size) /\ ~(c[0].i < sgsize)
      BY <1>3, <2>1
    <3>3. load_turn(bin, va, bin_size, sgsize, c[0]) = c[0]
      BY <3>2, Zenon DEF load_turn
    <3>4. k + 1 \in 0..n
      OBVIOUS
    <3> QED BY <3>1, <3>3, <3>4
  <2> HIDE DEF S
  <2>4. n \in S
    <3>1. n \in Nat
      OBVIOUS
    <3> QED BY <2>2, <2>3, <3>1, Counting
  <2>5. c[n] = c[0]
    BY <2>4 DEF S
  <2> DEFINE lo == RoundDown(va, BY2PG)
             o == va % BY2PG
             hi == lo + BY2PG
  <2>6. lo \in Nat /\ lo = va - o /\ o \in 0..(BY2PG - 1)
    BY <1>b, PageStart, Zenon
  <2>7. hi = va + (BY2PG - o) /\ (va + (BY2PG - o)) % BY2PG = 0
    <3>1. (va + (BY2PG - o)) % BY2PG = 0
      BY <1>b, ToNextPage, Zenon
    <3>2. hi = va + (BY2PG - o)
      <4> HIDE DEF lo, o
      <4> QED BY <1>b, <2>6
    <3> QED BY <3>1, <3>2, Zenon
  <2>8. o # 0 /\ sgsize < BY2PG - o
    BY <1>3, <2>1, Zenon
  <2> HIDE DEF o, lo
  <2>9. va + sgsize \in Nat /\ hi \in Nat /\ va + sgsize <= hi /\ hi < (va + sgsize) + BY2PG
    BY <1>b, <2>6, <2>8
  <2>10. Held(c[n].m, hi)
    BY <1>3, <2>5, Zenon DEF lo
  <2> HIDE DEF hi
  <2>11. RoundUp(va + sgsize, BY2PG) = hi
    BY <1>b, <2>7, <2>9, RoundUpIs, Zenon
  <2> QED BY <1>1, <2>10, <2>11, Zenon
<1>4. \/ /\ c[0].i \in Nat /\ c[0].i <= bin_size /\ (va + c[0].i) % BY2PG = 0
         /\ Held(c[0].m, va + c[0].i)
      \/ /\ va % BY2PG # 0 /\ bin_size < BY2PG - (va % BY2PG) /\ c[0].i = bin_size
         /\ Held(c[0].m, RoundDown(va, BY2PG) + BY2PG)
  BY <1>1, LoadFirst
<1> QED BY <1>2, <1>3, <1>4, Zenon

\* The first k segments are in memory.
LoadedSegments(phs, k, m) ==
  /\ DOMAIN m = UNION {Extent(phs[j]) : j \in 1..k}
  /\ \A j \in 1..k : \A a \in Extent(phs[j]) : m[a] = SegmentByte(phs[j], a)

\* The next segment joins them: it shares no page with them.
LEMMA NextSegment ==
  ASSUME NEW phs, NEW k \in Nat, NEW m, LoadedSegments(phs, k, m), NEW ph, ph = phs[k + 1],
         ph \in Phdrs,
         ph.p_filesz <= ph.p_memsz, Loadable(ph),
         \A j \in 1..k : Extent(phs[j]) \intersect Extent(ph) = {}
  PROVE  LoadedSegments(phs, k + 1, elf_load_seg(m, ph.p_offset, ph.p_vaddr, ph.p_filesz, ph.p_memsz))
<1> DEFINE m1 == elf_load_seg(m, ph.p_offset, ph.p_vaddr, ph.p_filesz, ph.p_memsz)
<1>1. ph.p_offset \in Nat /\ ph.p_vaddr \in Nat /\ ph.p_filesz \in Nat /\ ph.p_memsz \in Nat
  BY DEF Phdrs
<1>2. ph.p_vaddr % BY2PG = 0 \/ ph.p_filesz >= BY2PG - (ph.p_vaddr % BY2PG) \/ ph.p_filesz = ph.p_memsz
  BY Zenon DEF Loadable
<1>3. Image(m, ph.p_offset, ph.p_vaddr, ph.p_filesz, m1, RoundUp(ph.p_vaddr + ph.p_memsz, BY2PG))
  BY <1>1, <1>2, SegmentLoaded, Zenon
<1> HIDE DEF m1
<1>4. /\ DOMAIN m1 = DOMAIN m \union Extent(ph)
      /\ \A a \in Extent(ph) : m1[a] = SegmentByte(ph, a)
      /\ \A a \in DOMAIN m \ Extent(ph) : m1[a] = m[a]
  BY <1>3, Zenon DEF Image, Span, Part, Extent, SegmentByte, FilePart
<1>5. 1..(k + 1) = 1..k \union {k + 1}
  OBVIOUS
<1>6. DOMAIN m1 = UNION {Extent(phs[j]) : j \in 1..(k + 1)}
  <2>1. \A a : a \in DOMAIN m <=> \E j \in 1..k : a \in Extent(phs[j])
    BY Zenon DEF LoadedSegments
  <2>2. \A a : a \in DOMAIN m1 <=> \E j \in 1..(k + 1) : a \in Extent(phs[j])
    BY <1>4, <1>5, <2>1, Zenon
  <2> QED BY <2>2
<1>7. ASSUME NEW j \in 1..(k + 1), NEW a \in Extent(phs[j])
      PROVE  m1[a] = SegmentByte(phs[j], a)
  <2>1. CASE j \in 1..k
    <3>1. a \in DOMAIN m /\ m[a] = SegmentByte(phs[j], a)
      BY <1>7, <2>1, Zenon DEF LoadedSegments
    <3>2. a \notin Extent(ph)
      BY <1>7, <2>1, Zenon
    <3> QED BY <1>4, <3>1, <3>2, Zenon
  <2>2. CASE j = k + 1
    BY <1>4, <1>7, <2>2, Zenon
  <2> QED BY <1>5, <1>7, <2>1, <2>2, Zenon
<1>8. LoadedSegments(phs, k + 1, m1)
  BY <1>6, <1>7, Zenon DEF LoadedSegments
<1> QED BY <1>8 DEF m1

\* The segments one after the other: the recursion of load_segments has a solution.
Program(c, phs, n) ==
  c = [k \in 0..n |-> IF k = 0 THEN <<>>
                      ELSE elf_load_seg(c[k - 1], phs[k].p_offset, phs[k].p_vaddr, phs[k].p_filesz, phs[k].p_memsz)]

LEMMA ProgramSteps ==
  ASSUME NEW phs, Len(phs) \in Nat
  PROVE  \E c : /\ load_segments(phs) = c[Len(phs)]
                /\ c[0] = <<>>
                /\ \A k \in 1..Len(phs) :
                     c[k] = elf_load_seg(c[k - 1], phs[k].p_offset, phs[k].p_vaddr, phs[k].p_filesz, phs[k].p_memsz)
<1> DEFINE n == Len(phs)
           P(c, k) == Program(c, phs, k)
           S == {k \in 0..n : \E c : P(c, k)}
           none == <<>>
           loaded(m, k) == elf_load_seg(m, phs[k].p_offset, phs[k].p_vaddr, phs[k].p_filesz, phs[k].p_memsz)
<1>0. n \in Nat
  OBVIOUS
<1>p. \A c, k : P(c, k) <=> c = [i \in 0..k |-> IF i = 0 THEN none ELSE loaded(c[i - 1], i)]
  BY DEF Program
<1>e. load_segments(phs) = (CHOOSE g : P(g, n))[n]
  BY DEF load_segments, Program
<1> HIDE DEF n, P, none, loaded
<1>1. 0 \in S
  <2>1. [i \in 0..0 |-> none] = [i \in 0..0 |-> IF i = 0 THEN none ELSE loaded([j \in 0..0 |-> none][i - 1], i)]
    OBVIOUS
  <2>2. P([i \in 0..0 |-> none], 0)
    BY <1>p, <2>1, Zenon
  <2> QED BY <1>0, <2>2
<1>2. ASSUME NEW k \in 0..(n - 1), k \in S
      PROVE  k + 1 \in S
  <2>1. PICK c : P(c, k)
    BY <1>2
  <2> DEFINE d == [i \in 0..(k + 1) |-> IF i \in 0..k THEN c[i] ELSE loaded(c[k], k + 1)]
  <2>2. \A i \in 0..k : c[i] = IF i = 0 THEN none ELSE loaded(c[i - 1], i)
    BY <1>p, <2>1, Zenon
  <2>3. \A i \in 0..k : d[i] = c[i]
    OBVIOUS
  <2>4. d[k + 1] = loaded(c[k], k + 1)
    OBVIOUS
  <2>5. d = [i \in 0..(k + 1) |-> d[i]]
    OBVIOUS
  <2> HIDE DEF d
  <2>6. ASSUME NEW i \in 0..(k + 1)
        PROVE  d[i] = IF i = 0 THEN none ELSE loaded(d[i - 1], i)
    <3>1. CASE i \in 0..k
      <4>1. i = 0 \/ i - 1 \in 0..k
        OBVIOUS
      <4> QED BY <2>2, <2>3, <3>1, <4>1, Zenon
    <3>2. CASE i = k + 1
      <4>1. i # 0 /\ i - 1 = k /\ k \in 0..k
        BY <3>2
      <4> QED BY <2>3, <2>4, <3>2, <4>1, Zenon
    <3> QED BY <3>1, <3>2
  <2>7. P(d, k + 1)
    <3>1. d = [i \in 0..(k + 1) |-> IF i = 0 THEN none ELSE loaded(d[i - 1], i)]
      BY <2>5, <2>6, Zenon
    <3> QED BY <1>p, <3>1, Zenon
  <2>8. k + 1 \in 0..n
    BY <1>0
  <2> QED BY <2>7, <2>8
<1> HIDE DEF S
<1>3. n \in S
  <2>1. \A k \in 0..n : k \in S
    BY <1>0, <1>1, <1>2, Counting, Zenon
  <2>2. n \in 0..n
    BY <1>0
  <2> QED BY <2>1, <2>2, Zenon
<1> DEFINE c == CHOOSE g : P(g, n)
<1>5. P(c, n)
  BY <1>3 DEF S
<1>4. load_segments(phs) = c[n]
  BY <1>e
<1> HIDE DEF c
<1>6. \A i \in 0..n : c[i] = IF i = 0 THEN none ELSE loaded(c[i - 1], i)
  BY <1>p, <1>5, Zenon
<1>7. c[0] = none /\ \A i \in 1..n : c[i] = loaded(c[i - 1], i)
  BY <1>0, <1>6
<1> QED BY <1>4, <1>7 DEF n, none, loaded

\* All of them, for any number of segments.
LEMMA ProgramAll ==
  ASSUME NEW phs \in Seq(Phdrs),
         \A k \in 1..Len(phs) : phs[k].p_filesz <= phs[k].p_memsz,
         PageAligned(phs)
  PROVE  LoadedSegments(phs, Len(phs), load_segments(phs))
<1> DEFINE n == Len(phs)
<1>0. n \in Nat
  OBVIOUS
<1>1. PICK c : /\ load_segments(phs) = c[n]
               /\ c[0] = <<>>
               /\ \A k \in 1..n :
                    c[k] = elf_load_seg(c[k - 1], phs[k].p_offset, phs[k].p_vaddr, phs[k].p_filesz, phs[k].p_memsz)
  BY <1>0, ProgramSteps, Zenon
<1>p. \A k \in 1..n : phs[k] \in Phdrs
  OBVIOUS
<1> DEFINE S == {k \in 0..n : LoadedSegments(phs, k, c[k])}
<1>2. 0 \in S
  <2>1. 1..0 = {} /\ DOMAIN <<>> = {} /\ 0 \in 0..n
    BY <1>0
  <2>2. LoadedSegments(phs, 0, <<>>)
    BY <2>1 DEF LoadedSegments
  <2> QED BY <1>1, <2>1, <2>2, Zenon
<1> HIDE DEF n
<1>3. ASSUME NEW k \in 0..(n - 1), k \in S
      PROVE  k + 1 \in S
  <2>1. k \in Nat /\ k + 1 \in 1..n /\ (k + 1) - 1 = k /\ k + 1 \in 0..n
    BY <1>0
  <2> DEFINE ph == phs[k + 1]
  <2>2. c[k + 1] = elf_load_seg(c[k], ph.p_offset, ph.p_vaddr, ph.p_filesz, ph.p_memsz)
    BY <1>1, <2>1, Zenon
  <2>3. \A j \in 1..k : j \in 1..n /\ j # k + 1
    BY <1>0
  <2>4. \A j \in 1..k : Extent(phs[j]) \intersect Extent(ph) = {}
    BY <2>1, <2>3, Zenon DEF PageAligned, n
  <2>5. Loadable(ph) /\ ph.p_filesz <= ph.p_memsz
    BY <2>1, Zenon DEF PageAligned, n
  <2>6. ph \in Phdrs
    BY <1>p, <2>1, Zenon
  <2>7. LoadedSegments(phs, k, c[k])
    BY <1>3
  <2> HIDE DEF ph
  <2>8. LoadedSegments(phs, k + 1, c[k + 1])
    BY <2>1, <2>2, <2>4, <2>5, <2>6, <2>7, NextSegment, Zenon DEF ph
  <2> QED BY <2>1, <2>8
<1> HIDE DEF S
<1>4. \A k \in 0..n : k \in S
  BY <1>0, <1>2, <1>3, Counting, Zenon
<1>5. n \in 0..n
  BY <1>0
<1>6. n \in S
  BY <1>4, <1>5, Zenon
<1>7. LoadedSegments(phs, n, c[n])
  BY <1>6 DEF S
<1> QED BY <1>1, <1>7, Zenon DEF n

-----------------------------------------------------------------------------
(* user/lib/spawn.c: the program headers *)

\* The ELF header, while headers are read over it; and the state after k headers.
Elf(b, phnum) == b \in [Fields -> Nat] /\ b[E_PHNUM] = phnum /\ b[E_PHENTSIZE] = SIZEOF_PHDR
HeaderOff(k) == SIZEOF_EHDR + (k - 1) * SIZEOF_PHDR
ReadAt(b, k) ==
  [buf |-> b, idx |-> k, off |-> HeaderOff(k + 1), seen |-> [j \in 1..k |-> HeaderOff(j)]]
ReadTurn(s, junk) ==
  LET b == Overwrite(s.buf, s.buf[E_PHENTSIZE], junk)
  IN  [buf |-> b, idx |-> s.idx + 1, off |-> s.off + b[E_PHENTSIZE], seen |-> Append(s.seen, s.off)]

\* A program header reaches over the first of the three fields only.
LEMMA ElfKept ==
  ASSUME NEW b, NEW phnum \in Nat, NEW junk \in Nat, Elf(b, phnum)
  PROVE  Elf(Overwrite(b, b[E_PHENTSIZE], junk), phnum)
<1>1. DOMAIN b = Fields /\ b[E_PHENTSIZE] = 32 /\ b[E_PHNUM] = phnum /\ \A f \in Fields : b[f] \in Nat
  BY DEF Elf, SIZEOF_PHDR
<1>2. Overwrite(b, 32, junk) = [f \in Fields |-> IF f < 32 THEN junk ELSE b[f]]
  BY <1>1 DEF Overwrite
<1>3. Fields = {28, 42, 44}
  BY DEF Fields, E_PHOFF, E_PHENTSIZE, E_PHNUM
<1> QED BY <1>1, <1>2, <1>3 DEF Elf, SIZEOF_PHDR, E_PHOFF, E_PHENTSIZE, E_PHNUM

LEMMA ReadTypes ==
  ASSUME NEW b, NEW phnum \in Nat, Elf(b, phnum), NEW k \in Nat
  PROVE  /\ ReadAt(b, k) \in Reading
         /\ [j \in 1..k |-> HeaderOff(j)] \in Seq(Nat)
         /\ Len([j \in 1..k |-> HeaderOff(j)]) = k
<1>1. \A j \in 1..(k + 1) : HeaderOff(j) \in Nat
  BY DEF HeaderOff, SIZEOF_EHDR, SIZEOF_PHDR
<1>2. [j \in 1..k |-> HeaderOff(j)] \in [1..k -> Nat]
  BY <1>1
<1>3. [j \in 1..k |-> HeaderOff(j)] \in Seq(Nat) /\ Len([j \in 1..k |-> HeaderOff(j)]) = k
  <2> DEFINE s == [j \in 1..k |-> HeaderOff(j)]
  <2>1. s \in [1..k -> Nat] /\ DOMAIN s = 1..k
    BY <1>2
  <2> HIDE DEF s
  <2>2. s \in Seq(Nat)
    BY <2>1
  <2>3. s \in Seq(Nat) /\ Len(s) = k
    BY <2>1, <2>2
  <2> QED BY <2>3 DEF s
<1>4. HeaderOff(k + 1) \in Nat
  BY <1>1
<1>5. b \in [{E_PHOFF, E_PHENTSIZE, E_PHNUM} -> Nat]
  BY DEF Elf, Fields
<1> QED BY <1>3, <1>4, <1>5 DEF ReadAt, Reading, Fields

LEMMA ReadOne ==
  ASSUME NEW b, NEW phnum \in Nat, NEW junk \in Nat, Elf(b, phnum), NEW k \in Nat
  PROVE  ReadTurn(ReadAt(b, k), junk) = ReadAt(Overwrite(b, b[E_PHENTSIZE], junk), k + 1)
<1> DEFINE seen == [j \in 1..k |-> HeaderOff(j)]
           b1 == Overwrite(b, b[E_PHENTSIZE], junk)
<1>1. b1[E_PHENTSIZE] = 32
  BY ElfKept DEF Elf, SIZEOF_PHDR
<1>2. HeaderOff(k + 1) + 32 = HeaderOff((k + 1) + 1)
  BY DEF HeaderOff, SIZEOF_EHDR, SIZEOF_PHDR
<1>3. Append(seen, HeaderOff(k + 1)) = [j \in 1..(k + 1) |-> HeaderOff(j)]
  <2>1. seen \in Seq(Nat) /\ Len(seen) = k
    BY ReadTypes
  <2>2. \A j \in 1..k : seen[j] = HeaderOff(j)
    OBVIOUS
  <2> DEFINE all == Append(seen, HeaderOff(k + 1))
  <2> HIDE DEF seen
  <2>3. all \in Seq(Nat) /\ Len(all) = k + 1
    BY <2>1 DEF HeaderOff, SIZEOF_EHDR, SIZEOF_PHDR
  <2>4. \A j \in 1..(k + 1) : all[j] = HeaderOff(j)
    BY <2>1, <2>2
  <2>5. all = [j \in 1..(k + 1) |-> all[j]]
    BY <2>3
  <2> QED BY <2>4, <2>5
<1> HIDE DEF seen, b1
<1>4. ReadTurn([buf |-> b, idx |-> k, off |-> HeaderOff(k + 1), seen |-> seen], junk)
        = [buf |-> b1, idx |-> k + 1, off |-> HeaderOff(k + 1) + b1[E_PHENTSIZE],
           seen |-> Append(seen, HeaderOff(k + 1))]
  <2> DEFINE a == [buf |-> b, idx |-> k, off |-> HeaderOff(k + 1), seen |-> seen]
  <2>1. a.buf = b /\ a.idx = k /\ a.off = HeaderOff(k + 1) /\ a.seen = seen
    OBVIOUS
  <2> HIDE DEF a
  <2>2. ReadTurn(a, junk) = [buf |-> b1, idx |-> k + 1, off |-> HeaderOff(k + 1) + b1[E_PHENTSIZE],
           seen |-> Append(seen, HeaderOff(k + 1))]
    BY <2>1 DEF ReadTurn, b1
  <2> QED BY <2>2 DEF a
<1>5. ReadTurn([buf |-> b, idx |-> k, off |-> HeaderOff(k + 1), seen |-> seen], junk)
        = [buf |-> b1, idx |-> k + 1, off |-> HeaderOff((k + 1) + 1),
           seen |-> [j \in 1..(k + 1) |-> HeaderOff(j)]]
  BY <1>1, <1>2, <1>3, <1>4
<1> QED BY <1>5, Zenon DEF ReadAt, seen, b1

\* All headers are read, each once, for every number of them and whatever they hold.
LEMMA HeadersAll ==
  ASSUME NEW buf, NEW phnum \in Nat, NEW junk \in Nat, Elf(buf, phnum), buf[E_PHOFF] = SIZEOF_EHDR
  PROVE  phdr_offsets(buf, junk) = [j \in 1..phnum |-> HeaderOff(j)]
<1> DEFINE loop == [s \in Reading |-> IF s.idx >= s.buf[E_PHNUM] THEN s ELSE ReadTurn(s, junk)]
           n == phnum + junk
           J == [i \in 0..n |->
                   {ReadAt(b, k) : b \in {c \in [Fields -> Nat] : Elf(c, phnum)},
                                   k \in {m \in 0..phnum : m = i \/ m = phnum}}]
           s0 == [buf |-> buf, idx |-> 0, off |-> buf[E_PHOFF], seen |-> <<>>]
<1>0. n \in Nat /\ phnum <= n
  OBVIOUS
<1>k. ASSUME NEW c, Elf(c, phnum)
      PROVE  Elf(Overwrite(c, c[E_PHENTSIZE], junk), phnum)
  BY <1>k, ElfKept
<1>1. ASSUME NEW b, Elf(b, phnum), NEW k \in 0..phnum
      PROVE  loop[ReadAt(b, k)] = IF k = phnum THEN ReadAt(b, k)
                                  ELSE ReadAt(Overwrite(b, b[E_PHENTSIZE], junk), k + 1)
  <2>1. ReadAt(b, k) \in Reading
    BY <1>1, ReadTypes
  <2>2. ReadAt(b, k).idx = k /\ ReadAt(b, k).buf = b /\ b[E_PHNUM] = phnum
    BY <1>1 DEF ReadAt, Elf
  <2>3. loop[ReadAt(b, k)] = IF k >= phnum THEN ReadAt(b, k) ELSE ReadTurn(ReadAt(b, k), junk)
    BY <2>1, <2>2
  <2>4. k \in Nat
    OBVIOUS
  <2>5. ReadTurn(ReadAt(b, k), junk) = ReadAt(Overwrite(b, b[E_PHENTSIZE], junk), k + 1)
    BY <1>1, <2>4, ReadOne
  <2> HIDE DEF loop
  <2> QED BY <2>3, <2>5
<1>2. s0 = ReadAt(buf, 0)
  <2>1. [j \in 1..0 |-> HeaderOff(j)] = <<>>
    <3>1. 1..0 = {}
      OBVIOUS
    <3> QED BY <3>1
  <2>2. HeaderOff(0 + 1) = SIZEOF_EHDR
    BY DEF HeaderOff, SIZEOF_EHDR, SIZEOF_PHDR
  <2> QED BY <2>1, <2>2, Zenon DEF ReadAt
<1>3. s0 \in J[0]
  <2>1. buf \in {c \in [Fields -> Nat] : Elf(c, phnum)}
    BY DEF Elf
  <2>2. 0 \in {m \in 0..phnum : m = 0 \/ m = phnum} /\ 0 \in 0..n
    OBVIOUS
  <2> HIDE DEF s0
  <2> QED BY <1>2, <2>1, <2>2
<1> HIDE DEF loop
<1>4. ASSUME NEW i \in 0..(n - 1), NEW a \in J[i]
      PROVE  loop[a] \in J[i + 1]
  <2>1. PICK b \in {c \in [Fields -> Nat] : Elf(c, phnum)}, k \in {m \in 0..phnum : m = i \/ m = phnum} :
          a = ReadAt(b, k)
    BY <1>0, <1>4
  <2>2. Elf(b, phnum) /\ k \in 0..phnum /\ (k = i \/ k = phnum) /\ i + 1 \in 0..n
    BY <1>0
  <2>3. CASE k = phnum
    <3>1. loop[a] = ReadAt(b, k)
      BY <1>1, <2>1, <2>2, <2>3
    <3>2. k \in {m \in 0..phnum : m = i + 1 \/ m = phnum}
      BY <2>2, <2>3
    <3> QED BY <2>2, <3>1, <3>2
  <2>4. CASE k # phnum
    <3>e. Elf(b, phnum)
      BY <2>2
    <3>p. Elf(Overwrite(b, b[E_PHENTSIZE], junk), phnum)
      BY <1>k, <3>e
    <3> DEFINE b1 == Overwrite(b, b[E_PHENTSIZE], junk)
    <3>1. loop[a] = ReadAt(b1, k + 1)
      BY <1>1, <2>1, <2>2, <2>4
    <3>2. Elf(b1, phnum)
      BY <3>p
    <3>3. b1 \in {c \in [Fields -> Nat] : Elf(c, phnum)}
      BY <3>2 DEF Elf
    <3>4. k + 1 \in {m \in 0..phnum : m = i + 1 \/ m = phnum}
      BY <2>2, <2>4
    <3> HIDE DEF b1
    <3> QED BY <2>2, <3>1, <3>3, <3>4
  <2> QED BY <2>3, <2>4
<1> HIDE DEF J, s0
<1>5. Iterate(loop, s0, n) \in J[n]
  BY <1>0, <1>3, <1>4, IterateInv
<1>6. PICK b, k : k = phnum /\ Iterate(loop, s0, n) = ReadAt(b, k)
  BY <1>0, <1>5 DEF J
<1>7. phdr_offsets(buf, junk) = Iterate(loop, s0, n).seen
  <2>1. buf[E_PHNUM] + junk = n
    BY DEF Elf
  <2> QED BY <2>1 DEF phdr_offsets, loop, s0, ReadTurn
<1> QED BY <1>6, <1>7 DEF ReadAt

-----------------------------------------------------------------------------
(* user/lib/spawn.c: init_stack *)

Lengths(lens, argc) == argc \in Nat /\ lens \in [1..argc -> Nat]

AfterOff(c, lens, n) == c = [k \in 0..n |-> IF k = 0 THEN 0 ELSE c[k - 1] + lens[k] + 1]

LEMMA OffSteps ==
  ASSUME NEW lens, NEW argc, Lengths(lens, argc)
  PROVE  /\ Len(lens) = argc
         /\ StringOff(lens, 1) = 0
         /\ \A k \in 1..argc : StringOff(lens, k + 1) = StringOff(lens, k) + lens[k] + 1
<1>0. argc \in Nat /\ lens \in [1..argc -> Nat]
  BY DEF Lengths
<1>l. Len(lens) = argc
  <2>1. lens \in Seq(Nat) /\ DOMAIN lens = 1..argc
    BY <1>0
  <2> QED BY <1>0, <2>1
<1> DEFINE S == {k \in 0..argc : \E c : AfterOff(c, lens, k)}
<1>1. 0 \in S
  <2>1. AfterOff([i \in 0..0 |-> 0], lens, 0)
    BY DEF AfterOff
  <2> QED BY <1>0, <2>1
<1>2. ASSUME NEW k \in 0..(argc - 1), k \in S
      PROVE  k + 1 \in S
  <2>1. PICK c : AfterOff(c, lens, k)
    BY <1>2
  <2> DEFINE d == [i \in 0..(k + 1) |-> IF i \in 0..k THEN c[i] ELSE c[k] + lens[k + 1] + 1]
  <2>2. \A i \in 0..k : c[i] = IF i = 0 THEN 0 ELSE c[i - 1] + lens[i] + 1
    BY <2>1, Zenon DEF AfterOff
  <2>3. \A i \in 0..k : d[i] = c[i]
    OBVIOUS
  <2>4. d[k + 1] = c[k] + lens[k + 1] + 1
    BY <1>0
  <2>5. d = [i \in 0..(k + 1) |-> d[i]]
    OBVIOUS
  <2> HIDE DEF d
  <2>6. ASSUME NEW i \in 0..(k + 1)
        PROVE  d[i] = IF i = 0 THEN 0 ELSE d[i - 1] + lens[i] + 1
    <3>1. CASE i \in 0..k
      <4>1. i = 0 \/ i - 1 \in 0..k
        BY <1>0
      <4> QED BY <2>2, <2>3, <3>1, <4>1, Zenon
    <3>2. CASE i = k + 1
      <4>1. i # 0 /\ i - 1 = k /\ k \in 0..k
        BY <1>0, <3>2
      <4> QED BY <2>3, <2>4, <3>2, <4>1, Zenon
    <3> QED BY <1>0, <3>1, <3>2
  <2>7. AfterOff(d, lens, k + 1)
    BY <2>5, <2>6, Zenon DEF AfterOff
  <2>8. k + 1 \in 0..argc
    BY <1>0
  <2> QED BY <2>7, <2>8
<1> HIDE DEF S
<1>3. argc \in S
  <2>1. argc \in Nat
    BY <1>0
  <2> QED BY <1>1, <1>2, <2>1, Counting
<1> DEFINE c == CHOOSE g : AfterOff(g, lens, argc)
<1>4. AfterOff(c, lens, argc)
  BY <1>3 DEF S
<1>5. \A i : StringOff(lens, i) = c[i - 1]
  BY <1>l, Zenon DEF StringOff, AfterOff
<1> HIDE DEF c
<1>6. \A i \in 0..argc : c[i] = IF i = 0 THEN 0 ELSE c[i - 1] + lens[i] + 1
  BY <1>4, Zenon DEF AfterOff
<1>7. StringOff(lens, 1) = 0
  <2>1. 1 - 1 = 0 /\ 0 \in 0..argc
    BY <1>0
  <2> QED BY <1>5, <1>6, <2>1
<1>8. ASSUME NEW k \in 1..argc
      PROVE  StringOff(lens, k + 1) = StringOff(lens, k) + lens[k] + 1
  <2>1. (k + 1) - 1 = k /\ k # 0 /\ k \in 0..argc
    BY <1>0
  <2>2. StringOff(lens, k + 1) = c[k] /\ StringOff(lens, k) = c[k - 1]
    BY <1>5, <2>1
  <2> QED BY <1>6, <2>1, <2>2
<1> QED BY <1>l, <1>7, <1>8

\* The strings lie one behind the other.
LEMMA OffMono ==
  ASSUME NEW lens, NEW argc, Lengths(lens, argc)
  PROVE  /\ \A k \in 1..(argc + 1) : StringOff(lens, k) \in Nat
         /\ \A k \in 1..(argc + 1) : \A i \in 1..(k - 1) :
              StringOff(lens, i) + lens[i] + 1 <= StringOff(lens, k)
<1> DEFINE off(k) == StringOff(lens, k)
           Below(k) == off(k) \in Nat /\ \A i \in 1..(k - 1) : off(i) \in Nat /\ off(i) + lens[i] + 1 <= off(k)
           S == {k \in 0..argc : Below(k + 1)}
<1>0. argc \in Nat /\ \A k \in 1..argc : lens[k] \in Nat
  BY DEF Lengths
<1>e. off(1) = 0 /\ \A k \in 1..argc : off(k + 1) = off(k) + lens[k] + 1
  BY OffSteps
<1> HIDE DEF off
<1>1. 0 \in S
  <2>1. 0 + 1 = 1 /\ 1..(1 - 1) = {}
    OBVIOUS
  <2> QED BY <1>0, <1>e, <2>1
<1>2. ASSUME NEW k \in 0..(argc - 1), k \in S
      PROVE  k + 1 \in S
  <2>1. off(k + 1) \in Nat /\ \A i \in 1..((k + 1) - 1) : off(i) \in Nat /\ off(i) + lens[i] + 1 <= off(k + 1)
    BY <1>2
  <2>2. k + 1 \in 1..argc /\ lens[k + 1] \in Nat /\ off((k + 1) + 1) = off(k + 1) + lens[k + 1] + 1
    BY <1>0, <1>e
  <2>3. off((k + 1) + 1) \in Nat
    BY <2>1, <2>2
  <2>4. ASSUME NEW i \in 1..(((k + 1) + 1) - 1)
        PROVE  off(i) \in Nat /\ off(i) + lens[i] + 1 <= off((k + 1) + 1)
    <3>1. CASE i = k + 1
      BY <2>1, <2>2, <3>1
    <3>2. CASE i # k + 1
      <4>1. i \in 1..((k + 1) - 1) /\ i \in 1..argc
        BY <1>0, <3>2
      <4>2. lens[i] \in Nat /\ off(i) \in Nat /\ off(i) + lens[i] + 1 <= off(k + 1)
        BY <1>0, <2>1, <4>1
      <4> QED BY <2>1, <2>2, <4>2
    <3> QED BY <3>1, <3>2
  <2>5. k + 1 \in 0..argc
    BY <1>0
  <2> QED BY <2>3, <2>4, <2>5
<1>3. ASSUME NEW k \in 0..argc
      PROVE  k \in S
  <2>1. \A j \in 0..(k - 1) : j \in S => j + 1 \in S
    BY <1>0, <1>2
  <2> HIDE DEF S
  <2>2. k \in Nat
    BY <1>0
  <2> QED BY <1>1, <2>1, <2>2, Counting
<1>4. ASSUME NEW k \in 1..(argc + 1)
      PROVE  Below(k)
  <2>1. k - 1 \in 0..argc /\ (k - 1) + 1 = k
    BY <1>0
  <2> QED BY <1>3, <2>1
<1> QED BY <1>4 DEF off

LEMMA WordIs ==
  ASSUME NEW page, NEW a, NEW v, <<a, v>> \in page.words,
         \A x \in page.words : x[1] = a => x[2] = v
  PROVE  Word(page, a) = v
<1> DEFINE V == {w[2] : w \in {x \in page.words : x[1] = a}}
<1>1. v \in V
  OBVIOUS
<1>2. \A u \in V : u = v
  OBVIOUS
<1> HIDE DEF V
<1>3. (CHOOSE u \in V : TRUE) = v
  BY <1>1, <1>2
<1> QED BY <1>3 DEF Word, V

LEMMA CharacterIs ==
  ASSUME NEW page, NEW a, NEW v, <<a, v>> \in page.chars,
         \A x \in page.chars : x[1] = a => x[2] = v
  PROVE  Character(page, a) = v
<1> DEFINE V == {w[2] : w \in {x \in page.chars : x[1] = a}}
<1>1. v \in V
  OBVIOUS
<1>2. \A u \in V : u = v
  OBVIOUS
<1> HIDE DEF V
<1>3. (CHOOSE u \in V : TRUE) = v
  BY <1>1, <1>2
<1> QED BY <1>3 DEF Character, V

LEMMA RoundWord ==
  ASSUME NEW n \in Nat
  PROVE  RoundUp(n, 4) \in Nat /\ RoundUp(n, 4) >= n /\ RoundUp(n, 4) % 4 = 0
<1>1. (n + 4) - 1 = n + 3
  OBVIOUS
<1>2. RoundUp(n, 4) = 4 * ((n + 4 - 1) \div 4)
  BY DEF RoundUp, RoundDown
<1> QED BY <1>1, <1>2

\* The page as it is for the child: characters from Chars on, words from Words - 8 on.
CharsAt(lens) == USTACKBASE + BY2PG - Total(lens)
WordsAt(lens) == USTACKBASE + BY2PG - RoundUp(Total(lens), 4) - 4 * (Len(lens) + 1)

WordVal(lens, m) ==
  IF m = 0 THEN Len(lens)
  ELSE IF m = 1 THEN WordsAt(lens)
  ELSE IF m = Len(lens) + 2 THEN CharsAt(lens) + Total(lens) - 1
  ELSE CharsAt(lens) + StringOff(lens, m - 1)
WordAddr(lens, m) == WordsAt(lens) - 8 + 4 * m
CharVal(lens, i, j) == IF j = lens[i] THEN <<0, 0>> ELSE <<i, j>>
CharAddr(lens, i, j) == CharsAt(lens) + StringOff(lens, i) + j

LEMMA PageIs ==
  ASSUME NEW lens, NEW argc, Lengths(lens, argc)
  PROVE  LET page == init_stack(lens)
         IN  /\ page.ok => RoundUp(Total(lens), 4) + 4 * (argc + 3) <= BY2PG
             /\ page.sp = WordAddr(lens, 0)
             /\ \A x : x \in page.words <=> \E m \in 0..(argc + 2) : x = <<WordAddr(lens, m), WordVal(lens, m)>>
             /\ \A x : x \in page.chars <=>
                  \E i \in 1..argc : \E j \in 0..lens[i] : x = <<CharAddr(lens, i, j), CharVal(lens, i, j)>>
<1> DEFINE tot == Total(lens)
           R == RoundUp(tot, 4)
           strings == UTEMPPAGE + BY2PG - tot
           args == UTEMPPAGE + BY2PG - R - 4 * (Len(lens) + 1)
           child(a) == USTACKBASE - UTEMPPAGE + a
           page == init_stack(lens)
           off(i) == StringOff(lens, i)
           wds == WordsAt(lens)
           chs == CharsAt(lens)
<1>0. argc \in Nat /\ Len(lens) = argc /\ \A i \in 1..argc : lens[i] \in Nat
  BY OffSteps DEF Lengths
<1>1. tot \in Nat /\ \A i \in 1..(argc + 1) : off(i) \in Nat
  BY <1>0, OffMono DEF Total
<1>2. R \in Nat /\ BY2PG \in Nat /\ USTACKBASE \in Nat /\ UTEMPPAGE \in Nat
  BY <1>1, RoundWord, LoaderAssumption
<1> DEFINE chars == UNION {{<<child(strings) + off(i) + j, CharVal(lens, i, j)>> : j \in 0..lens[i]} : i \in 1..argc}
           words == {<<child(args) + 4 * (i - 1), child(strings) + off(i)>> : i \in 1..argc}
                      \union {<<child(args) + 4 * argc, child(strings) + tot - 1>>,
                              <<child(args) - 4, child(args)>>, <<child(args) - 8, argc>>}
<1>3. page = [ok |-> R + 4 * (argc + 3) <= BY2PG, sp |-> child(args) - 8, chars |-> chars, words |-> words]
  <2> HIDE DEF R, tot
  <2>1. page = StackPage(lens, Len(lens) + 1)
    BY DEF init_stack
  <2> QED BY <1>0, <2>1, Zenon DEF StackPage, CharVal, R, tot
<1>4. child(args) = wds /\ child(strings) = chs /\ wds \in Int /\ chs \in Int
  <2>1. wds = USTACKBASE + BY2PG - R - 4 * (Len(lens) + 1) /\ chs = USTACKBASE + BY2PG - tot
    BY DEF WordsAt, CharsAt
  <2> HIDE DEF R, tot, wds, chs
  <2> QED BY <1>0, <1>1, <1>2, <2>1
<1> HIDE DEF R, tot, child, args, strings
<1>5. page.sp = WordAddr(lens, 0)
  <2>1. page.sp = wds - 8
    BY <1>3, <1>4
  <2>2. WordAddr(lens, 0) = wds - 8 + 4 * 0
    BY DEF WordAddr
  <2> HIDE DEF wds
  <2> QED BY <1>4, <2>1, <2>2
<1>6. page.words = words /\ page.chars = chars
  <2> HIDE DEF words, chars, page
  <2> QED BY <1>3
<1>7. page.ok => R + 4 * (argc + 3) <= BY2PG
  <2> HIDE DEF words, chars, page
  <2> QED BY <1>3
<1>8. ASSUME NEW x
      PROVE  x \in chars <=>
               \E i \in 1..argc : \E j \in 0..lens[i] : x = <<CharAddr(lens, i, j), CharVal(lens, i, j)>>
  <2> HIDE DEF off, chs
  <2>1. x \in chars <=> \E i \in 1..argc : \E j \in 0..lens[i] : x = <<chs + off(i) + j, CharVal(lens, i, j)>>
    BY <1>4
  <2> QED BY <2>1 DEF CharAddr, chs, off
<1>9. ASSUME NEW x
      PROVE  x \in words <=> \E m \in 0..(argc + 2) : x = <<WordAddr(lens, m), WordVal(lens, m)>>
  <2>1. \A m : WordAddr(lens, m) = wds - 8 + 4 * m
    BY DEF WordAddr
  <2>2. /\ WordVal(lens, 0) = argc /\ WordVal(lens, 1) = wds
        /\ WordVal(lens, argc + 2) = chs + tot - 1
        /\ \A m \in 2..(argc + 1) : WordVal(lens, m) = chs + off(m - 1)
    BY <1>0 DEF WordVal, tot
  <2> HIDE DEF off, chs, wds
  <2>3. x \in words <=> \/ \E i \in 1..argc : x = <<wds + 4 * (i - 1), chs + off(i)>>
                        \/ x = <<wds + 4 * argc, chs + tot - 1>>
                        \/ x = <<wds - 4, wds>>
                        \/ x = <<wds - 8, argc>>
    BY <1>4
  <2>4. ASSUME NEW i \in 1..argc, x = <<wds + 4 * (i - 1), chs + off(i)>>
        PROVE  \E m \in 0..(argc + 2) : x = <<WordAddr(lens, m), WordVal(lens, m)>>
    <3>1. i + 1 \in 2..(argc + 1) /\ i + 1 \in 0..(argc + 2) /\ (i + 1) - 1 = i
      BY <1>0
    <3>2. wds - 8 + 4 * (i + 1) = wds + 4 * (i - 1)
      BY <1>0, <1>4
    <3>3. x = <<WordAddr(lens, i + 1), WordVal(lens, i + 1)>>
      BY <2>1, <2>2, <2>4, <3>1, <3>2
    <3> QED BY <3>1, <3>3
  <2>5. /\ wds - 8 + 4 * (argc + 2) = wds + 4 * argc /\ wds - 8 + 4 * 1 = wds - 4 /\ wds - 8 + 4 * 0 = wds - 8
        /\ 0 \in 0..(argc + 2) /\ 1 \in 0..(argc + 2) /\ argc + 2 \in 0..(argc + 2)
    BY <1>0, <1>4
  <2>6. ASSUME NEW m \in 0..(argc + 2), x = <<WordAddr(lens, m), WordVal(lens, m)>>
        PROVE  x \in words
    <3>1. m = 0 \/ m = 1 \/ m = argc + 2 \/ m \in 2..(argc + 1)
      BY <1>0
    <3>2. CASE m \in 2..(argc + 1)
      <4>1. m - 1 \in 1..argc
        BY <1>0, <3>2
      <4>2. wds - 8 + 4 * m = wds + 4 * ((m - 1) - 1)
        BY <1>0, <1>4
      <4>3. x = <<wds + 4 * ((m - 1) - 1), chs + off(m - 1)>>
        BY <2>1, <2>2, <2>6, <3>2, <4>2
      <4> HIDE DEF words
      <4> QED BY <2>3, <4>1, <4>3, Zenon
    <3>3. CASE m \in {0, 1, argc + 2}
      <4> HIDE DEF words
      <4> QED BY <2>1, <2>2, <2>3, <2>5, <2>6, <3>3
    <3> QED BY <3>1, <3>2, <3>3
  <2> HIDE DEF words
  <2>7. ASSUME x \in words
        PROVE  \E m \in 0..(argc + 2) : x = <<WordAddr(lens, m), WordVal(lens, m)>>
    <3>1. CASE \E i \in 1..argc : x = <<wds + 4 * (i - 1), chs + off(i)>>
      BY <2>4, <3>1
    <3>2. CASE x = <<wds + 4 * argc, chs + tot - 1>>
      BY <2>1, <2>2, <2>5, <3>2
    <3>3. CASE x = <<wds - 4, wds>>
      BY <2>1, <2>2, <2>5, <3>3
    <3>4. CASE x = <<wds - 8, argc>>
      BY <2>1, <2>2, <2>5, <3>4
    <3> QED BY <2>3, <2>7, <3>1, <3>2, <3>3, <3>4, Zenon
  <2> QED BY <2>6, <2>7
<1> HIDE DEF words, chars, page
<1>10. (page.ok => RoundUp(Total(lens), 4) + 4 * (argc + 3) <= BY2PG)
  BY <1>7 DEF R, tot
<1> QED BY <1>5, <1>6, <1>8, <1>9, <1>10, Zenon DEF page

\* Characters and words have addresses of their own.
LEMMA CharUnique ==
  ASSUME NEW lens, NEW argc, Lengths(lens, argc),
         NEW i \in 1..argc, NEW j \in 0..lens[i], NEW k \in 1..argc, NEW l \in 0..lens[k],
         CharAddr(lens, i, j) = CharAddr(lens, k, l)
  PROVE  i = k /\ j = l
<1> DEFINE off(m) == StringOff(lens, m)
<1>0. argc \in Nat /\ lens[i] \in Nat /\ lens[k] \in Nat
  BY DEF Lengths
<1>1. /\ off(i) \in Nat /\ off(k) \in Nat
      /\ i < k => off(i) + lens[i] + 1 <= off(k)
      /\ k < i => off(k) + lens[k] + 1 <= off(i)
  <2>1. i \in 1..(argc + 1) /\ k \in 1..(argc + 1) /\ (i < k => i \in 1..(k - 1)) /\ (k < i => k \in 1..(i - 1))
    BY <1>0
  <2> QED BY <2>1, OffMono
<1>2. Total(lens) \in Nat
  <2>1. Len(lens) = argc /\ argc + 1 \in 1..(argc + 1)
    BY <1>0, OffSteps
  <2> QED BY <2>1, OffMono DEF Total
<1>3. CharsAt(lens) \in Int
  BY <1>2, LoaderAssumption DEF CharsAt
<1>4. off(i) + j = off(k) + l
  <2>1. CharsAt(lens) + off(i) + j = CharsAt(lens) + off(k) + l
    BY DEF CharAddr
  <2> HIDE DEF off
  <2> QED BY <1>0, <1>1, <1>3, <2>1
<1> HIDE DEF off
<1> QED BY <1>0, <1>1, <1>4

\* A page from u on, b bytes long: t characters at its end, n + 3 words below r bytes.
LEMMA LayoutNumbers ==
  ASSUME NEW u \in Nat, NEW b \in Nat, NEW t \in Nat, NEW r \in Nat, NEW n \in Nat,
         u % 4 = 0, b % 4 = 0, r % 4 = 0, t <= r, r + 4 * (n + 3) <= b,
         NEW w, w = u + b - r - 4 * (n + 1), NEW c, c = u + b - t
  PROVE  /\ w \in Int /\ c \in Int /\ c >= u
         /\ \A m \in 0..(n + 2) :
              /\ w - 8 + 4 * m \in Int /\ (w - 8 + 4 * m) % 4 = 0
              /\ w - 8 + 4 * m >= u /\ w - 8 + 4 * m + 3 < c /\ w - 8 + 4 * m + 3 < u + b
<1>1. w \in Int /\ c \in Int /\ c >= u
  OBVIOUS
<1>2. ASSUME NEW m \in 0..(n + 2)
      PROVE  /\ w - 8 + 4 * m \in Int /\ w - 8 + 4 * m >= u
             /\ w - 8 + 4 * m + 3 < c /\ w - 8 + 4 * m + 3 < u + b
  OBVIOUS
<1>3. ASSUME NEW m \in 0..(n + 2)
      PROVE  (w - 8 + 4 * m) % 4 = 0
  <2>1. PICK q1 \in Int, q2 \in Int, q3 \in Int : u = 4 * q1 /\ b = 4 * q2 /\ r = 4 * q3
    <3>1. \A x \in Nat : x % 4 = 0 => \E q \in Int : x = 4 * q
      OBVIOUS
    <3> QED BY <3>1
  <2>2. w - 8 + 4 * m = 4 * (q1 + q2 - q3 - (n + 1) - 2 + m)
    BY <2>1
  <2>3. q1 + q2 - q3 - (n + 1) - 2 + m \in Int
    BY <2>1
  <2>4. \A x \in Int : (4 * x) % 4 = 0
    OBVIOUS
  <2> QED BY <2>2, <2>3, <2>4
<1> QED BY <1>1, <1>2, <1>3

\* Where everything is, if the arguments fit.
LEMMA Layout ==
  ASSUME NEW lens, NEW argc, Lengths(lens, argc),
         RoundUp(Total(lens), 4) + 4 * (argc + 3) <= BY2PG
  PROVE  /\ argc \in Nat /\ Len(lens) = argc
         /\ WordsAt(lens) \in Int /\ CharsAt(lens) \in Int
         /\ \A m \in 0..(argc + 2) :
              /\ WordAddr(lens, m) \in Int /\ WordAddr(lens, m) % 4 = 0
              /\ WordAddr(lens, m) >= USTACKBASE /\ WordAddr(lens, m) + 3 < CharsAt(lens)
              /\ WordAddr(lens, m) + 3 < USTACKBASE + BY2PG
         /\ \A i \in 1..argc : \A j \in 0..lens[i] :
              /\ CharAddr(lens, i, j) \in Int /\ CharAddr(lens, i, j) >= CharsAt(lens)
              /\ CharAddr(lens, i, j) < USTACKBASE + BY2PG
         /\ CharsAt(lens) >= USTACKBASE
         /\ PageBytes(USTACKBASE) = USTACKBASE..(USTACKBASE + BY2PG - 1)
<1> DEFINE off(m) == StringOff(lens, m)
           tot == Total(lens)
           R == RoundUp(tot, 4)
           chs == CharsAt(lens)
           wds == WordsAt(lens)
<1>0. argc \in Nat /\ Len(lens) = argc /\ \A i \in 1..argc : lens[i] \in Nat
  BY OffSteps DEF Lengths
<1>1. tot \in Nat /\ tot = off(argc + 1)
  BY <1>0, OffMono DEF Total
<1>2. R \in Nat /\ R >= tot /\ R % 4 = 0
  BY <1>1, RoundWord
<1>3. /\ BY2PG \in Nat /\ USTACKBASE \in Nat /\ BY2PG % 4 = 0 /\ USTACKBASE % 4 = 0
      /\ BY2PG \in Nat \ {0} /\ USTACKBASE % BY2PG = 0
  BY LoaderAssumption
<1>4. chs = USTACKBASE + BY2PG - tot /\ wds = USTACKBASE + BY2PG - R - 4 * (argc + 1)
  BY <1>0 DEF CharsAt, WordsAt
<1>5. \A m : WordAddr(lens, m) = wds - 8 + 4 * m
  BY DEF WordAddr
<1>6. \A i, j : CharAddr(lens, i, j) = chs + off(i) + j
  BY DEF CharAddr
<1>7. \A i \in 1..argc : off(i) \in Nat /\ off(i) + lens[i] + 1 <= tot
  <2> TAKE i \in 1..argc
  <2>1. i \in 1..(argc + 1) /\ argc + 1 \in 1..(argc + 1) /\ i \in 1..((argc + 1) - 1)
    BY <1>0
  <2> QED BY <1>1, <2>1, OffMono
<1>8. RoundDown(USTACKBASE, BY2PG) = USTACKBASE
  <2>1. RoundDown(USTACKBASE, BY2PG) = USTACKBASE - (USTACKBASE % BY2PG)
    BY <1>3, PageStart, Zenon
  <2>2. RoundDown(USTACKBASE, BY2PG) = USTACKBASE - 0
    BY <1>3, <2>1
  <2> QED BY <1>3, <2>2
<1>9. PageBytes(USTACKBASE) = USTACKBASE..(USTACKBASE + BY2PG - 1)
  BY <1>8, Zenon DEF PageBytes
<1>10. R + 4 * (argc + 3) <= BY2PG
  OBVIOUS
<1> HIDE DEF off, tot, R, chs, wds
<1>n. /\ wds \in Int /\ chs \in Int /\ chs >= USTACKBASE
      /\ \A m \in 0..(argc + 2) :
           /\ wds - 8 + 4 * m \in Int /\ (wds - 8 + 4 * m) % 4 = 0
           /\ wds - 8 + 4 * m >= USTACKBASE /\ wds - 8 + 4 * m + 3 < chs
           /\ wds - 8 + 4 * m + 3 < USTACKBASE + BY2PG
  <2>1. argc \in Nat
    BY <1>0
  <2>2. tot \in Nat /\ tot <= R
    BY <1>1, <1>2
  <2> HIDE DEF tot
  <2> QED BY <1>2, <1>3, <1>4, <1>10, <2>1, <2>2, LayoutNumbers
<1>11. wds \in Int /\ chs \in Int /\ chs >= USTACKBASE
  BY <1>n
<1>12. ASSUME NEW m \in 0..(argc + 2)
       PROVE  /\ WordAddr(lens, m) \in Int /\ WordAddr(lens, m) % 4 = 0
              /\ WordAddr(lens, m) >= USTACKBASE /\ WordAddr(lens, m) + 3 < chs
              /\ WordAddr(lens, m) + 3 < USTACKBASE + BY2PG
  BY <1>5, <1>n
<1>13. ASSUME NEW i \in 1..argc, NEW j \in 0..lens[i]
       PROVE  /\ CharAddr(lens, i, j) \in Int /\ CharAddr(lens, i, j) >= chs
              /\ CharAddr(lens, i, j) < USTACKBASE + BY2PG
  <2>1. lens[i] \in Nat /\ off(i) \in Nat /\ off(i) + lens[i] + 1 <= tot
    BY <1>0, <1>7
  <2>2. chs + off(i) + j \in Int /\ chs + off(i) + j >= chs /\ chs + off(i) + j < USTACKBASE + BY2PG
    BY <1>1, <1>3, <1>4, <1>11, <2>1
  <2> QED BY <1>6, <2>2
<1> QED BY <1>0, <1>9, <1>11, <1>12, <1>13 DEF chs, wds

LEMMA WordCount ==
  ASSUME NEW words, NEW w0 \in Int, NEW n \in Nat,
         \A x : x \in words <=> \E m \in 0..n : x = w0 + 4 * m
  PROVE  Cardinality(words) = n + 1
<1> DEFINE f == [m \in 0..n |-> w0 + 4 * m]
<1>1. f \in [0..n -> words]
  OBVIOUS
<1>2. \A a, b \in 0..n : f[a] = f[b] => a = b
  OBVIOUS
<1>3. \A x \in words : \E m \in 0..n : f[m] = x
  OBVIOUS
<1> HIDE DEF f
<1>4. f \in Bijection(0..n, words)
  BY <1>1, <1>2, <1>3, Zenon DEF Bijection, Injection, Surjection, IsInjective
<1>5. ExistsBijection(0..n, words)
  BY <1>4 DEF ExistsBijection
<1>6. IsFiniteSet(0..n) /\ Cardinality(0..n) = n + 1
  <2>1. 0 \in Int /\ n \in Int /\ ~(0 > n) /\ n - 0 + 1 = n + 1
    OBVIOUS
  <2> QED BY <2>1, FS_Interval
<1> QED BY <1>5, <1>6, FS_Bijection

\* The program finds its arguments, however many there are and however long, if they fit.
LEMMA StackRight ==
  ASSUME NEW lens, NEW argc, Lengths(lens, argc), init_stack(lens).ok
  PROVE  ArgumentsFound(lens, init_stack(lens))
<1> DEFINE page == init_stack(lens)
           bytes == {c[1] : c \in page.chars}
           words == {w[1] : w \in page.words}
           chs == CharsAt(lens)
           wds == WordsAt(lens)
           val(m) == WordVal(lens, m)
           wa(m) == WordAddr(lens, m)
           ca(i, j) == CharAddr(lens, i, j)
<1>1. /\ RoundUp(Total(lens), 4) + 4 * (argc + 3) <= BY2PG
      /\ page.sp = wa(0)
      /\ \A x : x \in page.words <=> \E m \in 0..(argc + 2) : x = <<wa(m), val(m)>>
      /\ \A x : x \in page.chars <=>
           \E i \in 1..argc : \E j \in 0..lens[i] : x = <<ca(i, j), CharVal(lens, i, j)>>
  BY PageIs
<1>2. /\ argc \in Nat /\ Len(lens) = argc
      /\ wds \in Int /\ chs \in Int
      /\ \A m \in 0..(argc + 2) :
           /\ wa(m) \in Int /\ wa(m) % 4 = 0
           /\ wa(m) >= USTACKBASE /\ wa(m) + 3 < chs
           /\ wa(m) + 3 < USTACKBASE + BY2PG
      /\ \A i \in 1..argc : \A j \in 0..lens[i] :
           ca(i, j) \in Int /\ ca(i, j) >= chs /\ ca(i, j) < USTACKBASE + BY2PG
      /\ chs >= USTACKBASE
      /\ PageBytes(USTACKBASE) = USTACKBASE..(USTACKBASE + BY2PG - 1)
  BY <1>1, Layout, Zenon
<1>3. \A m : wa(m) = wds - 8 + 4 * m
  BY DEF WordAddr
<1>4. ASSUME NEW m \in 0..(argc + 2), NEW l \in 0..(argc + 2), wa(m) = wa(l)
      PROVE  m = l
  <2>1. wds - 8 + 4 * m = wds - 8 + 4 * l /\ wds \in Int /\ m \in Int /\ l \in Int
    BY <1>2, <1>3, <1>4
  <2> HIDE DEF wds
  <2> QED BY <2>1
<1>v. /\ val(0) = argc /\ val(1) = wds /\ val(argc + 2) = chs + Total(lens) - 1
      /\ \A m \in 2..(argc + 1) : val(m) = chs + StringOff(lens, m - 1)
  BY <1>2 DEF WordVal
<1> HIDE DEF page, wa, ca, val
<1>5. ASSUME NEW m \in 0..(argc + 2)
      PROVE  Word(page, wa(m)) = val(m)
  <2>1. <<wa(m), val(m)>> \in page.words
    BY <1>1
  <2>2. ASSUME NEW x \in page.words, x[1] = wa(m)
        PROVE  x[2] = val(m)
    <3>1. PICK l \in 0..(argc + 2) : x = <<wa(l), val(l)>>
      BY <1>1
    <3>2. wa(l) = wa(m)
      BY <2>2, <3>1
    <3>3. l = m
      BY <1>4, <3>2
    <3> QED BY <3>1, <3>3
  <2> QED BY <2>1, <2>2, WordIs
<1>6. ASSUME NEW i \in 1..argc, NEW j \in 0..lens[i]
      PROVE  Character(page, ca(i, j)) = CharVal(lens, i, j)
  <2>1. <<ca(i, j), CharVal(lens, i, j)>> \in page.chars
    BY <1>1
  <2>2. ASSUME NEW x \in page.chars, x[1] = ca(i, j)
        PROVE  x[2] = CharVal(lens, i, j)
    <3>1. PICK k \in 1..argc : \E l \in 0..lens[k] : x = <<ca(k, l), CharVal(lens, k, l)>>
      BY <1>1
    <3>2. PICK l \in 0..lens[k] : x = <<ca(k, l), CharVal(lens, k, l)>>
      BY <3>1
    <3>3. ca(i, j) = ca(k, l)
      BY <2>2, <3>2
    <3>4. i = k /\ j = l
      BY <3>3, CharUnique DEF ca
    <3> QED BY <3>2, <3>4
  <2> QED BY <2>1, <2>2, CharacterIs
<1>7. \A a : a \in bytes <=> \E i \in 1..argc : \E j \in 0..lens[i] : a = ca(i, j)
  <2>1. ASSUME NEW a \in bytes
        PROVE  \E i \in 1..argc : \E j \in 0..lens[i] : a = ca(i, j)
    <3>1. PICK x \in page.chars : a = x[1]
      OBVIOUS
    <3> QED BY <1>1, <3>1
  <2>2. ASSUME NEW i \in 1..argc, NEW j \in 0..lens[i]
        PROVE  ca(i, j) \in bytes
    <3>1. <<ca(i, j), CharVal(lens, i, j)>> \in page.chars
      BY <1>1
    <3> QED BY <3>1
  <2> QED BY <2>1, <2>2
<1>8. \A a : a \in words <=> \E m \in 0..(argc + 2) : a = wa(m)
  <2>1. ASSUME NEW a \in words
        PROVE  \E m \in 0..(argc + 2) : a = wa(m)
    <3>1. PICK x \in page.words : a = x[1]
      OBVIOUS
    <3> QED BY <1>1, <3>1
  <2>2. ASSUME NEW m \in 0..(argc + 2)
        PROVE  wa(m) \in words
    <3>1. <<wa(m), val(m)>> \in page.words
      BY <1>1
    <3> QED BY <3>1
  <2> QED BY <2>1, <2>2
<1> HIDE DEF bytes, words
<1>9. Word(page, page.sp) = argc
  <2>1. 0 \in 0..(argc + 2)
    BY <1>2
  <2> QED BY <1>1, <1>5, <1>v, <2>1
<1>10. Word(page, page.sp + 4) = wds
  <2>1. 1 \in 0..(argc + 2)
    BY <1>2
  <2>2. wa(0) + 4 = wa(1)
    <3> HIDE DEF wds
    <3> QED BY <1>2, <1>3
  <2> QED BY <1>1, <1>5, <1>v, <2>1, <2>2
<1>w. \A k \in 0..argc : wds + 4 * k = wa(k + 2) /\ k + 2 \in 0..(argc + 2)
  <2> HIDE DEF wds
  <2> QED BY <1>2, <1>3
<1>c. \A i, j : ca(i, j) = chs + StringOff(lens, i) + j
  BY DEF ca, CharAddr
<1> HIDE DEF chs, wds
<1>11. ASSUME NEW i \in 1..argc
       PROVE  CharsFrom(page, Word(page, wds + 4 * (i - 1)), lens[i])
                = [j \in 0..lens[i] |-> IF j = lens[i] THEN <<0, 0>> ELSE <<i, j>>]
  <2>1. i - 1 \in 0..argc /\ (i - 1) + 2 \in 2..(argc + 1) /\ ((i - 1) + 2) - 1 = i
    BY <1>2
  <2>2. Word(page, wds + 4 * (i - 1)) = chs + StringOff(lens, i)
    <3>1. Word(page, wds + 4 * (i - 1)) = val((i - 1) + 2)
      BY <1>5, <1>w, <2>1
    <3> QED BY <1>v, <2>1, <3>1
  <2>3. ASSUME NEW j \in 0..lens[i]
        PROVE  Character(page, chs + StringOff(lens, i) + j) = IF j = lens[i] THEN <<0, 0>> ELSE <<i, j>>
    BY <1>6, <1>c DEF CharVal
  <2> QED BY <2>2, <2>3, Zenon DEF CharsFrom
<1>13. bytes \union UNION {w..(w + 3) : w \in words} \subseteq PageBytes(USTACKBASE)
  <2>0. BY2PG \in Nat /\ USTACKBASE \in Nat
    BY LoaderAssumption
  <2>1. ASSUME NEW a \in bytes
        PROVE  a \in PageBytes(USTACKBASE)
    <3>1. PICK i \in 1..argc : \E j \in 0..lens[i] : a = ca(i, j)
      BY <1>7
    <3>2. a \in Int /\ a >= chs /\ a < USTACKBASE + BY2PG
      BY <1>2, <3>1
    <3>3. a \in USTACKBASE..(USTACKBASE + BY2PG - 1)
      BY <1>2, <2>0, <3>2
    <3> QED BY <1>2, <3>3
  <2>2. ASSUME NEW w \in words, NEW a \in w..(w + 3)
        PROVE  a \in PageBytes(USTACKBASE)
    <3>1. PICK m \in 0..(argc + 2) : w = wa(m)
      BY <1>8
    <3>2. w \in Int /\ w >= USTACKBASE /\ w + 3 < USTACKBASE + BY2PG
      BY <1>2, <3>1
    <3>3. a \in USTACKBASE..(USTACKBASE + BY2PG - 1)
      BY <2>0, <3>2
    <3> QED BY <1>2, <3>3
  <2> QED BY <2>1, <2>2
<1>14. ASSUME NEW w \in words
       PROVE  w % 4 = 0 /\ (w..(w + 3)) \intersect bytes = {}
  <2>1. PICK m \in 0..(argc + 2) : w = wa(m)
    BY <1>8
  <2>2. w \in Int /\ w % 4 = 0 /\ w + 3 < chs
    BY <1>2, <2>1
  <2>3. ASSUME NEW a \in w..(w + 3), a \in bytes
        PROVE  FALSE
    <3>1. PICK i \in 1..argc : \E j \in 0..lens[i] : a = ca(i, j)
      BY <1>7, <2>3
    <3>2. a >= chs
      BY <1>2, <3>1
    <3> QED BY <1>2, <2>2, <3>2
  <2> QED BY <2>2, <2>3
<1>15. Cardinality(words) = argc + 3
  <2>1. \A x : x \in words <=> \E m \in 0..(argc + 2) : x = (wds - 8) + 4 * m
    BY <1>2, <1>3, <1>8
  <2>2. wds - 8 \in Int /\ argc + 2 \in Nat /\ (argc + 2) + 1 = argc + 3
    BY <1>2
  <2> QED BY <2>1, <2>2, WordCount
<1>16. ArgumentsFound(lens, page)
  BY <1>2, <1>9, <1>10, <1>11, <1>13, <1>14, <1>15, Zenon DEF ArgumentsFound, bytes, words
<1> QED BY <1>16 DEF page

-----------------------------------------------------------------------------
(* debugf's buffer *)

FillTurn(a) ==
  IF Len(a.ctx.buf) + Len(a.s) <= BUF_LEN THEN a
  ELSE LET n == BUF_LEN - Len(a.ctx.buf)
       IN  [ctx |-> debug_flush([a.ctx EXCEPT !.buf = @ \o SubSeq(a.s, 1, n)]),
            s |-> SubSeq(a.s, n + 1, Len(a.s))]

\* What has been printed, what the buffer holds and what is left.
OutputAt(cons, buf, str) == [ctx |-> [buf |-> buf, cons |-> cons], s |-> str]

Row(a, b, c, whole) == (a \o b) \o c = whole
Joined(a, b, c) == a \o b = c

LEMMA Associate ==
  ASSUME NEW X, NEW a \in Seq(X), NEW b \in Seq(X), NEW c \in Seq(X), NEW whole, Row(a, b, c, whole)
  PROVE  /\ Joined(a, b \o c, whole) /\ b \o c \in Seq(X) /\ Len(b \o c) = Len(b) + Len(c)
<1> DEFINE p == a \o (b \o c)
           q == (a \o b) \o c
<1>1. p = q
  OBVIOUS
<1>2. b \o c \in Seq(X) /\ Len(b \o c) = Len(b) + Len(c)
  OBVIOUS
<1>3. q = whole
  BY Zenon DEF Row
<1> HIDE DEF p, q
<1>4. p = whole
  BY <1>1, <1>3
<1> QED BY <1>2, <1>4, Zenon DEF p, Joined

LEMMA Regroup ==
  ASSUME NEW X, NEW a \in Seq(X), NEW b \in Seq(X), NEW c \in Seq(X), NEW d \in Seq(X),
         NEW e, Joined(c, d, e), NEW whole, Row(a, b, e, whole)
  PROVE  /\ Row(a \o (b \o c), <<>>, d, whole)
         /\ a \o (b \o c) \in Seq(X) /\ <<>> \in Seq(X)
<1> DEFINE p == ((a \o (b \o c)) \o <<>>) \o d
           q == a \o b
           t == c \o d
<1>1. p = q \o t
  OBVIOUS
<1>2. a \o (b \o c) \in Seq(X) /\ <<>> \in Seq(X)
  OBVIOUS
<1>3. t = e /\ q \o e = whole
  BY Zenon DEF Row, Joined
<1> HIDE DEF p, q, t
<1>4. p = whole
  BY <1>1, <1>3, Zenon
<1> QED BY <1>2, <1>4, Zenon DEF p, Row

LEMMA Cut ==
  ASSUME NEW X, NEW s \in Seq(X), NEW n \in 0..Len(s)
  PROVE  /\ SubSeq(s, 1, n) \in Seq(X) /\ SubSeq(s, n + 1, Len(s)) \in Seq(X)
         /\ Len(SubSeq(s, n + 1, Len(s))) = Len(s) - n
         /\ Joined(SubSeq(s, 1, n), SubSeq(s, n + 1, Len(s)), s)
<1>0. Len(s) \in Nat /\ n \in Nat
  OBVIOUS
<1>1. SubSeq(s, 1, n) \in Seq(X) /\ SubSeq(s, n + 1, Len(s)) \in Seq(X)
  OBVIOUS
<1>2. Len(SubSeq(s, n + 1, Len(s))) = Len(s) - n
  BY <1>0
<1>3. SubSeq(s, 1, n) \o SubSeq(s, n + 1, Len(s)) = s
  <2>1. /\ 1 \in 1..(Len(s) + 1) /\ n \in 0..Len(s) /\ Len(s) \in n..Len(s)
        /\ n \in (1 - 1)..Len(s)
    BY <1>0
  <2>2. SubSeq(s, 1, n) \o SubSeq(s, n + 1, Len(s)) = SubSeq(s, 1, Len(s))
    BY <2>1, ConcatAdjacentSubSeq, Zenon
  <2>3. SubSeq(s, 1, Len(s)) = s
    BY SubSeqFull, Zenon
  <2> QED BY <2>2, <2>3
<1> QED BY <1>1, <1>2, <1>3, Zenon DEF Joined

\* A turn, of a buffer that is too small and of one that is not.
LEMMA FillOne ==
  ASSUME NEW cons, NEW buf, NEW str
  PROVE  /\ Len(buf) + Len(str) <= BUF_LEN
              => FillTurn(OutputAt(cons, buf, str)) = OutputAt(cons, buf, str)
         /\ ~(Len(buf) + Len(str) <= BUF_LEN) =>
              LET n == BUF_LEN - Len(buf)
              IN  FillTurn(OutputAt(cons, buf, str))
                    = OutputAt(cons \o (buf \o SubSeq(str, 1, n)), <<>>, SubSeq(str, n + 1, Len(str)))
<1> DEFINE a == OutputAt(cons, buf, str)
           n == BUF_LEN - Len(buf)
           s1 == SubSeq(str, 1, n)
           s2 == SubSeq(str, n + 1, Len(str))
<1>1. a.ctx.buf = buf /\ a.s = str /\ a.ctx = [buf |-> buf, cons |-> cons]
  BY DEF OutputAt
<1> HIDE DEF a
<1>2. Len(buf) + Len(str) <= BUF_LEN => FillTurn(a) = a
  BY <1>1, Zenon DEF FillTurn
<1>3. ~(Len(buf) + Len(str) <= BUF_LEN)
        => FillTurn(a) = [ctx |-> debug_flush([a.ctx EXCEPT !.buf = @ \o s1]), s |-> s2]
  BY <1>1, Zenon DEF FillTurn
<1> HIDE DEF s1, s2
<1>4. [a.ctx EXCEPT !.buf = @ \o s1] = [buf |-> buf \o s1, cons |-> cons]
  <2>1. \A b : [[buf |-> buf, cons |-> cons] EXCEPT !.buf = b] = [buf |-> b, cons |-> cons]
    OBVIOUS
  <2> QED BY <1>1, <2>1, Zenon
<1>5. \A x, y : debug_flush([buf |-> x, cons |-> y]) = [buf |-> <<>>, cons |-> y \o x]
  BY DEF debug_flush
<1>6. ~(Len(buf) + Len(str) <= BUF_LEN) => FillTurn(a) = OutputAt(cons \o (buf \o s1), <<>>, s2)
  BY <1>3, <1>4, <1>5, Zenon DEF OutputAt
<1> QED BY <1>2, <1>6, Zenon DEF a, s1, s2

\* The buffer is never overfull, nothing is lost, and every turn that is needed leaves less.
Printing(i, whole, all, cons, buf, str) ==
  /\ cons \in Seq(Characters) /\ buf \in Seq(Characters) /\ str \in Seq(Characters)
  /\ Len(buf) <= BUF_LEN /\ Row(cons, buf, str, whole)
  /\ Len(buf) + Len(str) <= BUF_LEN \/ Len(buf) + Len(str) <= all - i

LEMMA PrintingOn ==
  ASSUME NEW i \in Nat, NEW whole, NEW all \in Nat, NEW cons, NEW buf, NEW str,
         Printing(i, whole, all, cons, buf, str)
  PROVE  \E c, b, s : /\ FillTurn(OutputAt(cons, buf, str)) = OutputAt(c, b, s)
                      /\ Printing(i + 1, whole, all, c, b, s)
<1> DEFINE T == Seq(Characters)
           n == BUF_LEN - Len(buf)
           s1 == SubSeq(str, 1, n)
           s2 == SubSeq(str, n + 1, Len(str))
<1>1. cons \in T /\ buf \in T /\ str \in T
  BY DEF Printing
<1>2. BUF_LEN \in Nat \ {0} /\ Len(buf) \in Nat /\ Len(str) \in Nat
  BY <1>1, PrintAssumption
<1>3. /\ Len(buf) <= BUF_LEN /\ Row(cons, buf, str, whole)
      /\ Len(buf) + Len(str) <= BUF_LEN \/ Len(buf) + Len(str) <= all - i
  BY DEF Printing
<1>4. CASE Len(buf) + Len(str) <= BUF_LEN
  BY <1>1, <1>3, <1>4, FillOne, Zenon DEF Printing
<1>5. CASE ~(Len(buf) + Len(str) <= BUF_LEN)
  <2>1. n \in 0..Len(str)
    BY <1>2, <1>3, <1>5
  <2>2. s1 \in T /\ s2 \in T /\ Len(s2) = Len(str) - n /\ Joined(s1, s2, str)
    <3> HIDE DEF n
    <3> QED BY <1>1, <2>1, Cut, Zenon
  <2>3. FillTurn(OutputAt(cons, buf, str)) = OutputAt(cons \o (buf \o s1), <<>>, s2)
    BY <1>5, FillOne
  <2> HIDE DEF s1, s2
  <2>4. /\ Row(cons \o (buf \o s1), <<>>, s2, whole)
        /\ cons \o (buf \o s1) \in T /\ <<>> \in T
    BY <1>1, <1>3, <2>2, Regroup, Zenon
  <2>6. Len(<<>>) = 0
    OBVIOUS
  <2>7. Len(<<>>) <= BUF_LEN /\ Len(<<>>) + Len(s2) <= all - (i + 1)
    <3> DEFINE l == Len(buf)
               m == Len(str)
               k == Len(s2)
               e == Len(<<>>)
    <3>1. k = m - n /\ e = 0 /\ n = BUF_LEN - l
      BY <2>2, <2>6, Zenon
    <3>2. l \in Nat /\ m \in Nat /\ l <= BUF_LEN /\ l + m <= all - i
      BY <1>2, <1>3, <1>5, Zenon
    <3> HIDE DEF l, m, k, e, n
    <3>3. e <= BUF_LEN /\ e + k <= all - (i + 1)
      BY <1>2, <3>1, <3>2
    <3> QED BY <3>3, Zenon DEF e, k
  <2>8. Printing(i + 1, whole, all, cons \o (buf \o s1), <<>>, s2)
    BY <2>2, <2>4, <2>7, Zenon DEF Printing
  <2> QED BY <2>3, <2>8, Zenon
<1> QED BY <1>4, <1>5

Kept(ctx, whole) ==
  \E c \in Seq(Characters), b \in Seq(Characters) :
    ctx = [buf |-> b, cons |-> c] /\ Len(b) <= BUF_LEN /\ c \o b = whole

\* debug_output prints nothing twice, drops nothing and leaves the rest in the buffer.
LEMMA OutputOne ==
  ASSUME NEW cons \in Seq(Characters), NEW buf \in Seq(Characters), NEW str \in Seq(Characters),
         Len(buf) <= BUF_LEN
  PROVE  Kept(debug_output([buf |-> buf, cons |-> cons], str), (cons \o buf) \o str)
<1> DEFINE ctx == [buf |-> buf, cons |-> cons]
           n == Len(str) + 1
           all == Len(buf) + Len(str)
           whole == (cons \o buf) \o str
           start == OutputAt(cons, buf, str)
           loop == [a \in Outputs |-> FillTurn(a)]
           end == Iterate(loop, start, n)
           Then(i) == {a \in Outputs : \E c, b, s : a = OutputAt(c, b, s) /\ Printing(i, whole, all, c, b, s)}
           J == [i \in 0..n |-> Then(i)]
<1>1. BUF_LEN \in Nat \ {0} /\ Len(str) \in Nat /\ n \in Nat /\ Len(buf) \in Nat /\ all \in Nat
  BY PrintAssumption
<1>2. \A c \in Seq(Characters), b \in Seq(Characters), s \in Seq(Characters) : OutputAt(c, b, s) \in Outputs
  BY DEF OutputAt, Outputs, Contexts
<1>3. debug_output(ctx, str) = [end.ctx EXCEPT !.buf = @ \o end.s]
  BY Zenon DEF debug_output, FillTurn, OutputAt
<1>4. start \in J[0]
  <2>1. all <= all - 0 /\ 0 \in 0..n
    <3> HIDE DEF all
    <3> QED BY <1>1
  <2>2. Printing(0, whole, all, cons, buf, str)
    <3>1. Row(cons, buf, str, whole)
      BY Zenon DEF Row
    <3> QED BY <2>1, <3>1, Zenon DEF Printing
  <2> HIDE DEF all, whole
  <2> QED BY <1>2, <2>1, <2>2, Zenon
<1> HIDE DEF whole, all, start
<1>5. ASSUME NEW i \in 0..(n - 1), NEW a \in J[i]
      PROVE  loop[a] \in J[i + 1]
  <2>1. i \in Nat /\ i \in 0..n /\ i + 1 \in 0..n
    BY <1>1
  <2>2. a \in Then(i)
    BY <1>5, <2>1, Zenon
  <2>3. PICK c, b, s : a = OutputAt(c, b, s) /\ Printing(i, whole, all, c, b, s)
    BY <2>2
  <2>4. PICK c1, b1, t1 : FillTurn(a) = OutputAt(c1, b1, t1) /\ Printing(i + 1, whole, all, c1, b1, t1)
    <3>1. \E c1, b1, t1 : /\ FillTurn(OutputAt(c, b, s)) = OutputAt(c1, b1, t1)
                          /\ Printing(i + 1, whole, all, c1, b1, t1)
      BY <1>1, <2>1, <2>3, PrintingOn
    <3> QED BY <2>3, <3>1
  <2>5. FillTurn(a) \in Outputs
    <3>1. OutputAt(c1, b1, t1) \in Outputs
      BY <1>2, <2>4, Zenon DEF Printing
    <3> QED BY <2>4, <3>1
  <2>6. loop[a] = FillTurn(a)
    BY <2>2
  <2>7. loop[a] \in Then(i + 1)
    BY <2>4, <2>5, <2>6, Zenon
  <2> QED BY <2>1, <2>7, Zenon
<1>6. end \in J[n]
  <2> HIDE DEF J, loop, n
  <2>1. \A i \in 0..(n - 1) : \A a \in J[i] : loop[a] \in J[i + 1]
    BY <1>5, Zenon
  <2> QED BY <1>1, <1>4, <2>1, IterateInv, Zenon
<1>7. n \in 0..n
  BY <1>1
<1> HIDE DEF end
<1>8. PICK c, b, s : end = OutputAt(c, b, s) /\ Printing(n, whole, all, c, b, s)
  BY <1>6, <1>7, Zenon
<1>9. /\ c \in Seq(Characters) /\ b \in Seq(Characters) /\ s \in Seq(Characters)
      /\ Row(c, b, s, whole) /\ Len(b) <= BUF_LEN
      /\ Len(b) + Len(s) <= BUF_LEN \/ Len(b) + Len(s) <= all - n
  BY <1>8, Zenon DEF Printing
<1>10. Len(b) + Len(s) <= BUF_LEN
  <2> DEFINE l == Len(b)
             m == Len(s)
             p == Len(buf)
             q == Len(str)
  <2>1. l \in Nat /\ m \in Nat
    BY <1>9
  <2>2. p \in Nat /\ q \in Nat /\ p <= BUF_LEN /\ all - n = (p + q) - (q + 1)
    BY <1>1, Zenon DEF all
  <2>3. l + m <= BUF_LEN \/ l + m <= all - n
    BY <1>9, Zenon
  <2> HIDE DEF l, m, p, q, n
  <2>4. l + m <= BUF_LEN
    BY <1>1, <2>1, <2>2, <2>3
  <2> QED BY <2>4, Zenon DEF l, m
<1>11. end.ctx = [buf |-> b, cons |-> c] /\ end.s = s
  BY <1>8 DEF OutputAt
<1>12. debug_output(ctx, str) = [buf |-> b \o s, cons |-> c]
  <2>1. \A x : [[buf |-> b, cons |-> c] EXCEPT !.buf = x] = [buf |-> x, cons |-> c]
    OBVIOUS
  <2>2. [buf |-> b, cons |-> c].buf = b
    OBVIOUS
  <2> QED BY <1>3, <1>11, <2>1, <2>2, Zenon
<1>13. /\ b \o s \in Seq(Characters) /\ Len(b \o s) <= BUF_LEN
       /\ c \o (b \o s) = (cons \o buf) \o str
  <2>1. /\ Joined(c, b \o s, whole)
        /\ b \o s \in Seq(Characters) /\ Len(b \o s) = Len(b) + Len(s)
    BY <1>9, Associate, Zenon
  <2>2. whole = (cons \o buf) \o str
    BY DEF whole
  <2>3. c \o (b \o s) = whole
    BY <2>1, Zenon DEF Joined
  <2>4. Len(b \o s) <= BUF_LEN
    BY <1>10, <2>1
  <2> QED BY <2>1, <2>2, <2>3, <2>4, Zenon
<1> QED BY <1>9, <1>12, <1>13, Zenon DEF Kept

LEMMA DebugfKeeps ==
  ASSUME NEW s1 \in Seq(Characters), NEW s2 \in Seq(Characters), NEW s3 \in Seq(Characters)
  PROVE  vdebugf(<<s1, s2, s3>>).cons = (s1 \o s2) \o s3
<1> DEFINE T == Seq(Characters)
           chunks == <<s1, s2, s3>>
           output == [ctx \in Contexts |-> [s \in T |-> debug_output(ctx, s)]]
           Ctx(c, b) == [buf |-> b, cons |-> c]
           start == Ctx(<<>>, <<>>)
           So(k) == Through(output, start, SubSeq(chunks, 1, k))
<1>1. chunks \in Seq(T) /\ Len(chunks) = 3 /\ chunks[1] = s1 /\ chunks[2] = s2 /\ chunks[3] = s3
  OBVIOUS
<1>2. \A c \in T, b \in T : Ctx(c, b) \in Contexts
  BY DEF Contexts
<1>3. \A c \in T, b \in T, s \in T : output[Ctx(c, b)][s] = debug_output(Ctx(c, b), s)
  BY <1>2
<1>4. vdebugf(chunks) = debug_flush(Through(output, start, chunks))
  BY DEF vdebugf
<1> HIDE DEF output, chunks
<1>5. \A c \in T, b \in T, s \in T :
        Len(b) <= BUF_LEN => Kept(output[Ctx(c, b)][s], (c \o b) \o s)
  <2> TAKE c \in T, b \in T, s \in T
  <2> HAVE Len(b) <= BUF_LEN
  <2>1. Kept(debug_output(Ctx(c, b), s), (c \o b) \o s)
    BY OutputOne, Zenon
  <2>2. output[Ctx(c, b)][s] = debug_output(Ctx(c, b), s)
    BY <1>3, Zenon
  <2> QED BY <2>1, <2>2, Zenon
<1>6. So(0) = start /\ (\A k \in 1..3 : So(k) = output[So(k - 1)][chunks[k]])
      /\ So(3) = Through(output, start, chunks)
  <2> HIDE DEF start
  <2>1. Stepwise(output, start, chunks)
    BY <1>1, ThroughNext, Zenon
  <2> QED BY <1>1, <2>1, Zenon DEF Stepwise
<1> HIDE DEF So
<1>8. So(1) = output[So(0)][s1] /\ So(2) = output[So(1)][s2] /\ So(3) = output[So(2)][s3]
  <2>1. So(1) = output[So(1 - 1)][chunks[1]] /\ So(2) = output[So(2 - 1)][chunks[2]]
        /\ So(3) = output[So(3 - 1)][chunks[3]]
    BY <1>6
  <2>2. 1 - 1 = 0 /\ 2 - 1 = 1 /\ 3 - 1 = 2
    OBVIOUS
  <2> QED BY <1>1, <2>1, <2>2
<1>9. <<>> \in T /\ Len(<<>>) <= BUF_LEN /\ <<>> \o <<>> = <<>>
  BY PrintAssumption
<1> HIDE DEF T, Ctx
<1>10. s1 \in T /\ s2 \in T /\ s3 \in T
  BY DEF T
<1>11. PICK c1 \in T, b1 \in T : So(1) = Ctx(c1, b1) /\ Len(b1) <= BUF_LEN /\ c1 \o b1 = (<<>> \o <<>>) \o s1
  <2>1. Kept(output[Ctx(<<>>, <<>>)][s1], (<<>> \o <<>>) \o s1)
    BY <1>5, <1>9, <1>10, Zenon
  <2>2. So(1) = output[Ctx(<<>>, <<>>)][s1]
    BY <1>6, <1>8, <1>9, Zenon
  <2> QED BY <2>1, <2>2, Zenon DEF Kept, Ctx, T
<1>12. PICK c2 \in T, b2 \in T : So(2) = Ctx(c2, b2) /\ Len(b2) <= BUF_LEN /\ c2 \o b2 = (c1 \o b1) \o s2
  <2>1. Kept(output[Ctx(c1, b1)][s2], (c1 \o b1) \o s2)
    BY <1>5, <1>11, <1>10, Zenon
  <2>2. So(2) = output[Ctx(c1, b1)][s2]
    BY <1>8, <1>11, Zenon
  <2> QED BY <2>1, <2>2, Zenon DEF Kept, Ctx, T
<1>13. PICK c3 \in T, b3 \in T : So(3) = Ctx(c3, b3) /\ Len(b3) <= BUF_LEN /\ c3 \o b3 = (c2 \o b2) \o s3
  <2>1. Kept(output[Ctx(c2, b2)][s3], (c2 \o b2) \o s3)
    BY <1>5, <1>12, <1>10, Zenon
  <2>2. So(3) = output[Ctx(c2, b2)][s3]
    BY <1>8, <1>12, Zenon
  <2> QED BY <2>1, <2>2, Zenon DEF Kept, Ctx, T
<1>14. debug_flush(Ctx(c3, b3)).cons = c3 \o b3
  <2>1. Ctx(c3, b3).cons = c3 /\ Ctx(c3, b3).buf = b3
    BY DEF Ctx
  <2>2. debug_flush(Ctx(c3, b3)).cons = Ctx(c3, b3).cons \o Ctx(c3, b3).buf
    BY DEF debug_flush
  <2> QED BY <2>1, <2>2, Zenon
<1>15. <<>> \o s1 = s1
  BY <1>10, ConcatEmptySeq, Zenon DEF T
<1>16. c3 \o b3 = (s1 \o s2) \o s3
  BY <1>9, <1>11, <1>12, <1>13, <1>15, Zenon
<1> QED BY <1>4, <1>6, <1>13, <1>14, <1>16, Zenon DEF chunks

-----------------------------------------------------------------------------
(* readline *)

ReadTurns == [s \in Lines |-> [c \in Keys |-> readline_step(s, c)]]
KeyTurns ==
  [s \in Seq(Keys) |->
    [c \in Keys |-> IF c # DEL THEN Append(s, c) ELSE IF s = <<>> THEN s ELSE Front(s)]]
EmptyLine == [buf |-> [i \in 0..(BUFSIZE - 1) |-> "NUL"], i |-> 0, state |-> "read"]
LineAt(buf, i, state) == [buf |-> buf, i |-> i, state |-> state]
LineBuf == [0..(BUFSIZE - 1) -> Keys]

\* The first n characters of the buffer are shown, and no newline is left behind them from
\* an earlier character.
Shows(buf, shown) == \A j \in 1..Len(shown) : buf[j - 1] = shown[j]
Editing(s, shown) ==
  \E buf \in LineBuf :
    /\ s = LineAt(buf, Len(shown), "read") /\ shown \in Seq(Keys) /\ Len(shown) < BUFSIZE
    /\ Shows(buf, shown) /\ \A j \in 0..(BUFSIZE - 1) : buf[j] # NL
Long(s) == \E buf \in LineBuf, i \in Nat : s = LineAt(buf, i, "long")
Ended(s, shown) ==
  \E buf \in LineBuf :
    s = LineAt(buf, Len(shown), "return") /\ shown \in Seq(Keys) /\ Shows(buf, shown)

LEMMA FrontIs ==
  ASSUME NEW X, NEW x \in Seq(X), x # <<>>
  PROVE  /\ Len(x) > 0 /\ Front(x) \in Seq(X) /\ Len(Front(x)) = Len(x) - 1
         /\ \A j \in 1..(Len(x) - 1) : Front(x)[j] = x[j]
<1>1. Len(x) \in Nat /\ Len(x) # 0
  BY EmptySeq
<1> DEFINE n == Len(x) - 1
           f == SubSeq(x, 1, n)
<1>6. n \in Nat /\ n <= Len(x)
  BY <1>1
<1>2. f \in Seq(X)
  BY <1>1
<1>4. Len(f) = n
  <2> HIDE DEF n
  <2> QED BY <1>6
<1>5. \A j \in 1..(Len(x) - 1) : f[j] = x[j]
  BY <1>1
<1>3. Front(x) = f
  BY DEF Front
<1> HIDE DEF f
<1> QED BY <1>1, <1>2, <1>3, <1>4, <1>5

LEMMA LineTypes ==
  ASSUME NEW buf \in LineBuf, NEW i \in Int, NEW state \in {"read", "long", "return"}
  PROVE  LineAt(buf, i, state) \in Lines
BY DEF LineAt, LineBuf, Lines

Put(buf, i, c) == [buf EXCEPT ![i] = c]
Back(i, c) == IF c # DEL THEN i ELSE IF i > 0 THEN i - 2 ELSE -1

\* The step, while the line is read.
LEMMA ReadStep ==
  ASSUME NEW buf \in LineBuf, NEW i \in 0..(BUFSIZE - 1), NEW c
  PROVE  LET buf1 == [buf EXCEPT ![i] = c]
             i1 == IF c # DEL THEN i ELSE IF i > 0 THEN i - 2 ELSE -1
         IN  /\ At(buf1, i1) = NL =>
                  readline_step(LineAt(buf, i, "read"), c) = LineAt(buf1, i1, "return")
             /\ At(buf1, i1) # NL =>
                  readline_step(LineAt(buf, i, "read"), c)
                    = LineAt(buf1, i1 + 1, IF i1 + 1 < BUFSIZE THEN "read" ELSE "long")
<1> DEFINE s == LineAt(buf, i, "read")
           buf1 == [buf EXCEPT ![i] = c]
           i1 == IF c # DEL THEN i ELSE IF i > 0 THEN i - 2 ELSE -1
<1>1. s.buf = buf /\ s.i = i /\ s.state = "read"
  BY DEF LineAt
<1>2. "read" # "long"
  OBVIOUS
<1> HIDE DEF s, buf1, i1
<1>3. Put(s.buf, s.i, c) = buf1 /\ Back(s.i, c) = i1
  <2>1. Put(buf, i, c) = buf1 /\ Back(i, c) = i1
    BY DEF Put, Back, buf1, i1
  <2> QED BY <1>1, <2>1, Zenon
<1>4. readline_step(s, c) =
        CASE s.state = "long" -> IF c = NL THEN [buf |-> s.buf, i |-> 0, state |-> "return"] ELSE s
          [] s.state = "read" /\ At(buf1, i1) = NL -> [buf |-> buf1, i |-> i1, state |-> "return"]
          [] s.state = "read" /\ At(buf1, i1) # NL ->
               [buf |-> buf1, i |-> i1 + 1, state |-> IF i1 + 1 < BUFSIZE THEN "read" ELSE "long"]
          [] OTHER -> s
  BY <1>3, Zenon DEF readline_step, Put, Back
<1>5. CASE At(buf1, i1) = NL
  <2>1. readline_step(s, c) = [buf |-> buf1, i |-> i1, state |-> "return"]
    BY <1>1, <1>2, <1>4, <1>5, Zenon
  <2> QED BY <1>5, <2>1, Zenon DEF s, buf1, i1, LineAt
<1>6. CASE At(buf1, i1) # NL
  <2>1. readline_step(s, c) =
          [buf |-> buf1, i |-> i1 + 1, state |-> IF i1 + 1 < BUFSIZE THEN "read" ELSE "long"]
    BY <1>1, <1>2, <1>4, <1>6, Zenon
  <2> QED BY <1>6, <2>1, Zenon DEF s, buf1, i1, LineAt
<1> QED BY <1>5, <1>6

\* A character that is not the end of the line.
LEMMA EditOne ==
  ASSUME NEW s, NEW shown, Editing(s, shown), NEW c \in Keys, c # NL
  PROVE  LET shown1 == KeyTurns[shown][c]
         IN  IF Len(shown1) = BUFSIZE THEN Long(readline_step(s, c)) /\ shown1 \in Seq(Keys)
             ELSE Editing(readline_step(s, c), shown1)
<1>1. PICK buf \in LineBuf :
        /\ s = LineAt(buf, Len(shown), "read") /\ shown \in Seq(Keys) /\ Len(shown) < BUFSIZE
        /\ Shows(buf, shown) /\ \A j \in 0..(BUFSIZE - 1) : buf[j] # NL
  BY DEF Editing
<1> DEFINE i == Len(shown)
           buf1 == [buf EXCEPT ![i] = c]
           i1 == IF c # DEL THEN i ELSE IF i > 0 THEN i - 2 ELSE -1
           shown1 == KeyTurns[shown][c]
           next == readline_step(s, c)
<1>2. BUFSIZE \in Nat \ {0} /\ i \in Nat /\ i \in 0..(BUFSIZE - 1)
  BY <1>1, StringsAssumption
<1>3. buf1 \in LineBuf /\ \A j \in 0..(BUFSIZE - 1) : buf1[j] = IF j = i THEN c ELSE buf[j]
  BY <1>1 DEF LineBuf
<1>4. \A j \in 0..(BUFSIZE - 1) : buf1[j] # NL
  BY <1>1, <1>3
<1>5. shown1 = IF c # DEL THEN Append(shown, c) ELSE IF shown = <<>> THEN shown ELSE Front(shown)
  BY <1>1 DEF KeyTurns
<1>6. /\ At(buf1, i1) = NL => next = LineAt(buf1, i1, "return")
      /\ At(buf1, i1) # NL => next = LineAt(buf1, i1 + 1, IF i1 + 1 < BUFSIZE THEN "read" ELSE "long")
  BY <1>1, <1>2, ReadStep, Zenon
<1>0. /\ c # DEL => i1 = i
      /\ c = DEL /\ i > 0 => i1 = i - 2
      /\ c = DEL /\ ~(i > 0) => i1 = -1
  OBVIOUS
<1> HIDE DEF buf1, shown1, next, i1
<1>7. i1 \in -1..(BUFSIZE - 1)
  <2> HIDE DEF i
  <2>1. CASE c # DEL
    <3>1. i1 = i
      BY <1>0, <2>1
    <3> QED BY <1>2, <3>1
  <2>2. CASE c = DEL /\ i > 0
    <3>1. i1 = i - 2
      BY <1>0, <2>2
    <3> QED BY <1>2, <2>2, <3>1
  <2>3. CASE c = DEL /\ ~(i > 0)
    <3>1. i1 = -1
      BY <1>0, <2>3
    <3> QED BY <1>2, <3>1
  <2> QED BY <2>1, <2>2, <2>3
<1>8. At(buf1, i1) # NL
  BY <1>2, <1>4, <1>7 DEF At, NL
<1>9. /\ shown1 \in Seq(Keys) /\ Len(shown1) = i1 + 1
      /\ \A j \in 1..Len(shown1) : buf1[j - 1] = shown1[j]
  <2>1. CASE c # DEL
    <3>1. /\ shown1 = Append(shown, c) /\ Len(shown1) = i + 1 /\ i1 = i /\ shown1 \in Seq(Keys)
          /\ \A j \in 1..(i + 1) : shown1[j] = IF j <= i THEN shown[j] ELSE c
      BY <1>0, <1>1, <1>5, <2>1
    <3>2. ASSUME NEW j \in 1..(i + 1)
          PROVE  buf1[j - 1] = shown1[j]
      <4>1. j - 1 \in 0..(BUFSIZE - 1) /\ (j - 1 = i <=> ~(j <= i)) /\ (j <= i => j \in 1..Len(shown))
        BY <1>2
      <4> QED BY <1>1, <1>3, <3>1, <4>1 DEF Shows
    <3> QED BY <3>1, <3>2
  <2>2. CASE c = DEL /\ shown = <<>>
    <3>1. i = 0 /\ shown1 = shown
      BY <1>5, <2>2
    <3> QED BY <1>0, <1>1, <2>2, <3>1
  <2>3. CASE c = DEL /\ shown # <<>>
    <3>1. shown1 = Front(shown)
      BY <1>5, <2>3, Zenon
    <3>2. /\ i > 0 /\ Len(shown1) = i - 1 /\ shown1 \in Seq(Keys)
          /\ \A j \in 1..(i - 1) : shown1[j] = shown[j]
      BY <1>1, <2>3, <3>1, FrontIs, Zenon
    <3>3. ASSUME NEW j \in 1..(i - 1)
          PROVE  buf1[j - 1] = shown1[j]
      <4>1. j - 1 \in 0..(BUFSIZE - 1) /\ j - 1 # i /\ j \in 1..Len(shown)
        BY <1>2
      <4> QED BY <1>1, <1>3, <3>2, <4>1 DEF Shows
    <3>4. Len(shown1) = i1 + 1
      BY <1>0, <1>2, <2>3, <3>2
    <3> QED BY <3>2, <3>3, <3>4
  <2> QED BY <2>1, <2>2, <2>3
<1>10. next = LineAt(buf1, Len(shown1), IF Len(shown1) < BUFSIZE THEN "read" ELSE "long")
  BY <1>6, <1>8, <1>9, Zenon
<1>11. Len(shown1) \in Nat /\ Len(shown1) <= BUFSIZE
  BY <1>2, <1>7, <1>9
<1>12. CASE Len(shown1) = BUFSIZE
  <2>1. ~(Len(shown1) < BUFSIZE)
    BY <1>2, <1>12
  <2>2. Long(next)
    BY <1>3, <1>10, <1>11, <2>1, Zenon DEF Long
  <2> QED BY <1>9, <1>12, <2>2, Zenon DEF next, shown1
<1>13. CASE Len(shown1) # BUFSIZE
  <2>1. Len(shown1) < BUFSIZE
    BY <1>2, <1>11, <1>13
  <2>2. Editing(next, shown1)
    BY <1>3, <1>4, <1>9, <1>10, <2>1, Zenon DEF Editing, Shows
  <2> QED BY <1>13, <2>2, Zenon DEF next, shown1
<1> QED BY <1>12, <1>13

\* The end of the line, and what comes then.
LEMMA EditEnd ==
  /\ \A s, shown : \A c \in Keys : Editing(s, shown) /\ c = NL => Ended(readline_step(s, c), shown)
  /\ \A s, c : Long(s) /\ c # NL => Long(readline_step(s, c))
  /\ \A s, c : Long(s) /\ c = NL => Ended(readline_step(s, c), <<>>)
  /\ \A s, shown, c : Ended(s, shown) => Ended(readline_step(s, c), shown)
<1>1. ASSUME NEW s, NEW shown, NEW c \in Keys, Editing(s, shown), c = NL
      PROVE  Ended(readline_step(s, c), shown)
  <2>1. PICK buf \in LineBuf :
          /\ s = LineAt(buf, Len(shown), "read") /\ shown \in Seq(Keys) /\ Len(shown) < BUFSIZE
          /\ Shows(buf, shown)
    BY <1>1 DEF Editing
  <2> DEFINE i == Len(shown)
             buf1 == [buf EXCEPT ![i] = c]
             i1 == IF c # DEL THEN i ELSE IF i > 0 THEN i - 2 ELSE -1
  <2>2. BUFSIZE \in Nat \ {0} /\ i \in Nat /\ i \in 0..(BUFSIZE - 1)
    BY <2>1, StringsAssumption
  <2>3. buf1 \in LineBuf /\ \A j \in 0..(BUFSIZE - 1) : buf1[j] = IF j = i THEN c ELSE buf[j]
    BY <2>1 DEF LineBuf
  <2>4. i1 = i
    <3>1. c # DEL
      BY <1>1 DEF NL, DEL
    <3> QED BY <3>1, Zenon
  <2>5. At(buf1, i1) = NL => readline_step(s, c) = LineAt(buf1, i1, "return")
    BY <2>1, <2>2, ReadStep, Zenon
  <2> HIDE DEF buf1, i1
  <2>6. At(buf1, i1) = NL
    BY <1>1, <2>2, <2>3, <2>4 DEF At
  <2>7. Shows(buf1, shown)
    <3>1. ASSUME NEW j \in 1..Len(shown)
          PROVE  buf1[j - 1] = shown[j]
      <4>1. j - 1 \in 0..(BUFSIZE - 1) /\ j - 1 # i
        BY <2>2
      <4> QED BY <2>1, <2>3, <4>1 DEF Shows
    <3> QED BY <3>1 DEF Shows
  <2> QED BY <2>1, <2>3, <2>4, <2>5, <2>6, <2>7, Zenon DEF Ended
<1>2. ASSUME NEW s, NEW c, Long(s)
      PROVE  /\ c # NL => Long(readline_step(s, c))
             /\ c = NL => Ended(readline_step(s, c), <<>>)
  <2>1. PICK buf \in LineBuf, i \in Nat : s = LineAt(buf, i, "long")
    BY <1>2 DEF Long
  <2>2. s.state = "long"
    BY <2>1 DEF LineAt
  <2>3. readline_step(s, c) = IF c = NL THEN [buf |-> s.buf, i |-> 0, state |-> "return"] ELSE s
    BY <2>2, Zenon DEF readline_step
  <2>4. [buf |-> s.buf, i |-> 0, state |-> "return"] = LineAt(buf, Len(<<>>), "return")
    BY <2>1 DEF LineAt
  <2>5. Shows(buf, <<>>) /\ <<>> \in Seq(Keys)
    BY DEF Shows
  <2> QED BY <1>2, <2>3, <2>4, <2>5, Zenon DEF Ended
<1>3. ASSUME NEW s, NEW shown, NEW c, Ended(s, shown)
      PROVE  Ended(readline_step(s, c), shown)
  <2>1. PICK buf \in LineBuf : s = LineAt(buf, Len(shown), "return")
    BY <1>3 DEF Ended
  <2>2. s.state = "return"
    BY <2>1 DEF LineAt
  <2>3. "return" # "long" /\ "return" # "read"
    OBVIOUS
  <2>4. readline_step(s, c) = s
    BY <2>2, <2>3, Zenon DEF readline_step
  <2> QED BY <1>3, <2>4
<1> QED BY <1>1, <1>2, <1>3, Zenon

\* readline and the user, after k characters.
LineAfter(typed, k) == Through(ReadTurns, EmptyLine, SubSeq(typed, 1, k))
ShownAfter(typed, k) == Through(KeyTurns, <<>>, SubSeq(typed, 1, k))

LEMMA KeyTypes ==
  ASSUME NEW shown \in Seq(Keys), NEW c \in Keys
  PROVE  KeyTurns[shown][c] \in Seq(Keys)
<1>1. KeyTurns[shown][c] = IF c # DEL THEN Append(shown, c) ELSE IF shown = <<>> THEN shown ELSE Front(shown)
  BY DEF KeyTurns
<1>2. Append(shown, c) \in Seq(Keys)
  OBVIOUS
<1>3. shown # <<>> => Front(shown) \in Seq(Keys)
  BY FrontIs, Zenon
<1> QED BY <1>1, <1>2, <1>3, Zenon

LEMMA LineStates ==
  ASSUME NEW s
  PROVE  /\ \A shown : Editing(s, shown) => s \in Lines
         /\ Long(s) => s \in Lines
         /\ \A shown : Ended(s, shown) => s \in Lines
<1>1. \A buf \in LineBuf, i \in Int, state \in {"read", "long", "return"} : LineAt(buf, i, state) \in Lines
  BY LineTypes, Zenon
<1>2. \A shown \in Seq(Keys) : Len(shown) \in Int
  OBVIOUS
<1>3. Nat \subseteq Int
  OBVIOUS
<1>4. ASSUME NEW shown, Editing(s, shown) PROVE s \in Lines
  BY <1>1, <1>2, <1>4, Zenon DEF Editing
<1>5. ASSUME Long(s) PROVE s \in Lines
  BY <1>1, <1>3, <1>5, Zenon DEF Long
<1>6. ASSUME NEW shown, Ended(s, shown) PROVE s \in Lines
  BY <1>1, <1>2, <1>6, Zenon DEF Ended
<1> QED BY <1>4, <1>5, <1>6, Zenon

\* One character further.
OneKey(typed, k) ==
  /\ LineAfter(typed, k - 1) \in Lines
       => LineAfter(typed, k) = readline_step(LineAfter(typed, k - 1), typed[k])
  /\ ShownAfter(typed, k) = KeyTurns[ShownAfter(typed, k - 1)][typed[k]]
LEMMA KeyByKey ==
  ASSUME NEW typed \in Seq(Keys)
  PROVE  /\ LineAfter(typed, 0) = EmptyLine /\ ShownAfter(typed, 0) = <<>>
         /\ \A k \in 1..Len(typed) : OneKey(typed, k)
         /\ LineAfter(typed, Len(typed)) = Through(ReadTurns, EmptyLine, typed)
<1>1. Stepwise(ReadTurns, EmptyLine, typed) /\ Stepwise(KeyTurns, <<>>, typed)
  BY ThroughNext, Zenon
<1>2. \A s \in Lines, c \in Keys : ReadTurns[s][c] = readline_step(s, c)
  BY DEF ReadTurns
<1>3. \A k \in 1..Len(typed) : typed[k] \in Keys
  OBVIOUS
<1>4. LineAfter(typed, 0) = EmptyLine /\ ShownAfter(typed, 0) = <<>>
      /\ LineAfter(typed, Len(typed)) = Through(ReadTurns, EmptyLine, typed)
  BY <1>1, Zenon DEF Stepwise, LineAfter, ShownAfter
<1>5. ASSUME NEW k \in 1..Len(typed) PROVE OneKey(typed, k)
  <2>1. LineAfter(typed, k) = ReadTurns[LineAfter(typed, k - 1)][typed[k]]
    BY <1>1, Zenon DEF Stepwise, LineAfter
  <2>2. ShownAfter(typed, k) = KeyTurns[ShownAfter(typed, k - 1)][typed[k]]
    BY <1>1, Zenon DEF Stepwise, ShownAfter
  <2> QED BY <1>2, <1>3, <2>1, <2>2, Zenon DEF OneKey
<1> QED BY <1>4, <1>5, Zenon

\* As long as there is no newline, readline follows the user, or the line was once too long.
TooLong(typed, n) == \E i \in 1..n : Len(ShownAfter(typed, i)) = BUFSIZE
Following(typed, k) ==
  /\ ShownAfter(typed, k) \in Seq(Keys)
  /\ TooLong(typed, k) => Long(LineAfter(typed, k))
  /\ ~TooLong(typed, k) => Editing(LineAfter(typed, k), ShownAfter(typed, k))

LEMMA StartsEmpty == Editing(EmptyLine, <<>>)
<1> DEFINE buf == [i \in 0..(BUFSIZE - 1) |-> "NUL"]
<1>1. buf \in LineBuf
  BY DEF LineBuf, Keys
<1>2. EmptyLine = LineAt(buf, 0, "read")
  BY DEF EmptyLine, LineAt
<1>3. \A j \in 0..(BUFSIZE - 1) : buf[j] # NL
  BY DEF NL
<1>4. Len(<<>>) = 0 /\ <<>> \in Seq(Keys) /\ 0 < BUFSIZE
  BY StringsAssumption
<1>5. Shows(buf, <<>>)
  BY DEF Shows
<1> HIDE DEF buf
<1> QED BY <1>1, <1>2, <1>3, <1>4, <1>5, Zenon DEF Editing

LEMMA Follows ==
  ASSUME NEW typed \in Seq(Keys), NEW n \in 0..Len(typed), \A j \in 1..n : typed[j] # NL
  PROVE  \A k \in 0..n : Following(typed, k)
<1> DEFINE S == {k \in 0..n : Following(typed, k)}
<1>0. n \in Nat /\ Len(typed) \in Nat
  OBVIOUS
<1>1. 0 \in S
  <2>1. ~TooLong(typed, 0)
    BY DEF TooLong
  <2>2. LineAfter(typed, 0) = EmptyLine /\ ShownAfter(typed, 0) = <<>>
    BY KeyByKey, Zenon
  <2>3. <<>> \in Seq(Keys) /\ 0 \in 0..n
    BY <1>0
  <2> QED BY <2>1, <2>2, <2>3, StartsEmpty, Zenon DEF Following
<1>2. ASSUME NEW m \in 0..(n - 1), m \in S
      PROVE  m + 1 \in S
  <2> DEFINE k == m + 1
  <2>1. k \in 1..n /\ k \in 0..n /\ k \in 1..Len(typed) /\ k - 1 = m
    BY <1>0
  <2>2. typed[k] \in Keys /\ typed[k] # NL
    BY <2>1
  <2>3. /\ LineAfter(typed, m) \in Lines
             => LineAfter(typed, k) = readline_step(LineAfter(typed, m), typed[k])
        /\ ShownAfter(typed, k) = KeyTurns[ShownAfter(typed, m)][typed[k]]
    BY <2>1, KeyByKey DEF OneKey
  <2>4. TooLong(typed, k) <=> TooLong(typed, m) \/ Len(ShownAfter(typed, k)) = BUFSIZE
    <3>1. 1..k = 1..m \union {k}
      BY <1>0
    <3> HIDE DEF k
    <3> QED BY <3>1, Zenon DEF TooLong
  <2> HIDE DEF k
  <2>5. Following(typed, m)
    BY <1>2
  <2>6. ShownAfter(typed, k) \in Seq(Keys)
    BY <2>2, <2>3, <2>5, KeyTypes, Zenon DEF Following
  <2>7. CASE TooLong(typed, m)
    <3>1. Long(LineAfter(typed, m))
      BY <2>5, <2>7, Zenon DEF Following
    <3>2. Long(LineAfter(typed, k))
      BY <2>2, <2>3, <3>1, LineStates, EditEnd, Zenon
    <3>3. Following(typed, k)
      BY <2>4, <2>6, <2>7, <3>2, Zenon DEF Following
    <3> QED BY <2>1, <3>3, Zenon DEF k
  <2>8. CASE ~TooLong(typed, m)
    <3>1. Editing(LineAfter(typed, m), ShownAfter(typed, m))
      BY <2>5, <2>8, Zenon DEF Following
    <3>2. LineAfter(typed, k) = readline_step(LineAfter(typed, m), typed[k])
      BY <2>3, <3>1, LineStates, Zenon
    <3>3. IF Len(ShownAfter(typed, k)) = BUFSIZE THEN Long(LineAfter(typed, k))
          ELSE Editing(LineAfter(typed, k), ShownAfter(typed, k))
      <4>1. LET shown1 == KeyTurns[ShownAfter(typed, m)][typed[k]]
                next == readline_step(LineAfter(typed, m), typed[k])
            IN  IF Len(shown1) = BUFSIZE THEN Long(next) /\ shown1 \in Seq(Keys)
                ELSE Editing(next, shown1)
        BY <2>2, <3>1, EditOne, Zenon
      <4> QED BY <2>3, <3>2, <4>1, Zenon
    <3>4. Following(typed, k)
      BY <2>4, <2>6, <2>8, <3>3, Zenon DEF Following
    <3> QED BY <2>1, <3>4, Zenon DEF k
  <2> QED BY <2>1, <2>7, <2>8, Zenon DEF k
<1> HIDE DEF S
<1>3. \A k \in 0..n : k \in S
  BY <1>0, <1>1, <1>2, Counting, Zenon
<1> QED BY <1>3, Zenon DEF S

\* From the first newline on the line is what it was there.
LineTyped(typed, n) == IF TooLong(typed, n) THEN <<>> ELSE ShownAfter(typed, n)
LEMMA Returns ==
  ASSUME NEW typed \in Seq(Keys), NEW n \in 0..(Len(typed) - 1),
         \A j \in 1..n : typed[j] # NL, typed[n + 1] = NL
  PROVE  \A k \in (n + 1)..Len(typed) : Ended(LineAfter(typed, k), LineTyped(typed, n))
<1> DEFINE m == Len(typed) - (n + 1)
           S == {k \in 0..m : Ended(LineAfter(typed, n + 1 + k), LineTyped(typed, n))}
<1>0. n \in Nat /\ Len(typed) \in Nat /\ m \in Nat /\ n \in 0..Len(typed) /\ n + 1 \in 1..Len(typed)
      /\ (n + 1) - 1 = n
  OBVIOUS
<1>1. Ended(LineAfter(typed, n + 1), LineTyped(typed, n))
  <2>1. Following(typed, n)
    <3>1. \A k \in 0..n : Following(typed, k)
      BY <1>0, Follows, Zenon
    <3>2. n \in 0..n
      BY <1>0
    <3> QED BY <3>1, <3>2, Zenon
  <2>2. LineAfter(typed, n) \in Lines
          => LineAfter(typed, n + 1) = readline_step(LineAfter(typed, n), typed[n + 1])
    <3>1. OneKey(typed, n + 1)
      BY <1>0, KeyByKey, Zenon
    <3> QED BY <1>0, <3>1 DEF OneKey
  <2>3. typed[n + 1] \in Keys
    BY <1>0
  <2>4. CASE TooLong(typed, n)
    BY <2>1, <2>2, <2>4, LineStates, EditEnd, Zenon DEF Following, LineTyped
  <2>5. CASE ~TooLong(typed, n)
    BY <2>1, <2>2, <2>3, <2>5, LineStates, EditEnd, Zenon DEF Following, LineTyped
  <2> QED BY <2>4, <2>5, Zenon
<1>2. 0 \in S
  <2>1. n + 1 + 0 = n + 1 /\ 0 \in 0..m
    BY <1>0
  <2> HIDE DEF m
  <2> QED BY <1>1, <2>1, Zenon
<1>3. ASSUME NEW k \in 0..(m - 1), k \in S
      PROVE  k + 1 \in S
  <2> DEFINE p == n + 1 + k
             q == n + 1 + (k + 1)
  <2>1. q \in 1..Len(typed) /\ q - 1 = p /\ k + 1 \in 0..m
    BY <1>0
  <2>2. Ended(LineAfter(typed, p), LineTyped(typed, n))
    BY <1>3
  <2>3. OneKey(typed, q)
    BY <2>1, KeyByKey, Zenon
  <2> HIDE DEF p, q
  <2>4. LineAfter(typed, p) \in Lines => LineAfter(typed, q) = readline_step(LineAfter(typed, p), typed[q])
    BY <2>1, <2>3, Zenon DEF OneKey
  <2>5. Ended(LineAfter(typed, q), LineTyped(typed, n))
    BY <2>2, <2>4, LineStates, EditEnd, Zenon
  <2> QED BY <2>1, <2>5, Zenon DEF q
<1> HIDE DEF S
<1>4. \A k \in 0..m : k \in S
  BY <1>0, <1>2, <1>3, Counting, Zenon
<1>5. ASSUME NEW k \in (n + 1)..Len(typed)
      PROVE  Ended(LineAfter(typed, k), LineTyped(typed, n))
  <2>1. k - (n + 1) \in 0..m /\ n + 1 + (k - (n + 1)) = k
    BY <1>0
  <2> HIDE DEF m
  <2>2. k - (n + 1) \in S
    BY <1>4, <2>1, Zenon
  <2> QED BY <2>1, <2>2, Zenon DEF S
<1> QED BY <1>5

LEMMA LineRead ==
  ASSUME NEW typed \in Seq(Keys)
  PROVE  /\ \A shown : Ended(LineAfter(typed, Len(typed)), shown) => readline(typed) = shown
         /\ \A shown : Editing(LineAfter(typed, Len(typed)), shown) => readline(typed) = <<"exit">>
         /\ Long(LineAfter(typed, Len(typed))) => readline(typed) = <<>>
<1> DEFINE s == LineAfter(typed, Len(typed))
           shows == [i \in 1..s.i |-> s.buf[i - 1]]
<1>d. "read" # "return" /\ "long" # "return" /\ "read" # "long"
  OBVIOUS
<1>1. /\ s.state = "return" => readline(typed) = [i \in 1..s.i |-> s.buf[i - 1]]
      /\ s.state = "long" => readline(typed) = <<>>
      /\ s.state = "read" => readline(typed) = <<"exit">>
  <2>1. s = Through(ReadTurns, EmptyLine, typed)
    BY KeyByKey, Zenon
  <2> HIDE DEF s
  <2>2. readline(typed) = CASE s.state = "return" -> [i \in 1..s.i |-> s.buf[i - 1]]
                            [] s.state = "long" -> <<>>
                            [] s.state = "read" -> <<"exit">>
    BY <2>1, Zenon DEF readline, ReadTurns, EmptyLine
  <2>3. readline(typed) = CASE s.state = "return" -> shows
                            [] s.state = "long" -> <<>>
                            [] s.state = "read" -> <<"exit">>
    BY <2>2, Zenon
  <2> HIDE DEF shows
  <2>4. /\ s.state = "return" => readline(typed) = shows
        /\ s.state = "long" => readline(typed) = <<>>
        /\ s.state = "read" => readline(typed) = <<"exit">>
    BY <1>d, <2>3
  <2> QED BY <2>4 DEF shows
<1> HIDE DEF s, shows
<1>2. ASSUME NEW shown, Ended(s, shown) PROVE readline(typed) = shown
  <2>1. PICK buf \in LineBuf :
          s = LineAt(buf, Len(shown), "return") /\ shown \in Seq(Keys) /\ Shows(buf, shown)
    BY <1>2, Zenon DEF Ended
  <2>2. s.state = "return" /\ s.i = Len(shown) /\ s.buf = buf
    BY <2>1 DEF LineAt
  <2>3. readline(typed) = [i \in 1..Len(shown) |-> buf[i - 1]]
    BY <1>1, <2>2, Zenon
  <2>4. shown = [i \in 1..Len(shown) |-> shown[i]]
    BY <2>1
  <2>5. \A i \in 1..Len(shown) : buf[i - 1] = shown[i]
    BY <2>1, Zenon DEF Shows
  <2> QED BY <2>3, <2>4, <2>5, Zenon
<1>4. ASSUME NEW shown, Editing(s, shown) PROVE readline(typed) = <<"exit">>
  <2>1. PICK buf \in LineBuf : s = LineAt(buf, Len(shown), "read")
    BY <1>4, Zenon DEF Editing
  <2>2. s.state = "read"
    BY <2>1 DEF LineAt
  <2> QED BY <1>1, <2>2, Zenon
<1>5. ASSUME Long(s) PROVE readline(typed) = <<>>
  <2>1. PICK buf \in LineBuf, i \in Nat : s = LineAt(buf, i, "long")
    BY <1>5, Zenon DEF Long
  <2>2. s.state = "long"
    BY <2>1 DEF LineAt
  <2> QED BY <1>1, <2>2, Zenon
<1> QED BY <1>2, <1>4, <1>5, Zenon DEF s

LEMMA EditedIs ==
  ASSUME NEW typed, NEW n
  PROVE  Edited(SubSeq(typed, 1, n)) = ShownAfter(typed, n)
BY Zenon DEF Edited, ShownAfter, KeyTurns

LEMMA ShorterPart ==
  ASSUME NEW X, NEW s \in Seq(X), NEW n \in 0..Len(s), NEW i \in 0..n
  PROVE  Len(SubSeq(s, 1, n)) = n /\ SubSeq(SubSeq(s, 1, n), 1, i) = SubSeq(s, 1, i)
<1> DEFINE t == SubSeq(s, 1, n)
<1>0. n \in Nat /\ i \in Nat /\ Len(s) \in Nat /\ n <= Len(s) /\ i <= n
  OBVIOUS
<1>1. Len(t) = n /\ t \in Seq(X) /\ \A j \in 1..n : t[j] = s[j]
  BY <1>0
<1> HIDE DEF t
<1>2. Len(SubSeq(t, 1, i)) = i /\ Len(SubSeq(s, 1, i)) = i
  BY <1>0, <1>1
<1>3. \A j \in 1..i : SubSeq(t, 1, i)[j] = SubSeq(s, 1, i)[j]
  BY <1>0, <1>1
<1>4. SubSeq(t, 1, i) \in Seq(X) /\ SubSeq(s, 1, i) \in Seq(X)
  BY <1>0, <1>1
<1>5. SubSeq(t, 1, i) = SubSeq(s, 1, i)
  BY <1>2, <1>3, <1>4, SeqEqual
<1> QED BY <1>1, <1>5 DEF t

\* The first newline, of a sequence that has one.
LEMMA FirstIs ==
  ASSUME NEW typed \in Seq(Keys), NL \in ToSet(typed)
  PROVE  FirstNL(typed) \in 1..Len(typed) /\ typed[FirstNL(typed)] = NL
         /\ \A j \in 1..(FirstNL(typed) - 1) : typed[j] # NL
<1> DEFINE P(i) == typed[i] = NL /\ \A j \in 1..(i - 1) : typed[j] # NL
           n == Len(typed)
           S == {k \in 0..n : \A j \in 1..k : typed[j] # NL}
<1>0. n \in Nat /\ DOMAIN typed = 1..n
  OBVIOUS
<1>1. PICK x \in 1..n : typed[x] = NL
  BY <1>0 DEF ToSet
<1>2. \E i \in 1..n : P(i)
  <2> SUFFICES ASSUME \A i \in 1..n : ~P(i) PROVE FALSE
    BY Zenon
  <2>1. 0 \in S
    BY <1>0
  <2>2. ASSUME NEW k \in 0..(n - 1), k \in S
        PROVE  k + 1 \in S
    <3>1. k + 1 \in 1..n /\ (k + 1) - 1 = k /\ k + 1 \in 0..n
      BY <1>0
    <3>2. typed[k + 1] # NL
      BY <2>2, <3>1
    <3> QED BY <2>2, <3>1, <3>2
  <2> HIDE DEF S
  <2>3. \A k \in 0..n : k \in S
    BY <1>0, <2>1, <2>2, Counting, Zenon
  <2>4. n \in S
    BY <1>0, <2>3
  <2> QED BY <1>1, <2>4 DEF S
<1>3. FirstNL(typed) = CHOOSE i \in 1..n : P(i)
  BY DEF FirstNL
<1> HIDE DEF P, n
<1>4. FirstNL(typed) \in 1..n /\ P(FirstNL(typed))
  BY <1>2, <1>3, Zenon
<1> QED BY <1>4, Zenon DEF P, n

LEMMA LineIs ==
  ASSUME NEW typed \in Seq(Keys), NL \in ToSet(typed)
  PROVE  readline(typed) = IF Fills(TypedLine(typed)) THEN <<>> ELSE Edited(TypedLine(typed))
<1> DEFINE n == FirstNL(typed) - 1
           line == SubSeq(typed, 1, n)
           long == Fills(line)
<1>0. line = TypedLine(typed)
  BY Zenon DEF TypedLine
<1>1. n \in 0..(Len(typed) - 1) /\ n \in 0..Len(typed) /\ n + 1 = FirstNL(typed)
      /\ Len(typed) \in (n + 1)..Len(typed)
  BY FirstIs
<1>2. typed[n + 1] = NL /\ \A j \in 1..n : typed[j] # NL
  BY <1>1, FirstIs, Zenon
<1> HIDE DEF n
<1>3. readline(typed) = LineTyped(typed, n)
  BY <1>1, <1>2, Returns, LineRead, Zenon
<1>4. Edited(line) = ShownAfter(typed, n)
  BY EditedIs, Zenon
<1>5. Len(line) = n /\ \A i \in 1..n : Edited(SubSeq(line, 1, i)) = ShownAfter(typed, i)
  <2>1. ASSUME NEW i \in 0..n
        PROVE  Len(line) = n /\ SubSeq(line, 1, i) = SubSeq(typed, 1, i)
    BY <1>1, ShorterPart, Zenon
  <2>2. 0 \in 0..n /\ 1..n \subseteq 0..n
    BY <1>1
  <2> HIDE DEF line
  <2> QED BY <2>1, <2>2, EditedIs, Zenon
<1> HIDE DEF line
<1>6. long <=> TooLong(typed, n)
  BY <1>5, Zenon DEF TooLong, Fills
<1> HIDE DEF long
<1>7. readline(typed) = IF long THEN <<>> ELSE Edited(line)
  BY <1>3, <1>4, <1>6, Zenon DEF LineTyped
<1> QED BY <1>0, <1>7, Zenon DEF long, line, n

\* A line that the end of the input cuts short.
LEMMA NoLine ==
  ASSUME NEW typed \in Seq(Keys), NL \notin ToSet(typed)
  PROVE  readline(typed) = IF Fills(TypedLine(typed)) THEN <<>> ELSE <<"exit">>
<1> DEFINE n == Len(typed)
<1>1. n \in 0..n /\ \A j \in 1..n : typed[j] # NL
  BY DEF ToSet
<1>2. Following(typed, n)
  BY <1>1, Follows, Zenon
<1>3. /\ TooLong(typed, n) => Long(LineAfter(typed, n))
      /\ ~TooLong(typed, n) => Editing(LineAfter(typed, n), ShownAfter(typed, n))
  BY <1>2, Zenon DEF Following
<1>4. Fills(TypedLine(typed)) <=> TooLong(typed, n)
  BY EditedIs, Zenon DEF Fills, TypedLine, TooLong
<1> QED BY <1>3, <1>4, LineRead, Zenon

-----------------------------------------------------------------------------
(* gettoken: the words of a line, character by character *)

Flushed(cur, o) == IF cur = <<>> THEN o ELSE Append(o, cur)
WordTurns ==
  [a \in [cur : Seq(Keys), out : Seq(Seq(Keys))] |->
    [c \in Keys |->
      CASE c \in WHITESPACE -> [cur |-> <<>>, out |-> Flushed(a.cur, a.out)]
        [] c \in SYMBOLS -> [cur |-> <<>>, out |-> Append(Flushed(a.cur, a.out), <<c>>)]
        [] OTHER -> [a EXCEPT !.cur = Append(@, c)]]]
Scanned(cur, o) == [cur |-> cur, out |-> o]
\* The scan has come to position p, the first one not read.
ScanTo(line, p) == Through(WordTurns, Scanned(<<>>, <<>>), SubSeq(line, 1, p - 1))
Scans(line, p, cur, o) == ScanTo(line, p) = Scanned(cur, o)
InWord(c) == c \notin WHITESPACE \union SYMBOLS \union {"NUL"}

LEMMA ScanOne ==
  ASSUME NEW cur \in Seq(Keys), NEW o \in Seq(Seq(Keys)), NEW c \in Keys
  PROVE  /\ c \in WHITESPACE => WordTurns[Scanned(cur, o)][c] = Scanned(<<>>, Flushed(cur, o))
         /\ c \in SYMBOLS => WordTurns[Scanned(cur, o)][c] = Scanned(<<>>, Append(Flushed(cur, o), <<c>>))
         /\ InWord(c) => WordTurns[Scanned(cur, o)][c] = Scanned(Append(cur, c), o)
<1> DEFINE a == Scanned(cur, o)
<1>1. a \in [cur : Seq(Keys), out : Seq(Seq(Keys))] /\ a.cur = cur /\ a.out = o
  BY DEF Scanned
<1>2. [a EXCEPT !.cur = Append(@, c)] = Scanned(Append(cur, c), o)
  <2>1. \A x : [[cur |-> cur, out |-> o] EXCEPT !.cur = x] = [cur |-> x, out |-> o]
    OBVIOUS
  <2>2. [a EXCEPT !.cur = Append(@, c)] = [a EXCEPT !.cur = Append(a.cur, c)]
    BY Zenon
  <2> QED BY <1>1, <2>1, <2>2, Zenon DEF Scanned
<1> HIDE DEF a
<1>3. WordTurns[a][c] =
        CASE c \in WHITESPACE -> [cur |-> <<>>, out |-> Flushed(a.cur, a.out)]
          [] c \in SYMBOLS -> [cur |-> <<>>, out |-> Append(Flushed(a.cur, a.out), <<c>>)]
          [] OTHER -> [a EXCEPT !.cur = Append(@, c)]
  BY <1>1, Zenon DEF WordTurns
<1>4. c \in WHITESPACE => c \notin SYMBOLS
  BY DEF WHITESPACE, SYMBOLS
<1>5. CASE c \in WHITESPACE
  <2>1. WordTurns[a][c] = [cur |-> <<>>, out |-> Flushed(a.cur, a.out)]
    BY <1>3, <1>4, <1>5, Zenon
  <2>2. ~InWord(c)
    BY <1>5 DEF InWord
  <2> QED BY <1>1, <1>4, <1>5, <2>1, <2>2, Zenon DEF Scanned, a
<1>6. CASE c \in SYMBOLS
  <2>1. WordTurns[a][c] = [cur |-> <<>>, out |-> Append(Flushed(a.cur, a.out), <<c>>)]
    BY <1>3, <1>4, <1>6, Zenon
  <2>2. ~InWord(c)
    BY <1>6 DEF InWord
  <2> QED BY <1>1, <1>4, <1>6, <2>1, <2>2, Zenon DEF Scanned, a
<1>7. CASE c \notin WHITESPACE /\ c \notin SYMBOLS
  <2>1. WordTurns[a][c] = [a EXCEPT !.cur = Append(@, c)]
    BY <1>3, <1>7, Zenon
  <2> QED BY <1>2, <1>7, <2>1, Zenon DEF a
<1> QED BY <1>5, <1>6, <1>7, Zenon

LEMMA FlushedType ==
  ASSUME NEW cur \in Seq(Keys), NEW o \in Seq(Seq(Keys))
  PROVE  Flushed(cur, o) \in Seq(Seq(Keys))
BY DEF Flushed

\* The same, of the line.
ScansOn(line, p) ==
  \A cur \in Seq(Keys), o \in Seq(Seq(Keys)) : Scans(line, p, cur, o) =>
    /\ line[p] \in WHITESPACE => Scans(line, p + 1, <<>>, Flushed(cur, o))
    /\ line[p] \in SYMBOLS => Scans(line, p + 1, <<>>, Append(Flushed(cur, o), <<line[p]>>))
    /\ InWord(line[p]) => Scans(line, p + 1, Append(cur, line[p]), o)

LEMMA ScanNext ==
  ASSUME NEW line \in Seq(Keys)
  PROVE  /\ Scans(line, 1, <<>>, <<>>)
         /\ \A p \in 1..Len(line) : ScansOn(line, p)
         /\ Through(WordTurns, Scanned(<<>>, <<>>), line) = ScanTo(line, Len(line) + 1)
<1>1. Stepwise(WordTurns, Scanned(<<>>, <<>>), line)
  BY ThroughNext, Zenon
<1>2. 1 - 1 = 0 /\ (Len(line) + 1) - 1 = Len(line)
  OBVIOUS
<1>3. Scans(line, 1, <<>>, <<>>)
  BY <1>1, <1>2, Zenon DEF Stepwise, Scans, ScanTo
<1>4. Through(WordTurns, Scanned(<<>>, <<>>), line) = ScanTo(line, Len(line) + 1)
  BY <1>1, <1>2, Zenon DEF Stepwise, ScanTo
<1>5. ASSUME NEW p \in 1..Len(line), NEW cur \in Seq(Keys), NEW o \in Seq(Seq(Keys)),
             Scans(line, p, cur, o)
      PROVE  /\ line[p] \in WHITESPACE => Scans(line, p + 1, <<>>, Flushed(cur, o))
             /\ line[p] \in SYMBOLS
                  => Scans(line, p + 1, <<>>, Append(Flushed(cur, o), <<line[p]>>))
             /\ InWord(line[p]) => Scans(line, p + 1, Append(cur, line[p]), o)
  <2>1. line[p] \in Keys /\ (p + 1) - 1 = p
    OBVIOUS
  <2>2. ScanTo(line, p + 1) = WordTurns[ScanTo(line, p)][line[p]]
    BY <1>1, <2>1, Zenon DEF Stepwise, ScanTo
  <2>3. ScanTo(line, p + 1) = WordTurns[Scanned(cur, o)][line[p]]
    BY <1>5, <2>2, Zenon DEF Scans
  <2> QED BY <2>1, <2>3, ScanOne, Zenon DEF Scans
<1> QED BY <1>3, <1>4, <1>5, Zenon DEF ScansOn

\* Over blanks.
LEMMA ScanBlanks ==
  ASSUME NEW line \in Seq(Keys), NEW s \in 1..(Len(line) + 1), NEW p \in s..(Len(line) + 1),
         \A k \in s..(p - 1) : line[k] \in WHITESPACE,
         NEW cur \in Seq(Keys), NEW o \in Seq(Seq(Keys)), Scans(line, s, cur, o)
  PROVE  IF p = s THEN Scans(line, p, cur, o) ELSE Scans(line, p, <<>>, Flushed(cur, o))
<1> DEFINE n == p - s
           S == {k \in 0..n : IF k = 0 THEN Scans(line, s + k, cur, o)
                              ELSE Scans(line, s + k, <<>>, Flushed(cur, o))}
<1>0. n \in Nat /\ s \in Nat /\ p \in Nat /\ Len(line) \in Nat /\ s + n = p
  OBVIOUS
<1>t. Flushed(cur, o) \in Seq(Seq(Keys)) /\ <<>> \in Seq(Keys)
  BY FlushedType
<1>f. Flushed(<<>>, Flushed(cur, o)) = Flushed(cur, o)
  BY DEF Flushed
<1>1. 0 \in S
  <2>1. s + 0 = s /\ 0 \in 0..n
    BY <1>0
  <2> HIDE DEF n
  <2> QED BY <2>1, Zenon
<1>2. ASSUME NEW k \in 0..(n - 1), k \in S
      PROVE  k + 1 \in S
  <2>1. /\ s + k \in 1..Len(line) /\ s + k \in s..(p - 1) /\ (s + k) + 1 = s + (k + 1)
        /\ k + 1 \in 0..n /\ k + 1 # 0
    BY <1>0
  <2>2. line[s + k] \in WHITESPACE /\ ScansOn(line, s + k)
    BY <2>1, ScanNext, Zenon
  <2>3. IF k = 0 THEN Scans(line, s + k, cur, o) ELSE Scans(line, s + k, <<>>, Flushed(cur, o))
    BY <1>2
  <2>4. Scans(line, s + (k + 1), <<>>, Flushed(cur, o))
    BY <1>t, <1>f, <2>1, <2>2, <2>3, Zenon DEF ScansOn
  <2> HIDE DEF n
  <2> QED BY <2>1, <2>4, Zenon
<1> HIDE DEF S
<1>3. \A k \in 0..n : k \in S
  BY <1>0, <1>1, <1>2, Counting, Zenon
<1>4. n \in S
  BY <1>0, <1>3
<1>5. n = 0 <=> p = s
  BY <1>0
<1> HIDE DEF n
<1> QED BY <1>0, <1>4, <1>5, Zenon DEF S

\* Over a word.
LEMMA ScanWord ==
  ASSUME NEW line \in Seq(Keys), NEW p \in 1..(Len(line) + 1), NEW e \in p..(Len(line) + 1),
         \A k \in p..(e - 1) : InWord(line[k]),
         NEW o \in Seq(Seq(Keys)), Scans(line, p, <<>>, o)
  PROVE  Scans(line, e, SubSeq(line, p, e - 1), o)
<1> DEFINE n == e - p
           S == {k \in 0..n : Scans(line, p + k, SubSeq(line, p, (p + k) - 1), o)}
<1>0. n \in Nat /\ p \in Nat /\ e \in Nat /\ Len(line) \in Nat /\ p + n = e
  OBVIOUS
<1>1. 0 \in S
  <2>1. p + 0 = p /\ 0 \in 0..n /\ (p + 0) - 1 < p
    BY <1>0
  <2>2. SubSeq(line, p, (p + 0) - 1) = <<>>
    BY <1>0, <2>1, SubSeqEmpty
  <2> HIDE DEF n
  <2> QED BY <2>1, <2>2, Zenon
<1>2. ASSUME NEW k \in 0..(n - 1), k \in S
      PROVE  k + 1 \in S
  <2> DEFINE q == p + k
             word == SubSeq(line, p, q - 1)
  <2>1. /\ q \in 1..Len(line) /\ q \in p..(e - 1) /\ q + 1 = p + (k + 1) /\ (p + (k + 1)) - 1 = q
        /\ k + 1 \in 0..n /\ p \in 1..Len(line) /\ q \in p..Len(line)
    BY <1>0
  <2>2. InWord(line[q]) /\ ScansOn(line, q)
    BY <2>1, ScanNext, Zenon
  <2>3. Scans(line, q, word, o)
    BY <1>2
  <2>4. word \in Seq(Keys)
    <3>1. \A j \in p..(q - 1) : line[j] \in Keys
      BY <1>0, <2>1
    <3>2. p \in Int /\ q - 1 \in Int
      BY <1>0, <2>1
    <3> QED BY <3>1, <3>2, SubSeqProperties
  <2> HIDE DEF q
  <2>5. SubSeq(line, p, q) = word \o <<line[q]>>
    BY <2>1, SubSeqRecursiveSecond, Zenon
  <2>6. Append(word, line[q]) = SubSeq(line, p, q)
    <3> HIDE DEF word
    <3>1. Append(word, line[q]) = word \o <<line[q]>>
      <4>1. line[q] \in Keys
        BY <2>1
      <4> QED BY <2>4, <4>1, AppendIsConcat
    <3> QED BY <2>5, <3>1
  <2> HIDE DEF word
  <2>7. Scans(line, q + 1, SubSeq(line, p, q), o)
    BY <2>2, <2>3, <2>4, <2>6, Zenon DEF ScansOn
  <2>8. Scans(line, p + (k + 1), SubSeq(line, p, (p + (k + 1)) - 1), o)
    BY <2>1, <2>7, Zenon
  <2> HIDE DEF n
  <2> QED BY <2>1, <2>8, Zenon
<1> HIDE DEF S
<1>3. \A k \in 0..n : k \in S
  BY <1>0, <1>1, <1>2, Counting, Zenon
<1>4. n \in S
  BY <1>0, <1>3
<1> HIDE DEF n
<1> QED BY <1>0, <1>4, Zenon DEF S

-----------------------------------------------------------------------------
(* gettoken: positions in the line *)

Stops == WHITESPACE \union SYMBOLS \union {"NUL"}
AtStop(line, p) == p = Len(line) + 1 \/ line[p] \in Stops

\* The first member of T from i on.
LEMMA FirstOf ==
  ASSUME NEW i \in Nat, NEW m \in Nat, i <= m, NEW T, m \in T
  PROVE  \E j \in i..m : j \in T /\ \A k \in i..(j - 1) : k \notin T
<1> DEFINE S == {j \in i..m : j \in T}
<1>1. S \subseteq Nat /\ S # {}
  OBVIOUS
<1> HIDE DEF S
<1>2. PICK x \in S : \A y \in S : x <= y
  <2>1. \E x \in S : \A y \in S : x <= y
    BY <1>1, Least
  <2> QED BY <2>1
<1>3. x \in i..m /\ x \in T
  BY <1>2 DEF S
<1>4. \A k \in i..(x - 1) : k \notin T
  <2> SUFFICES ASSUME NEW k \in i..(x - 1), k \in T PROVE FALSE
    OBVIOUS
  <2>1. k \in S
    BY <1>3 DEF S
  <2> QED BY <1>2, <1>3, <2>1
<1> QED BY <1>3, <1>4

LEMMA SkipIs ==
  ASSUME NEW buf \in Seq(Keys), NEW i \in 1..(Len(buf) + 1), NEW S
  PROVE  LET p == SkipSet(buf, i, S)
         IN  /\ p \in i..(Len(buf) + 1) /\ (p > Len(buf) \/ buf[p] \notin S)
             /\ \A k \in i..(p - 1) : buf[k] \in S
<1> DEFINE m == Len(buf) + 1
           T == {j \in i..m : j > Len(buf) \/ buf[j] \notin S}
           P(j) == (j > Len(buf) \/ buf[j] \notin S) /\ \A k \in i..(j - 1) : buf[k] \in S
<1>1. i \in Nat /\ m \in Nat /\ i <= m /\ m \in T
  OBVIOUS
<1>2. PICK j \in i..m : j \in T /\ \A k \in i..(j - 1) : k \notin T
  <2> HIDE DEF m, T
  <2> QED BY <1>1, FirstOf
<1>3. P(j)
  <2>1. ASSUME NEW k \in i..(j - 1) PROVE buf[k] \in S
    <3>1. k \in i..m
      OBVIOUS
    <3> QED BY <1>2, <3>1
  <2> QED BY <1>2, <2>1
<1>4. SkipSet(buf, i, S) = CHOOSE x \in i..m : P(x)
  BY DEF SkipSet
<1> HIDE DEF P, m
<1>5. SkipSet(buf, i, S) \in i..m /\ P(SkipSet(buf, i, S))
  BY <1>3, <1>4, Zenon
<1> QED BY <1>5, Zenon DEF P, m

LEMMA WordEndIs ==
  ASSUME NEW buf \in Seq(Keys), NEW i \in 1..(Len(buf) + 1)
  PROVE  LET e == WordEnd(buf, i)
         IN  /\ e \in i..(Len(buf) + 1) /\ AtStop(buf, e)
             /\ \A k \in i..(e - 1) : InWord(buf[k])
<1> DEFINE m == Len(buf) + 1
           T == {j \in i..m : CharAt(buf, j) \in Stops}
           P(j) == CharAt(buf, j) \in Stops /\ \A k \in i..(j - 1) : buf[k] \notin Stops
<1>1. i \in Nat /\ m \in Nat /\ i <= m /\ m \in T /\ Len(buf) \in Nat
  BY DEF CharAt, Stops
<1>2. PICK j \in i..m : j \in T /\ \A k \in i..(j - 1) : k \notin T
  <2> HIDE DEF m, T
  <2> QED BY <1>1, FirstOf
<1>3. P(j)
  <2>1. ASSUME NEW k \in i..(j - 1) PROVE buf[k] \notin Stops
    <3>1. k \in i..m /\ k <= Len(buf)
      BY <1>1
    <3>2. CharAt(buf, k) = buf[k]
      BY <3>1 DEF CharAt
    <3> QED BY <1>2, <3>1, <3>2
  <2> QED BY <1>2, <2>1
<1>4. WordEnd(buf, i) = CHOOSE x \in i..m : P(x)
  BY Zenon DEF WordEnd, Stops
<1> HIDE DEF P
<1>5. WordEnd(buf, i) \in i..m /\ P(WordEnd(buf, i))
  <2> HIDE DEF m
  <2> QED BY <1>3, <1>4, Zenon
<1>6. AtStop(buf, WordEnd(buf, i))
  <2>1. WordEnd(buf, i) = m \/ WordEnd(buf, i) <= Len(buf)
    BY <1>1, <1>5
  <2>2. CharAt(buf, WordEnd(buf, i)) \in Stops
    BY <1>5, Zenon DEF P
  <2> QED BY <2>1, <2>2, Zenon DEF AtStop, CharAt
<1> QED BY <1>5, <1>6, Zenon DEF P, InWord, Stops, m

LEMMA StringIs ==
  ASSUME NEW buf \in Seq(Keys), NEW i \in 1..(Len(buf) + 1), NEW e \in i..(Len(buf) + 1),
         CharAt(buf, e) = "NUL", \A k \in i..(e - 1) : buf[k] # "NUL"
  PROVE  StringAt(buf, i) = SubSeq(buf, i, e - 1)
<1> DEFINE m == Len(buf) + 1
           P(j) == CharAt(buf, j) = "NUL" /\ \A k \in i..(j - 1) : buf[k] # "NUL"
           x == CHOOSE j \in i..m : P(j)
<1>0. Len(buf) \in Nat /\ i \in Nat /\ e \in Nat
  OBVIOUS
<1>1. P(e) /\ e \in i..m
  OBVIOUS
<1>2. StringAt(buf, i) = SubSeq(buf, i, x - 1)
  BY DEF StringAt
<1> HIDE DEF P
<1>3. x \in i..m /\ P(x)
  BY <1>1, Zenon
<1> HIDE DEF x
<1>4. ASSUME NEW a \in i..m, NEW b \in i..m, P(a), P(b), a < b PROVE FALSE
  <2>1. a \in i..(b - 1) /\ a <= Len(buf)
    BY <1>0, <1>4
  <2>2. buf[a] # "NUL"
    BY <1>4, <2>1, Zenon DEF P
  <2>3. CharAt(buf, a) = buf[a]
    BY <2>1 DEF CharAt
  <2>4. CharAt(buf, a) = "NUL"
    BY <1>4, Zenon DEF P
  <2> QED BY <2>2, <2>3, <2>4
<1>5. x = e
  <2>1. ~(x < e) /\ ~(e < x)
    BY <1>1, <1>3, <1>4, Zenon
  <2>2. x \in Int /\ e \in Int
    BY <1>0, <1>3
  <2> QED BY <2>1, <2>2
<1> QED BY <1>2, <1>5

LEMMA SamePart ==
  ASSUME NEW X, NEW a \in Seq(X), NEW b \in Seq(X), Len(a) = Len(b),
         NEW i \in 1..Len(a), NEW j \in i..Len(a), \A k \in i..j : a[k] = b[k]
  PROVE  SubSeq(a, i, j) = SubSeq(b, i, j)
<1>0. i \in Int /\ j \in Int /\ i <= j
  OBVIOUS
<1>1. (\A k \in i..j : a[k] \in X) /\ (\A k \in i..j : b[k] \in X)
  OBVIOUS
<1>2. /\ SubSeq(a, i, j) \in Seq(X) /\ Len(SubSeq(a, i, j)) = j - i + 1
      /\ \A k \in 1..(j - i + 1) : SubSeq(a, i, j)[k] = a[i + k - 1]
  BY <1>0, <1>1, SubSeqProperties
<1>3. /\ SubSeq(b, i, j) \in Seq(X) /\ Len(SubSeq(b, i, j)) = j - i + 1
      /\ \A k \in 1..(j - i + 1) : SubSeq(b, i, j)[k] = b[i + k - 1]
  BY <1>0, <1>1, SubSeqProperties
<1> DEFINE s == SubSeq(a, i, j)
           t == SubSeq(b, i, j)
<1>4. \A k \in 1..(j - i + 1) : i + k - 1 \in i..j
  BY <1>0
<1>5. \A k \in 1..(j - i + 1) : s[k] = t[k]
  BY <1>2, <1>3, <1>4
<1> HIDE DEF s, t
<1>6. s \in Seq(X) /\ t \in Seq(X) /\ Len(s) = j - i + 1 /\ Len(t) = j - i + 1
  BY <1>2, <1>3 DEF s, t
<1>7. Len(s) = Len(t) /\ \A k \in 1..Len(s) : s[k] = t[k]
  BY <1>5, <1>6
<1>8. s = t
  BY <1>6, <1>7, SeqEqual
<1> QED BY <1>8 DEF s, t

WithNULs(t, buf, i, j) ==
  /\ t \in Seq(Keys) /\ Len(t) = Len(buf)
  /\ \A k \in 1..Len(buf) : t[k] = IF k \in i..j THEN "NUL" ELSE buf[k]
LEMMA ClearedIs ==
  ASSUME NEW buf \in Seq(Keys), NEW i, NEW j
  PROVE  WithNULs(Cleared(buf, i, j), buf, i, j)
<1>1. "NUL" \in Keys /\ \A k \in 1..Len(buf) : buf[k] \in Keys
  BY DEF Keys
<1>2. Len(buf) \in Nat
  OBVIOUS
<1> DEFINE b(k) == IF k \in i..j THEN "NUL" ELSE buf[k]
<1>3. \A k \in 1..Len(buf) : b(k) \in Keys
  BY <1>1
<1> HIDE DEF b
<1>4. [k \in 1..Len(buf) |-> b(k)] \in Seq(Keys) /\ Len([k \in 1..Len(buf) |-> b(k)]) = Len(buf)
      /\ \A k \in 1..Len(buf) : [x \in 1..Len(buf) |-> b(x)][k] = b(k)
  BY <1>2, <1>3
<1>5. Cleared(buf, i, j) = [k \in 1..Len(buf) |-> b(k)]
  BY Zenon DEF Cleared, b
<1> QED BY <1>4, <1>5, Zenon DEF b, WithNULs

-----------------------------------------------------------------------------
(* gettoken: a token *)

\* The buffer, from position s on, is still the line.
Uncut(buf, line, s) ==
  buf \in Seq(Keys) /\ Len(buf) = Len(line) /\ \A k \in s..Len(line) : buf[k] = line[k]

\* The token that starts at p.
TokenAt(n, line, p) ==
  \/ p = Len(line) + 1 /\ n.c = "0"
  \/ p <= Len(line) /\ line[p] \in SYMBOLS /\ n.c = line[p] /\ n.p2 = p + 1
  \/ /\ p <= Len(line) /\ InWord(line[p]) /\ n.c = "w" /\ n.p1 = p /\ n.p2 \in (p + 1)..(Len(line) + 1)
     /\ AtStop(line, n.p2) /\ \A k \in p..(n.p2 - 1) : InWord(line[k])
     /\ Uncut(n.buf, line, p)
\* The first token from s on, behind blanks that are cut away.
TokenFrom(n, buf, line, s) ==
  /\ n.buf \in Seq(Keys) /\ Len(n.buf) = Len(line) /\ \A k \in 1..(s - 1) : n.buf[k] = buf[k]
  /\ AtStop(line, s) => CharAt(n.buf, s) = "NUL"
  /\ n.p1 \in Nat /\ n.p2 \in Nat /\ n.c \in {"0", "w"} \union Keys
  /\ n.c # "0" => Uncut(n.buf, line, n.p2)
  /\ \E p \in s..(Len(line) + 1) : (\A k \in s..(p - 1) : line[k] \in WHITESPACE) /\ TokenAt(n, line, p)

Tok(buf, c, p1, p2) == [buf |-> buf, c |-> c, p1 |-> p1, p2 |-> p2]

LEMMA NextTokenIs ==
  ASSUME NEW line \in Seq(Keys), \A k \in 1..Len(line) : line[k] # "NUL",
         NEW s \in 1..(Len(line) + 1), NEW buf, Uncut(buf, line, s)
  PROVE  TokenFrom(next_token(buf, s), buf, line, s)
<1> DEFINE L == Len(line)
           p == SkipSet(buf, s, WHITESPACE)
           blank == Cleared(buf, s, p - 1)
           c == CharAt(blank, p)
           n == next_token(buf, s)
<1>0. L \in Nat /\ s \in Nat /\ s # 0 /\ Len(buf) = L /\ buf \in Seq(Keys) /\ s <= L + 1
  BY DEF Uncut
<1>1. /\ p \in s..(L + 1) /\ (p > L \/ buf[p] \notin WHITESPACE)
      /\ \A k \in s..(p - 1) : buf[k] \in WHITESPACE
  <2>1. s \in 1..(Len(buf) + 1)
    BY <1>0
  <2>2. /\ p \in s..(Len(buf) + 1) /\ (p > Len(buf) \/ buf[p] \notin WHITESPACE)
        /\ \A k \in s..(p - 1) : buf[k] \in WHITESPACE
    BY <1>0, <2>1, SkipIs, Zenon
  <2> HIDE DEF p
  <2> QED BY <1>0, <2>2
<1>2. /\ blank \in Seq(Keys) /\ Len(blank) = L
      /\ \A k \in 1..L : blank[k] = IF k \in s..(p - 1) THEN "NUL" ELSE buf[k]
  <2> HIDE DEF p
  <2>1. /\ blank \in Seq(Keys) /\ Len(blank) = Len(buf)
        /\ \A k \in 1..Len(buf) : blank[k] = IF k \in s..(p - 1) THEN "NUL" ELSE buf[k]
    <3>1. WithNULs(blank, buf, s, p - 1)
      BY <1>0, ClearedIs, Zenon
    <3> QED BY <3>1, Zenon DEF WithNULs
  <2> QED BY <1>0, <2>1
<1>n. n = CASE s = 0 -> [buf |-> buf, c |-> "0", p1 |-> 0, p2 |-> 0]
            [] s # 0 /\ c = "NUL" -> [buf |-> blank, c |-> "0", p1 |-> 0, p2 |-> 0]
            [] s # 0 /\ c \in SYMBOLS -> [buf |-> Cleared(blank, p, p), c |-> c, p1 |-> p, p2 |-> p + 1]
            [] OTHER -> [buf |-> blank, c |-> "w", p1 |-> p, p2 |-> WordEnd(blank, p)]
  BY Zenon DEF next_token
<1>3. c = IF p <= L THEN blank[p] ELSE "NUL"
  BY <1>2 DEF CharAt
<1> HIDE DEF p, blank, c, n
<1>4. \A k \in s..(p - 1) : line[k] \in WHITESPACE
  <2> TAKE k \in s..(p - 1)
  <2>1. k \in s..L
    BY <1>0, <1>1
  <2> QED BY <1>1, <2>1 DEF Uncut, L
<1>5. \A k \in 1..(s - 1) : blank[k] = buf[k]
  BY <1>0, <1>2
<1>6. /\ \A k \in p..L : blank[k] = line[k]
      /\ Uncut(blank, line, p)
  <2>1. ASSUME NEW k \in p..L PROVE blank[k] = line[k]
    <3>1. k \in 1..L /\ k \notin s..(p - 1) /\ k \in s..L
      BY <1>0, <1>1
    <3> QED BY <1>2, <3>1 DEF Uncut, L
  <2> QED BY <1>2, <2>1 DEF Uncut, L
<1>7. CASE p = L + 1
  <2>1. c = "NUL"
    BY <1>0, <1>3, <1>7
  <2>2. n = Tok(blank, "0", 0, 0)
    <3>1. c \notin SYMBOLS
      BY <2>1 DEF SYMBOLS
    <3> QED BY <1>0, <1>n, <2>1, <3>1, Zenon DEF Tok
  <2>3. n.buf = blank /\ n.c = "0" /\ n.p1 = 0 /\ n.p2 = 0
    BY <2>2 DEF Tok
  <2>4. AtStop(line, s) => CharAt(blank, s) = "NUL"
    <3>1. CASE s = L + 1
      BY <1>0, <1>2, <3>1 DEF CharAt
    <3>2. CASE s # L + 1
      <4>1. s \in 1..L /\ s \in s..(p - 1) /\ s <= L
        BY <1>0, <1>7, <3>2
      <4> QED BY <1>2, <4>1 DEF CharAt
    <3> QED BY <3>1, <3>2
  <2>5. TokenAt(n, line, p)
    BY <1>7, <2>3, Zenon DEF TokenAt, L
  <2>6. 0 \in Nat
    OBVIOUS
  <2> QED BY <1>1, <1>2, <1>4, <1>5, <2>3, <2>4, <2>5, <2>6, Zenon DEF TokenFrom, L, n
<1>8. CASE p # L + 1 /\ line[p] \in SYMBOLS
  <2>0. p <= L /\ p \in 1..L /\ p \in p..L /\ p \in Nat /\ p + 1 \in Nat
    BY <1>0, <1>1, <1>8
  <2>1. c = line[p]
    BY <1>3, <1>6, <2>0
  <2> DEFINE cut == Cleared(blank, p, p)
  <2>2. n = Tok(cut, c, p, p + 1)
    <3>1. c # "NUL"
      BY <2>0, <2>1
    <3> HIDE DEF cut
    <3>2. n = [buf |-> cut, c |-> c, p1 |-> p, p2 |-> p + 1]
      BY <1>0, <1>8, <1>n, <2>1, <3>1, Zenon DEF cut
    <3> QED BY <3>2, Zenon DEF Tok
  <2>3. n.buf = cut /\ n.c = c /\ n.p1 = p /\ n.p2 = p + 1
    BY <2>2 DEF Tok
  <2>4. /\ cut \in Seq(Keys) /\ Len(cut) = L
        /\ \A k \in 1..L : cut[k] = IF k \in p..p THEN "NUL" ELSE blank[k]
    <3>1. /\ cut \in Seq(Keys) /\ Len(cut) = Len(blank)
          /\ \A k \in 1..Len(blank) : cut[k] = IF k \in p..p THEN "NUL" ELSE blank[k]
      <4>1. WithNULs(cut, blank, p, p)
        BY <1>2, ClearedIs, Zenon
      <4> QED BY <4>1, Zenon DEF WithNULs
    <3> HIDE DEF cut
    <3> QED BY <1>2, <3>1
  <2> HIDE DEF cut
  <2>5. \A k \in 1..(s - 1) : cut[k] = buf[k]
    BY <1>0, <1>1, <1>5, <2>0, <2>4
  <2>6. AtStop(line, s) => CharAt(cut, s) = "NUL"
    <3>1. s <= L /\ s \in 1..L /\ (s \in p..p \/ s \in s..(p - 1))
      BY <1>0, <1>1, <2>0
    <3>2. cut[s] = "NUL"
      BY <1>2, <2>4, <3>1
    <3> QED BY <2>4, <3>1, <3>2 DEF CharAt
  <2>7. Uncut(cut, line, p + 1)
    <3>1. ASSUME NEW k \in (p + 1)..L PROVE cut[k] = line[k]
      <4>1. k \in p..L /\ k \notin p..p /\ k \in 1..L
        BY <2>0
      <4> QED BY <1>6, <2>4, <4>1
    <3> QED BY <2>4, <3>1 DEF Uncut, L
  <2>8. TokenAt(n, line, p)
    BY <1>8, <2>0, <2>1, <2>3, Zenon DEF TokenAt, L
  <2>9. c \in Keys
    BY <2>0, <2>1
  <2>10. n.c \in {"0", "w"} \union Keys
    BY <2>3, <2>9
  <2>11. Uncut(n.buf, line, n.p2)
    BY <2>3, <2>7, Zenon
  <2> QED BY <1>1, <1>4, <2>0, <2>3, <2>4, <2>5, <2>6, <2>8, <2>10, <2>11, Zenon DEF TokenFrom, L, n
<1>9. CASE p # L + 1 /\ line[p] \notin SYMBOLS
  <2>0. p <= L /\ p \in 1..L /\ p \in p..L /\ p \in Nat /\ p \in s..L /\ p \in 1..(L + 1)
    BY <1>0, <1>1, <1>9
  <2>1. c = line[p] /\ line[p] \notin WHITESPACE /\ line[p] # "NUL"
    <3>1. c = line[p] /\ line[p] # "NUL"
      BY <1>3, <1>6, <2>0
    <3>2. buf[p] = line[p]
      BY <2>0 DEF Uncut
    <3>3. ~(p > L)
      BY <1>0, <2>0
    <3> QED BY <1>1, <3>1, <3>2, <3>3, Zenon
  <2>2. InWord(line[p])
    BY <1>9, <2>1 DEF InWord
  <2> DEFINE e == WordEnd(blank, p)
  <2>3. n = Tok(blank, "w", p, e)
    BY <1>0, <1>9, <1>n, <2>1, Zenon DEF Tok
  <2>4. n.buf = blank /\ n.c = "w" /\ n.p1 = p /\ n.p2 = e
    BY <2>3 DEF Tok
  <2>5. e \in p..(L + 1) /\ AtStop(blank, e) /\ \A k \in p..(e - 1) : InWord(blank[k])
    <3>1. p \in 1..(Len(blank) + 1)
      BY <1>2, <2>0
    <3>2. e \in p..(Len(blank) + 1) /\ AtStop(blank, e) /\ \A k \in p..(e - 1) : InWord(blank[k])
      BY <1>2, <3>1, WordEndIs, Zenon
    <3> HIDE DEF e
    <3> QED BY <1>2, <3>2
  <2> HIDE DEF e
  <2>6. AtStop(line, e)
    <3>1. CASE e = L + 1
      BY <3>1 DEF AtStop
    <3>2. CASE e # L + 1
      <4>1. e \in p..L /\ e # Len(blank) + 1
        BY <1>2, <2>0, <2>5, <3>2
      <4>2. blank[e] \in Stops
        BY <2>5, <4>1, Zenon DEF AtStop
      <4> QED BY <1>6, <4>1, <4>2, Zenon DEF AtStop
    <3> QED BY <3>1, <3>2
  <2>7. \A k \in p..(e - 1) : InWord(line[k])
    <3> TAKE k \in p..(e - 1)
    <3>1. k \in p..L
      BY <2>0, <2>5
    <3> QED BY <1>6, <2>5, <3>1, Zenon
  <2>8. e \in (p + 1)..(L + 1)
    <3>1. e # p
      <4> SUFFICES ASSUME e = p PROVE FALSE
        OBVIOUS
      <4>1. p # L + 1
        BY <2>0
      <4> QED BY <2>2, <2>6, <4>1, Zenon DEF AtStop, InWord, Stops, L
    <3> QED BY <2>0, <2>5, <3>1
  <2>9. AtStop(line, s) => CharAt(blank, s) = "NUL"
    <3> SUFFICES ASSUME AtStop(line, s) PROVE CharAt(blank, s) = "NUL"
      OBVIOUS
    <3>1. s # p
      <4> SUFFICES ASSUME s = p PROVE FALSE
        OBVIOUS
      <4>1. p # L + 1
        BY <2>0
      <4> QED BY <2>2, <4>1, Zenon DEF AtStop, InWord, Stops, L
    <3>2. s \in 1..L /\ s \in s..(p - 1) /\ s <= L
      BY <1>0, <1>1, <2>0, <3>1
    <3> QED BY <1>2, <3>2 DEF CharAt
  <2>10. Uncut(blank, line, e)
    <3>1. ASSUME NEW k \in e..L PROVE blank[k] = line[k]
      <4>1. k \in p..L
        BY <2>0, <2>5
      <4> QED BY <1>6, <4>1
    <3> QED BY <1>2, <3>1 DEF Uncut, L
  <2>11. TokenAt(n, line, p)
    BY <1>6, <2>0, <2>2, <2>4, <2>6, <2>7, <2>8, Zenon DEF TokenAt, L
  <2>12. e \in Nat /\ n.c \in {"0", "w"} \union Keys
    BY <2>0, <2>4, <2>5
  <2>13. n.p1 \in Nat /\ n.p2 \in Nat /\ Uncut(n.buf, line, n.p2)
    BY <2>0, <2>4, <2>10, <2>12, Zenon
  <2> QED BY <1>1, <1>2, <1>4, <1>5, <2>4, <2>9, <2>11, <2>12, <2>13, Zenon DEF TokenFrom, L, n
<1> QED BY <1>7, <1>8, <1>9, Zenon

\* All of the line before s has been read into the words o.
Reads(line, s, o) ==
  \E cur \in Seq(Keys), before \in Seq(Seq(Keys)) :
    Scans(line, s, cur, before) /\ Flushed(cur, before) = o /\ (cur = <<>> \/ AtStop(line, s))

TokState(n, o) == [buf |-> n.buf, nc |-> n.c, np1 |-> n.p1, np2 |-> n.p2, out |-> o]

\* The token that has been read ahead.
PendingWord(line, a) ==
  /\ a.np2 \in 2..(Len(line) + 1) /\ a.np1 \in 1..(a.np2 - 1) /\ Uncut(a.buf, line, a.np1)
  /\ AtStop(line, a.np2) /\ \A k \in a.np1..(a.np2 - 1) : InWord(line[k])
  /\ Scans(line, a.np2, SubSeq(line, a.np1, a.np2 - 1), a.out)
PendingSymbol(line, a) ==
  /\ a.np2 \in 2..(Len(line) + 1) /\ Uncut(a.buf, line, a.np2) /\ a.nc \in Keys
  /\ Scans(line, a.np2, <<>>, Append(a.out, <<a.nc>>))
Pending(line, a) ==
  \/ a.nc = "0" /\ WordsOf(line) = a.out
  \/ a.nc = "w" /\ PendingWord(line, a)
  \/ a.nc \notin {"0", "w"} /\ PendingSymbol(line, a)

LEMMA WordsOfIs ==
  ASSUME NEW line \in Seq(Keys), NEW o, Reads(line, Len(line) + 1, o)
  PROVE  WordsOf(line) = o
<1>1. PICK cur \in Seq(Keys), before \in Seq(Seq(Keys)) :
        Scans(line, Len(line) + 1, cur, before) /\ Flushed(cur, before) = o
  BY Zenon DEF Reads
<1>2. Through(WordTurns, Scanned(<<>>, <<>>), line) = Scanned(cur, before)
  BY <1>1, ScanNext, Zenon DEF Scans
<1> DEFINE end == Through(WordTurns, Scanned(<<>>, <<>>), line)
<1>3. WordsOf(line) = Flushed(end.cur, end.out)
  BY Zenon DEF WordsOf, WordTurns, Scanned, Flushed
<1>4. Scanned(cur, before).cur = cur /\ Scanned(cur, before).out = before
  BY DEF Scanned
<1> HIDE DEF end
<1>5. end = Scanned(cur, before)
  BY <1>2 DEF end
<1> QED BY <1>1, <1>3, <1>4, <1>5, Zenon

\* The next token comes behind what has been read.
LEMMA Carry ==
  ASSUME NEW line \in Seq(Keys), NEW s \in 1..(Len(line) + 1), NEW o \in Seq(Seq(Keys)),
         Reads(line, s, o), NEW n, NEW buf, TokenFrom(n, buf, line, s)
  PROVE  /\ TokState(n, o) \in Tokenizing /\ Pending(line, TokState(n, o))
         /\ n.c = "0" \/ n.p2 > s
<1> DEFINE L == Len(line)
           a == TokState(n, o)
<1>0. L \in Nat /\ s \in Nat
  OBVIOUS
<1>1. a.buf = n.buf /\ a.nc = n.c /\ a.np1 = n.p1 /\ a.np2 = n.p2 /\ a.out = o
  BY DEF TokState
<1>2. a \in Tokenizing
  <2>1. n.buf \in Seq(Keys) /\ n.p1 \in Nat /\ n.p2 \in Nat /\ n.c \in {"0", "w"} \union Keys
    BY Zenon DEF TokenFrom
  <2> QED BY <2>1 DEF Tokenizing, TokState
<1> HIDE DEF a
<1>3. PICK p \in s..(L + 1) : (\A k \in s..(p - 1) : line[k] \in WHITESPACE) /\ TokenAt(n, line, p)
  BY Zenon DEF TokenFrom
<1>4. n.c # "0" => Uncut(n.buf, line, n.p2)
  BY Zenon DEF TokenFrom
<1>5. PICK cur \in Seq(Keys), before \in Seq(Seq(Keys)) :
        Scans(line, s, cur, before) /\ Flushed(cur, before) = o /\ (cur = <<>> \/ AtStop(line, s))
  BY Zenon DEF Reads
<1>6. IF p = s THEN Scans(line, p, cur, before) ELSE Scans(line, p, <<>>, o)
  BY <1>3, <1>5, ScanBlanks, Zenon
<1>7. <<>> \in Seq(Keys) /\ Flushed(<<>>, o) = o
  BY DEF Flushed
<1>8. PICK cur1 \in Seq(Keys), before1 \in Seq(Seq(Keys)) :
        Scans(line, p, cur1, before1) /\ Flushed(cur1, before1) = o /\ (cur1 = <<>> \/ AtStop(line, p))
  <2>1. CASE p = s
    BY <1>5, <1>6, <2>1, Zenon
  <2>2. CASE p # s
    BY <1>6, <1>7, <2>2, Zenon
  <2> QED BY <2>1, <2>2, Zenon
<1>9. p \in Nat /\ s <= p /\ p <= L + 1
  BY <1>0
<1>10. CASE p = L + 1 /\ n.c = "0"
  <2>1. WordsOf(line) = o
    <3>1. Reads(line, L + 1, o)
      BY <1>8, <1>10, Zenon DEF Reads
    <3> QED BY <3>1, WordsOfIs, Zenon
  <2> QED BY <1>1, <1>2, <1>10, <2>1, Zenon DEF Pending, a
<1>11. CASE p <= L /\ line[p] \in SYMBOLS /\ n.c = line[p] /\ n.p2 = p + 1
  <2>1. p \in 1..L /\ line[p] \in Keys /\ n.p2 \in 2..(L + 1) /\ n.p2 > s
    BY <1>0, <1>9, <1>11
  <2>2. n.c \notin {"0", "w"}
    BY <1>11 DEF SYMBOLS
  <2>3. ScansOn(line, p)
    BY <2>1, ScanNext, Zenon
  <2>4. Scans(line, p + 1, <<>>, Append(Flushed(cur1, before1), <<line[p]>>))
    BY <1>8, <1>11, <2>3, Zenon DEF ScansOn
  <2>5. Scans(line, n.p2, <<>>, Append(o, <<n.c>>))
    BY <1>8, <1>11, <2>4, Zenon
  <2>6. PendingSymbol(line, a)
    <3>1. n.c \in Keys /\ Uncut(n.buf, line, n.p2)
      BY <1>4, <1>11, <2>1, <2>2, Zenon
    <3> QED BY <1>1, <2>1, <2>5, <3>1, Zenon DEF PendingSymbol, L
  <2> QED BY <1>1, <1>2, <2>1, <2>2, <2>6, Zenon DEF Pending, a
<1>12. CASE /\ p <= L /\ InWord(line[p]) /\ n.c = "w" /\ n.p1 = p /\ n.p2 \in (p + 1)..(L + 1)
            /\ AtStop(line, n.p2) /\ \A k \in p..(n.p2 - 1) : InWord(line[k])
            /\ Uncut(n.buf, line, p)
  <2>1. /\ p \in 1..L /\ n.p2 \in 2..(L + 1) /\ n.p2 > s /\ p \in 1..(n.p2 - 1) /\ p # L + 1
        /\ p \in 1..(L + 1) /\ n.p2 \in p..(L + 1)
    BY <1>0, <1>9, <1>12
  <2>2. ~AtStop(line, p)
    BY <1>12, <2>1, Zenon DEF AtStop, InWord, Stops
  <2>3. cur1 = <<>> /\ before1 = o
    BY <1>8, <2>2, Zenon DEF Flushed
  <2>4. Scans(line, p, <<>>, o)
    BY <1>8, <2>3, Zenon
  <2>5. Scans(line, n.p2, SubSeq(line, p, n.p2 - 1), o)
    BY <1>12, <2>1, <2>4, ScanWord, Zenon
  <2>6. PendingWord(line, a)
    BY <1>1, <1>12, <2>1, <2>5, Zenon DEF PendingWord, L
  <2> QED BY <1>1, <1>2, <1>12, <2>1, <2>6, Zenon DEF Pending, a
<1> QED BY <1>3, <1>10, <1>11, <1>12, Zenon DEF TokenAt

GetTurn(a) ==
  LET n == next_token(a.buf, a.np2)
  IN  [buf |-> n.buf, nc |-> n.c, np1 |-> n.p1, np2 |-> n.p2,
       out |-> Append(a.out, IF a.nc = "w" THEN StringAt(n.buf, a.np1) ELSE <<a.nc>>)]

LEMMA WordReady ==
  ASSUME NEW line \in Seq(Keys), \A k \in 1..Len(line) : line[k] # "NUL",
         NEW a \in Tokenizing, PendingWord(line, a),
         NEW n, TokenFrom(n, a.buf, line, a.np2)
  PROVE  StringAt(n.buf, a.np1) = SubSeq(line, a.np1, a.np2 - 1)
<1> DEFINE L == Len(line)
           i == a.np1
           e == a.np2
           b == n.buf
           buf == a.buf
<1>1. /\ L \in Nat /\ e \in 2..(L + 1) /\ i \in 1..(e - 1) /\ i \in 1..(L + 1) /\ e \in i..(L + 1)
      /\ i \in 1..L /\ e - 1 \in i..L
  BY DEF PendingWord
<1>2. /\ \A k \in i..L : buf[k] = line[k]
      /\ AtStop(line, e)
  BY Zenon DEF PendingWord, Uncut
<1>3. /\ b \in Seq(Keys) /\ Len(b) = L /\ \A k \in 1..(e - 1) : b[k] = buf[k]
      /\ CharAt(b, e) = "NUL"
  BY <1>2, Zenon DEF TokenFrom
<1> HIDE DEF i, e, b, buf
<1>4. \A k \in i..(e - 1) : b[k] = line[k] /\ line[k] # "NUL"
  <2> TAKE k \in i..(e - 1)
  <2>1. k \in 1..(e - 1) /\ k \in i..L /\ k \in 1..L
    BY <1>1
  <2> QED BY <1>2, <1>3, <2>1 DEF L
<1>5. StringAt(b, i) = SubSeq(b, i, e - 1)
  <2>1. i \in 1..(Len(b) + 1) /\ e \in i..(Len(b) + 1)
    BY <1>1, <1>3
  <2>2. \A k \in i..(e - 1) : b[k] # "NUL"
    BY <1>4
  <2> QED BY <1>3, <2>1, <2>2, StringIs
<1>6. SubSeq(b, i, e - 1) = SubSeq(line, i, e - 1)
  <2>1. Len(b) = Len(line) /\ i \in 1..Len(b) /\ e - 1 \in i..Len(b)
    BY <1>1, <1>3
  <2>2. \A k \in i..(e - 1) : b[k] = line[k]
    BY <1>4
  <2> QED BY <1>3, <2>1, <2>2, SamePart
<1> QED BY <1>5, <1>6 DEF i, e, b

\* A turn that has a token to return.
LEMMA GetOne ==
  ASSUME NEW line \in Seq(Keys), \A k \in 1..Len(line) : line[k] # "NUL",
         NEW a \in Tokenizing, Pending(line, a), a.nc # "0"
  PROVE  /\ GetTurn(a) \in Tokenizing /\ Pending(line, GetTurn(a))
         /\ GetTurn(a).nc = "0" \/ GetTurn(a).np2 > a.np2
<1> DEFINE n == next_token(a.buf, a.np2)
           word == SubSeq(line, a.np1, a.np2 - 1)
           token == IF a.nc = "w" THEN word ELSE <<a.nc>>
           o == Append(a.out, token)
<1>1. a.out \in Seq(Seq(Keys))
  BY DEF Tokenizing
<1>2. \/ a.nc = "w" /\ PendingWord(line, a)
      \/ a.nc # "w" /\ PendingSymbol(line, a)
  BY Zenon DEF Pending
<1>3. a.np2 \in 1..(Len(line) + 1) /\ Uncut(a.buf, line, a.np2)
  <2>1. CASE PendingWord(line, a)
    <3>1. a.np2 \in 2..(Len(line) + 1) /\ a.np1 \in 1..(a.np2 - 1) /\ Uncut(a.buf, line, a.np1)
      BY <2>1 DEF PendingWord
    <3>2. a.np2..Len(line) \subseteq a.np1..Len(line)
      BY <3>1
    <3>3. Uncut(a.buf, line, a.np2)
      BY <3>1, <3>2, Zenon DEF Uncut
    <3> QED BY <3>1, <3>3
  <2>2. CASE PendingSymbol(line, a)
    BY <2>2 DEF PendingSymbol
  <2> QED BY <1>2, <2>1, <2>2
<1>4. TokenFrom(n, a.buf, line, a.np2)
  BY <1>3, NextTokenIs, Zenon
<1>5. Reads(line, a.np2, o) /\ token \in Seq(Keys)
  <2>1. CASE a.nc = "w" /\ PendingWord(line, a)
    <3>1. Scans(line, a.np2, word, a.out) /\ AtStop(line, a.np2)
      BY <2>1, Zenon DEF PendingWord
    <3>2. a.np1 \in 1..Len(line) /\ a.np2 - 1 \in a.np1..Len(line)
      BY <2>1 DEF PendingWord
    <3>3. word \in Seq(Keys) /\ word # <<>>
      <4>1. \A j \in a.np1..(a.np2 - 1) : line[j] \in Keys
        BY <3>2
      <4>2. a.np1 \in Int /\ a.np2 - 1 \in Int /\ a.np1 <= a.np2 - 1
        BY <3>2
      <4>3. word \in Seq(Keys) /\ Len(word) = (a.np2 - 1) - a.np1 + 1
        BY <4>1, <4>2, SubSeqProperties
      <4>4. Len(word) # 0
        BY <4>2, <4>3
      <4>5. word # <<>>
        <5> HIDE DEF word
        <5> QED BY <4>4
      <4> QED BY <4>3, <4>5
    <3>4. token = word
      BY <2>1
    <3> HIDE DEF word, token
    <3>5. Flushed(word, a.out) = o
      BY <3>3, <3>4, Zenon DEF Flushed
    <3> QED BY <1>1, <3>1, <3>3, <3>4, <3>5, Zenon DEF Reads
  <2>2. CASE a.nc # "w" /\ PendingSymbol(line, a)
    <3>1. Scans(line, a.np2, <<>>, Append(a.out, <<a.nc>>)) /\ a.nc \in Keys
      BY <2>2, Zenon DEF PendingSymbol
    <3>2. token = <<a.nc>>
      BY <2>2
    <3>3. <<a.nc>> \in Seq(Keys) /\ <<>> \in Seq(Keys)
      BY <3>1
    <3> HIDE DEF token
    <3>4. o \in Seq(Seq(Keys)) /\ Flushed(<<>>, o) = o
      BY <1>1, <3>2, <3>3 DEF Flushed
    <3> QED BY <3>1, <3>2, <3>3, <3>4, Zenon DEF Reads
  <2> QED BY <1>2, <2>1, <2>2
<1>6. o \in Seq(Seq(Keys))
  <2> HIDE DEF token
  <2> QED BY <1>1, <1>5
<1>7. GetTurn(a) = TokState(n, o)
  <2>1. token = IF a.nc = "w" THEN StringAt(n.buf, a.np1) ELSE <<a.nc>>
    <3>1. CASE a.nc = "w"
      <4>1. StringAt(n.buf, a.np1) = word
        BY <1>2, <1>4, <3>1, WordReady
      <4> QED BY <3>1, <4>1
    <3>2. CASE a.nc # "w"
      BY <3>2
    <3> QED BY <3>1, <3>2
  <2> HIDE DEF token
  <2> QED BY <2>1, Zenon DEF GetTurn, TokState
<1> HIDE DEF n, o
<1>8. /\ TokState(n, o) \in Tokenizing /\ Pending(line, TokState(n, o))
      /\ n.c = "0" \/ n.p2 > a.np2
  BY <1>3, <1>4, <1>5, <1>6, Carry, Zenon
<1>9. TokState(n, o).nc = n.c /\ TokState(n, o).np2 = n.p2
  BY DEF TokState
<1> QED BY <1>7, <1>8, <1>9, Zenon

LEMMA TokensAll ==
  ASSUME NEW line \in Seq(Keys), \A k \in 1..Len(line) : line[k] # "NUL"
  PROVE  gettokens(line) = WordsOf(line)
<1> DEFINE L == Len(line)
           first == next_token(line, 1)
           start == TokState(first, <<>>)
           get == [a \in Tokenizing |-> IF a.nc = "0" THEN a ELSE GetTurn(a)]
           J == [i \in 0..(L + 1) |->
                  {a \in Tokenizing : Pending(line, a) /\ (a.nc = "0" \/ a.np2 > i + 1)}]
           end == Iterate(get, start, L + 1)
<1>0. L \in Nat /\ 1 \in 1..(L + 1) /\ L + 1 \in Nat
  OBVIOUS
<1>1. gettokens(line) = end.out
  BY Zenon DEF gettokens, GetTurn, TokState
<1>2. start \in J[0]
  <2>1. Uncut(line, line, 1)
    BY DEF Uncut
  <2>2. TokenFrom(first, line, line, 1)
    BY <1>0, <2>1, NextTokenIs, Zenon
  <2>3. Reads(line, 1, <<>>)
    <3>1. Scans(line, 1, <<>>, <<>>)
      BY ScanNext, Zenon
    <3>2. <<>> \in Seq(Keys) /\ <<>> \in Seq(Seq(Keys)) /\ Flushed(<<>>, <<>>) = <<>>
      BY DEF Flushed
    <3> QED BY <3>1, <3>2, Zenon DEF Reads
  <2>4. <<>> \in Seq(Seq(Keys))
    OBVIOUS
  <2> HIDE DEF first
  <2>5. start \in Tokenizing /\ Pending(line, start) /\ (first.c = "0" \/ first.p2 > 1)
    BY <1>0, <2>2, <2>3, <2>4, Carry, Zenon
  <2>6. start.nc = first.c /\ start.np2 = first.p2
    BY DEF TokState
  <2> HIDE DEF start
  <2>7. start.nc = "0" \/ start.np2 > 0 + 1
    BY <2>5, <2>6
  <2> QED BY <1>0, <2>5, <2>7
<1>3. ASSUME NEW i \in 0..((L + 1) - 1), NEW a \in J[i]
      PROVE  get[a] \in J[i + 1]
  <2>1. i \in 0..(L + 1) /\ i + 1 \in 0..(L + 1)
    BY <1>0
  <2>2. a \in Tokenizing /\ Pending(line, a) /\ (a.nc = "0" \/ a.np2 > i + 1)
    BY <1>3, <2>1
  <2>3. get[a] = IF a.nc = "0" THEN a ELSE GetTurn(a)
    BY <2>2, Zenon
  <2> HIDE DEF get, J
  <2>4. ASSUME NEW b \in Tokenizing, Pending(line, b), b.nc = "0" \/ b.np2 > (i + 1) + 1
        PROVE  b \in J[i + 1]
    BY <2>1, <2>4 DEF J
  <2>5. CASE a.nc = "0"
    <3>1. get[a] = a
      BY <2>3, <2>5, Zenon
    <3> QED BY <2>2, <2>4, <2>5, <3>1, Zenon
  <2>6. CASE a.nc # "0"
    <3> DEFINE b == GetTurn(a)
    <3>1. b \in Tokenizing /\ Pending(line, b) /\ (b.nc = "0" \/ b.np2 > a.np2)
      BY <2>2, <2>6, GetOne, Zenon
    <3>2. get[a] = b
      BY <2>3, <2>6, Zenon
    <3> HIDE DEF b
    <3>3. b.np2 \in Nat /\ a.np2 \in Nat
      BY <2>2, <3>1 DEF Tokenizing
    <3>4. b.nc = "0" \/ b.np2 > (i + 1) + 1
      BY <2>1, <2>2, <2>6, <3>1, <3>3
    <3> QED BY <2>4, <3>1, <3>2, <3>4, Zenon
  <2> QED BY <2>5, <2>6
<1>4. end \in J[L + 1]
  <2> HIDE DEF get, start, J
  <2>1. \A i \in 0..((L + 1) - 1) : \A a \in J[i] : get[a] \in J[i + 1]
    BY <1>3, Zenon
  <2> QED BY <1>0, <1>2, <2>1, IterateInv, Zenon
<1> HIDE DEF end
<1>5. end \in Tokenizing /\ Pending(line, end) /\ (end.nc = "0" \/ end.np2 > (L + 1) + 1)
  <2>1. L + 1 \in 0..(L + 1)
    BY <1>0
  <2> QED BY <1>4, <2>1
<1>6. end.nc = "0"
  <2> SUFFICES ASSUME end.nc # "0" PROVE FALSE
    OBVIOUS
  <2>1. end.np2 \in 2..(L + 1)
    <3>1. PendingWord(line, end) \/ PendingSymbol(line, end)
      BY <1>5, Zenon DEF Pending
    <3> QED BY <3>1, Zenon DEF PendingWord, PendingSymbol
  <2> QED BY <1>0, <1>5, <2>1
<1>7. WordsOf(line) = end.out
  BY <1>5, <1>6 DEF Pending
<1> QED BY <1>1, <1>7

-----------------------------------------------------------------------------
(* What the calls of Library return. *)

\* A call is made once, with its own name.
LEMMA CallCases ==
  ASSUME Next
  PROVE  /\ op' = "range" => Ranges
         /\ op' = "memcpy" => Memcpy
         /\ op' = "memset" => Memset
         /\ op' = "load_segments" => LoadSegments
         /\ op' = "headers" => Headers
         /\ op' = "init_stack" => InitStack
         /\ op' = "debugf" => Debugf
         /\ op' = "readline" => Readline
         /\ op' = "gettoken" => Tokens
BY DEF Next, PrintNum, Printf, Debugf, Memcpy, Memset, Readline, Tokens, Ranges, LoadSegments,
       Headers, InitStack, Call

LEMMA RangesStep ==
  ASSUME Ranges
  PROVE  RangesSafe'
<1>1. PICK va \in 0..(AddrSize - 1), pa \in 0..(AddrSize - 1), len \in 0..(AddrSize - 1) :
        in' = <<va, pa, len>> /\ out' = <<sys_dev(va, pa, len), sys_print_cons(va, len)>>
  BY DEF Ranges, Call
<1>2. in'[1] = va /\ in'[2] = pa /\ in'[3] = len
  BY <1>1
<1>3. out'[1] = sys_dev(va, pa, len) /\ out'[2] = sys_print_cons(va, len)
  BY <1>1
<1> QED BY <1>2, <1>3, RangeCases DEF RangesSafe

LEMMA BytesStep ==
  /\ Memcpy => BytesExact'
  /\ Memset => BytesExact'
<1> DEFINE D == 0..(MemSize - 1)
<1>0. MemSize \in Nat /\ Memory \in [D -> Int] /\ DOMAIN Memory = D /\ \A a \in D : Memory[a] = a
  BY LibraryAssumption DEF Memory
<1>1. ASSUME Memcpy
      PROVE  BytesExact'
  <2>1. PICK dst \in D, src \in D, n \in D :
          /\ dst + n <= MemSize /\ src + n <= MemSize /\ (dst + n <= src \/ src + n <= dst)
          /\ op' = "memcpy" /\ in' = <<dst, src, n>> /\ out' = memcpy(Memory, dst, src, n)
    BY <1>1 DEF Memcpy, Call
  <2>2. Regions(Memory, dst, src, n)
    <3>1. dst \in Nat /\ src \in Nat /\ n \in Nat
      BY LibraryAssumption
    <3> QED BY <1>0, <2>1, <3>1 DEF Regions
  <2>3. out'.ok = TRUE /\ out'.mem = Copied(Memory, dst, src, n)
    BY <2>1, <2>2, MemcpyCopies DEF CopyAt
  <2>4. in'[1] = dst /\ in'[2] = src /\ in'[3] = n
    BY <2>1
  <2>5. \A a \in D : a \in dst..(dst + n - 1) => Memory[src + (a - dst)] = src + (a - dst)
    BY <1>0, <2>1, LibraryAssumption
  <2>6. Copied(Memory, dst, src, n)
          = [a \in DOMAIN Memory |-> IF a \in dst..(dst + n - 1) THEN src + (a - dst) ELSE a]
    BY <1>0, <2>5 DEF Copied
  <2> QED BY <2>1, <2>3, <2>4, <2>6 DEF BytesExact
<1>2. ASSUME Memset
      PROVE  BytesExact'
  <2>1. PICK dst \in D, n \in D :
          /\ dst + n <= MemSize
          /\ op' = "memset" /\ in' = <<dst, n>> /\ out' = memset(Memory, dst, -1, n)
    BY <1>2 DEF Memset, Call
  <2>2. Region(Memory, dst, -1, n)
    <3>1. dst \in Nat /\ n \in Nat /\ -1 \in Int
      BY LibraryAssumption
    <3> QED BY <1>0, <2>1, <3>1, LibraryAssumption DEF Region
  <2>3. out'.ok = TRUE /\ out'.mem = Filled(Memory, dst, -1, n)
    BY <2>1, <2>2, MemsetFills DEF FillAt
  <2>4. in'[1] = dst /\ in'[2] = n
    BY <2>1
  <2>5. Filled(Memory, dst, -1, n)
          = [a \in DOMAIN Memory |-> IF a \in dst..(dst + n - 1) THEN -1 ELSE a]
    BY <1>0 DEF Filled
  <2> QED BY <2>1, <2>3, <2>4, <2>5 DEF BytesExact
<1> QED BY <1>1, <1>2

LEMMA SegmentsStep ==
  ASSUME LoadSegments
  PROVE  SegmentsExact'
<1>1. PICK phs \in Programs : in' = phs /\ out' = load_segments(phs)
  BY DEF LoadSegments, Call
<1>2. /\ phs \in Seq(Phdrs)
      /\ \A k \in 1..Len(phs) : phs[k].p_filesz <= phs[k].p_memsz
  BY LibraryAssumption
<1>3. PageAligned(phs) => LoadedSegments(phs, Len(phs), load_segments(phs))
  BY <1>2, ProgramAll, Zenon
<1> QED BY <1>1, <1>3, Zenon DEF SegmentsExact, LoadedSegments

LEMMA HeadersStep ==
  ASSUME Headers
  PROVE  HeadersRead'
<1> DEFINE elf(phnum) == [f \in Fields |-> CASE f = E_PHOFF -> SIZEOF_EHDR
                                               [] f = E_PHENTSIZE -> SIZEOF_PHDR
                                               [] f = E_PHNUM -> phnum]
<1>1. PICK phnum \in PhNums, junk \in Junk :
        in' = <<phnum>> /\ out' = phdr_offsets(elf(phnum), junk)
  BY Zenon DEF Headers, Call
<1> DEFINE ehdr == elf(phnum)
<1>2. phnum \in Nat /\ junk \in Nat
  BY LibraryAssumption
<1>3. ehdr = [f \in Fields |-> IF f = E_PHOFF THEN SIZEOF_EHDR
                               ELSE IF f = E_PHENTSIZE THEN SIZEOF_PHDR ELSE phnum]
  BY DEF Fields, E_PHOFF, E_PHENTSIZE, E_PHNUM
<1> HIDE DEF ehdr
<1>4. Elf(ehdr, phnum) /\ ehdr[E_PHOFF] = SIZEOF_EHDR
  BY <1>2, <1>3 DEF Elf, Fields, E_PHOFF, E_PHENTSIZE, E_PHNUM, SIZEOF_EHDR, SIZEOF_PHDR
<1>5. phdr_offsets(ehdr, junk) = [j \in 1..phnum |-> HeaderOff(j)]
  BY <1>2, <1>4, HeadersAll, Zenon
<1>6. in'[1] = phnum /\ out' = [j \in 1..phnum |-> HeaderOff(j)]
  <2>1. out' = phdr_offsets(ehdr, junk)
    BY <1>1, Zenon DEF ehdr
  <2>2. in'[1] = phnum
    BY <1>1
  <2> QED BY <1>5, <2>1, <2>2
<1> QED BY <1>6, Zenon DEF HeadersRead, HeaderOff

LEMMA StackStep ==
  ASSUME InitStack
  PROVE  StackExact'
<1>1. PICK argc \in 0..MaxArgc : \E lens \in [1..argc -> 0..MaxStr] :
        in' = lens /\ out' = init_stack(lens)
  BY DEF InitStack, Call
<1>2. PICK lens \in [1..argc -> 0..MaxStr] : in' = lens /\ out' = init_stack(lens)
  BY <1>1
<1>3. Lengths(lens, argc)
  BY LibraryAssumption DEF Lengths
<1> QED BY <1>2, <1>3, StackRight, Zenon DEF StackExact

LEMMA DebugfStep ==
  ASSUME Debugf
  PROVE  OutputKept'
<1>1. PICK a \in 0..MaxChunk, b \in 0..MaxChunk, c \in 0..MaxChunk :
        LET chunks == <<Chunk(1, a), Chunk(2, b), Chunk(3, c)>>
        IN  Call("debugf", chunks, vdebugf(chunks).cons)
  BY DEF Debugf
<1>2. \A k \in Nat, n \in 0..MaxChunk : Chunk(k, n) \in Seq(Characters)
  BY LibraryAssumption DEF Chunk, Characters
<1> DEFINE s1 == Chunk(1, a)
           s2 == Chunk(2, b)
           s3 == Chunk(3, c)
<1>3. s1 \in Seq(Characters) /\ s2 \in Seq(Characters) /\ s3 \in Seq(Characters)
  BY <1>2
<1>4. in' = <<s1, s2, s3>> /\ out' = vdebugf(<<s1, s2, s3>>).cons
  BY <1>1 DEF Call
<1> HIDE DEF s1, s2, s3
<1>5. out' = (s1 \o s2) \o s3
  BY <1>3, <1>4, DebugfKeeps, Zenon
<1>6. in'[1] = s1 /\ in'[2] = s2 /\ in'[3] = s3
  BY <1>4
<1> QED BY <1>5, <1>6, Zenon DEF OutputKept

LEMMA ReadlineStep ==
  ASSUME Readline
  PROVE  LineExact'
<1>1. PICK typed \in Typed : in' = typed /\ out' = readline(typed)
  BY DEF Readline, Call
<1>2. typed \in Seq(Keys)
  BY LibraryAssumption
<1>3. CASE NL \notin ToSet(typed)
  <2>1. out' = IF Fills(TypedLine(typed)) THEN <<>> ELSE <<"exit">>
    BY <1>1, <1>2, <1>3, NoLine, Zenon
  <2> QED BY <1>1, <1>3, <2>1, Zenon DEF LineExact
<1>4. CASE NL \in ToSet(typed)
  BY <1>1, <1>2, <1>4, LineIs, Zenon DEF LineExact
<1> QED BY <1>3, <1>4

LEMMA TokensStep ==
  ASSUME Tokens
  PROVE  TokensExact'
<1>1. PICK line \in CmdLines : in' = line /\ out' = gettokens(line)
  BY DEF Tokens, Call
<1>2. line \in Seq(Keys) /\ NUL \notin ToSet(line)
  BY LibraryAssumption
<1>3. \A k \in 1..Len(line) : line[k] # "NUL"
  BY <1>2 DEF ToSet, NUL
<1>4. gettokens(line) = WordsOf(line)
  BY <1>2, <1>3, TokensAll, Zenon
<1> QED BY <1>1, <1>4, Zenon DEF TokensExact

\* sys_write_dev, sys_read_dev and sys_print_cons accept exactly the ranges that lie in the
\* user's memory and in one device, for every size of addresses: no sum that wraps around
\* gets through.
THEOREM RangesSafeThm == Spec => []RangesSafe
<1>1. Init => RangesSafe
  BY DEF Init, RangesSafe
<1>2. RangesSafe /\ [Next]_vars => RangesSafe'
  <2>1. CASE Next
    <3>1. CASE op' = "range"
      BY <2>1, <3>1, CallCases, RangesStep
    <3>2. CASE op' # "range"
      BY <3>2 DEF RangesSafe
    <3> QED BY <3>1, <3>2
  <2>2. CASE UNCHANGED vars
    BY <2>2 DEF RangesSafe, vars
  <2> QED BY <2>1, <2>2
<1> QED BY <1>1, <1>2, PTL DEF Spec

\* memcpy and memset write the n bytes they are told to and no other, whatever the
\* alignment of the regions and their lengths, and make no unaligned word access.
THEOREM BytesExactThm == Spec => []BytesExact
<1>1. Init => BytesExact
  BY DEF Init, BytesExact
<1>2. BytesExact /\ [Next]_vars => BytesExact'
  <2>1. CASE Next
    <3>1. CASE op' \in {"memcpy", "memset"}
      BY <2>1, <3>1, CallCases, BytesStep
    <3>2. CASE op' \notin {"memcpy", "memset"}
      BY <3>2 DEF BytesExact
    <3> QED BY <3>1, <3>2
  <2>2. CASE UNCHANGED vars
    BY <2>2 DEF BytesExact, vars
  <2> QED BY <2>1, <2>2
<1> QED BY <1>1, <1>2, PTL DEF Spec

\* The segments of a PageAligned program, of which there may be any number, with any sizes and
\* addresses, are in memory together: each with its file part, zeroes behind it and nothing else
\* in its pages.  Loading one leaves what the ones before it put there.
THEOREM SegmentsExactThm == Spec => []SegmentsExact
<1>1. Init => SegmentsExact
  BY DEF Init, SegmentsExact
<1>2. SegmentsExact /\ [Next]_vars => SegmentsExact'
  <2>1. CASE Next
    <3>1. CASE op' = "load_segments"
      BY <2>1, <3>1, CallCases, SegmentsStep
    <3>2. CASE op' # "load_segments"
      BY <3>2 DEF SegmentsExact
    <3> QED BY <3>1, <3>2
  <2>2. CASE UNCHANGED vars
    BY <2>2 DEF SegmentsExact, vars
  <2> QED BY <2>1, <2>2
<1> QED BY <1>1, <1>2, PTL DEF Spec

\* spawn reads every program header once, however many there are and whatever they hold,
\* although they overwrite the ELF header it reads the count and the stride from.
THEOREM HeadersReadThm == Spec => []HeadersRead
<1>1. Init => HeadersRead
  BY DEF Init, HeadersRead
<1>2. HeadersRead /\ [Next]_vars => HeadersRead'
  <2>1. CASE Next
    <3>1. CASE op' = "headers"
      BY <2>1, <3>1, CallCases, HeadersStep
    <3>2. CASE op' # "headers"
      BY <3>2 DEF HeadersRead
    <3> QED BY <3>1, <3>2
  <2>2. CASE UNCHANGED vars
    BY <2>2 DEF HeadersRead, vars
  <2> QED BY <2>1, <2>2
<1> QED BY <1>1, <1>2, PTL DEF Spec

\* The arguments that init_stack accepts are found by the new program, each string its own,
\* for any number and lengths of them and any size of a page.
THEOREM StackExactThm == Spec => []StackExact
<1>1. Init => StackExact
  BY DEF Init, StackExact
<1>2. StackExact /\ [Next]_vars => StackExact'
  <2>1. CASE Next
    <3>1. CASE op' = "init_stack"
      BY <2>1, <3>1, CallCases, StackStep
    <3>2. CASE op' # "init_stack"
      BY <3>2 DEF StackExact
    <3> QED BY <3>1, <3>2
  <2>2. CASE UNCHANGED vars
    BY <2>2 DEF StackExact, vars
  <2> QED BY <2>1, <2>2
<1> QED BY <1>1, <1>2, PTL DEF Spec

\* Together: a PageAligned program starts with its segments, all that its headers name, and
\* the strings it was called with in memory.
THEOREM ProgramLoadedThm == Spec => []ProgramLoaded
<1>1. SegmentsExact /\ HeadersRead /\ StackExact => ProgramLoaded
  BY DEF ProgramLoaded
<1> QED BY <1>1, SegmentsExactThm, HeadersReadThm, StackExactThm, PTL

\* debugf prints what it is given, every character once and in its order, for chunks of every
\* length and a buffer of every size.
THEOREM OutputKeptThm == Spec => []OutputKept
<1>1. Init => OutputKept
  BY DEF Init, OutputKept
<1>2. OutputKept /\ [Next]_vars => OutputKept'
  <2>1. CASE Next
    <3>1. CASE op' = "debugf"
      BY <2>1, <3>1, CallCases, DebugfStep
    <3>2. CASE op' # "debugf"
      BY <3>2 DEF OutputKept
    <3> QED BY <3>1, <3>2
  <2>2. CASE UNCHANGED vars
    BY <2>2 DEF OutputKept, vars
  <2> QED BY <2>1, <2>2
<1> QED BY <1>1, <1>2, PTL DEF Spec

\* readline returns the line as the user edited it, and an empty one if it was ever as long as
\* the buffer, followed by a newline or by the end of the input; the end of the input in a line
\* that never was ends the shell.  Whatever is typed, and for every BUFSIZE.
THEOREM LineExactThm == Spec => []LineExact
<1>1. Init => LineExact
  BY DEF Init, LineExact
<1>2. LineExact /\ [Next]_vars => LineExact'
  <2>1. CASE Next
    <3>1. CASE op' = "readline"
      BY <2>1, <3>1, CallCases, ReadlineStep
    <3>2. CASE op' # "readline"
      BY <3>2 DEF LineExact
    <3> QED BY <3>1, <3>2
  <2>2. CASE UNCHANGED vars
    BY <2>2 DEF LineExact, vars
  <2> QED BY <2>1, <2>2
<1> QED BY <1>1, <1>2, PTL DEF Spec

\* gettoken returns the words and symbols of every line, each one already cut off when it is
\* returned, although it is cut off only by the search for the next.
THEOREM TokensExactThm == Spec => []TokensExact
<1>1. Init => TokensExact
  BY DEF Init, TokensExact
<1>2. TokensExact /\ [Next]_vars => TokensExact'
  <2>1. CASE Next
    <3>1. CASE op' = "gettoken"
      BY <2>1, <3>1, CallCases, TokensStep
    <3>2. CASE op' # "gettoken"
      BY <3>2 DEF TokensExact
    <3> QED BY <3>1, <3>2
  <2>2. CASE UNCHANGED vars
    BY <2>2 DEF TokensExact, vars
  <2> QED BY <2>1, <2>2
<1> QED BY <1>1, <1>2, PTL DEF Spec

\* Together: the shell runs the words and symbols of the line as the user edited it.
THEOREM InputExactThm == Spec => []InputExact
<1>1. LineExact /\ TokensExact => InputExact
  BY DEF InputExact
<1> QED BY <1>1, LineExactThm, TokensExactThm, PTL
=============================================================================
