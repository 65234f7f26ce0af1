----------------------------- MODULE CowProofs ------------------------------
(***************************************************************************)
(* fork and copy-on-write for any number of processes and pages and any    *)
(* amount of memory: pages that are written are private, faults find their *)
(* handler, and while memory lasts every process sees memory of its own.   *)
(***************************************************************************)
EXTENDS Cow, WellFoundedInduction, FiniteSetTheorems, TLAPS

CowPcs == {"alloc", "copy", "remap", "unmap"}
ChildPcs == {"call", "dup", "again", "map", "handler", "status"}
SecondPcs == {"again", "map"}

\* Where p is in the program or in fork, faults aside.
Eff(p) == IF loc[p].pc \in CowPcs THEN loc[p].ret ELSE loc[p].pc

\* What cow_entry relies on: the page is not written by anybody until it is copied.
FaultOK(p) ==
  LET l == loc[p]
  IN  /\ l.pc \in CowPcs => /\ l.ret \in {"user", "call", "again"}
                            /\ l.ret # "user" => l.va = Stack
                            /\ pt[p][l.va] # None
      /\ l.pc \in {"alloc", "copy", "remap"} => ~pt[p][l.va].perm.d
      /\ l.pc \in {"remap", "unmap"} => ucow[p] # None
      /\ ucow[p] # None => /\ l.pc \in {"copy", "remap", "unmap"}
                           /\ ucow[p][1] = p /\ ucow[p][2] = l.va

\* What fork relies on: the page it is at is mapped, and between the two calls of
\* duppage it is the parent's own.
ForkOK(p) ==
  LET l == loc[p]
      v == Order[l.i]
  IN  /\ Eff(p) \in {"dup"} \union SecondPcs => l.i <= Len(Order) /\ pt[p][v] # None
      /\ Eff(p) \in SecondPcs =>
           /\ l.targets = <<p>>
           /\ pt[p][v].perm.d /\ ~pt[p][v].perm.lib
           /\ ~l.perm.d /\ l.perm.cow /\ ~l.perm.lib
      /\ Eff(p) # "user" => handler[p]
      /\ l.pc # "user_panic"

\* A child is nobody else's, and does not run.
ChildOK(p) ==
  LET c == loc[p].child
  IN  /\ Eff(p) \in ChildPcs /\ c # None =>
           /\ status[c] = "not_runnable"
           /\ \A q \in Proc \ {p} : Eff(q) \in ChildPcs => loc[q].child # c
      /\ Eff(p) = "status" => c # None /\ handler[c]

ProcOK(p) == FaultOK(p) /\ ForkOK(p) /\ ChildOK(p) /\ (status[p] # "runnable" => loc[p] = IdleLocal)

\* A mapped page is named after its address, is copy-on-write if it cannot be
\* written, and is written by the process alone whose copy it is.
PageOK(p, v) ==
  /\ pt[p][v] # None =>
       LET m == pt[p][v].perm
       IN  /\ pt[p][v].pp[2] = v
           /\ status[p] # "free" /\ "table" \in aux[p]
           /\ ~m.d => m.cow
           /\ m.cow => ~m.lib
           /\ m.lib => v \in Lib
           /\ status[p] = "runnable" /\ ~m.d => handler[p]
           /\ \A q \in Proc : ucow[q] = pt[p][v].pp =>
                q = p /\ v = loc[p].va /\ loc[p].pc = "unmap"

Share(p, q, v) == pt[p][v] # None /\ pt[q][v] # None /\ pt[p][v].pp = pt[q][v].pp

\* Who can write a page that others map is between the two calls of duppage.
ShareOK(p, q, v) ==
  p # q /\ Share(p, q, v) =>
    /\ pt[p][v].perm.lib = pt[q][v].perm.lib
    /\ pt[p][v].perm.d /\ ~pt[p][v].perm.lib =>
         Eff(p) \in SecondPcs /\ loc[p].child = q /\ Order[loc[p].i] = v

CowInv ==
  /\ TypeOK
  /\ \A p \in Proc : ProcOK(p)
  /\ \A p \in Proc, v \in Va : PageOK(p, v)
  /\ \A p, q \in Proc, v \in Va : ShareOK(p, q, v)
  /\ kern # "no_handler"

\* Pages that nothing maps are clear.
FreeClean == \A g \in Page : g \notin Mapped => content[g] = 0

\* cow_entry has copied the page, and then put the copy in its place.
CopyOK(p) ==
  /\ loc[p].pc = "remap" => content[ucow[p]] = content[pt[p][loc[p].va].pp]
  /\ loc[p].pc = "unmap" => ucow[p] = pt[p][loc[p].va].pp

\* fork has given to the child what it has passed, and nothing else.
Passed(p, j) == j < loc[p].i \/ (j = loc[p].i /\ Eff(p) \in SecondPcs)

Copied(p) ==
  LET c == loc[p].child
  IN  /\ Eff(p) \in {"handler", "status"} => loc[p].i > Len(Order)
      /\ Eff(p) \in ChildPcs /\ c # None =>
           \A j \in 1..Len(Order) :
             LET v == Order[j]
             IN  IF Passed(p, j)
                 THEN v # Stack => (pt[p][v] = None /\ pt[c][v] = None) \/ Share(p, c, v)
                 ELSE pt[c][v] = None

\* Pages with PTE_LIBRARY are the same for all.
LibOK ==
  \A p, q \in Proc, v \in Lib :
    status[p] = "runnable" /\ status[q] = "runnable" => Share(p, q, v) /\ pt[p][v].perm.lib

RestInv == FreeClean /\ LibOK /\ \A p \in Proc : CopyOK(p) /\ Copied(p)

ViewInv == CowInv /\ RestInv

-----------------------------------------------------------------------------
(* Types *)

LEMMA OrderTypes ==
  /\ Len(Order) \in Nat
  /\ \A i \in 1..Len(Order) : Order[i] \in Va
  /\ Stack \in Va
  BY CowAssumption DEF Va

LEMMA PtTypes ==
  ASSUME TypeOK, NEW p \in Proc, NEW v \in Va, pt[p][v] # None
  PROVE  /\ pt[p][v] = [pp |-> pt[p][v].pp, perm |-> pt[p][v].perm]
         /\ pt[p][v].pp \in Page /\ pt[p][v].perm \in Perm
         /\ pt[p][v].perm.d \in BOOLEAN /\ pt[p][v].perm.cow \in BOOLEAN
         /\ pt[p][v].perm.lib \in BOOLEAN
<1>1. pt[p][v] \in [pp : Page, perm : Perm]
  BY DEF TypeOK
<1>. QED
  BY <1>1 DEF Perm

LEMMA LocTypes ==
  ASSUME TypeOK, NEW p \in Proc
  PROVE  /\ loc[p] \in Local /\ loc[p].pc \in Pcs /\ loc[p].i \in 1..(Len(Order) + 1)
         /\ loc[p].child \in Proc \union {None} /\ loc[p].perm \in Perm
         /\ loc[p].va \in Va /\ loc[p].ret \in Pcs
<1>1. loc[p] \in Local
  BY DEF TypeOK
<1>. QED
  BY <1>1 DEF Local

LEMMA PermFields ==
  /\ \A d, cow, lib \in BOOLEAN : [d |-> d, cow |-> cow, lib |-> lib] \in Perm
  /\ \A m \in Perm : LET n == [m EXCEPT !.d = TRUE, !.cow = FALSE]
                     IN  n \in Perm /\ n.d /\ ~n.cow /\ n.lib = m.lib
  /\ \A m \in Perm : LET n == [m EXCEPT !.d = FALSE, !.cow = TRUE]
                     IN  n \in Perm /\ ~n.d /\ n.cow /\ n.lib = m.lib
<1>1. \A d, cow, lib \in BOOLEAN : [d |-> d, cow |-> cow, lib |-> lib] \in Perm
  BY DEF Perm
<1>2. \A m \in Perm, x, y \in BOOLEAN : [m EXCEPT !.d = x, !.cow = y] \in Perm
  BY DEF Perm
<1>3. \A m \in Perm : LET n == [m EXCEPT !.d = TRUE, !.cow = FALSE]
                      IN  n \in Perm /\ n.d /\ ~n.cow /\ n.lib = m.lib
  BY <1>2 DEF Perm
<1>4. \A m \in Perm : LET n == [m EXCEPT !.d = FALSE, !.cow = TRUE]
                      IN  n \in Perm /\ ~n.d /\ n.cow /\ n.lib = m.lib
  BY <1>2 DEF Perm
<1>. QED
  BY <1>1, <1>3, <1>4

LEMMA IdleType == IdleLocal \in Local
<1>1. IdleLocal.perm \in Perm
  BY PermFields DEF IdleLocal
<1>. QED
  BY <1>1, OrderTypes DEF IdleLocal, Local, Pcs

\* Records that only say where a process is.
LEMMA LocalFields ==
  ASSUME NEW l \in Local
  PROVE  /\ \A pc \in Pcs : [l EXCEPT !.pc = pc] \in Local
         /\ \A i \in 1..(Len(Order) + 1) : [l EXCEPT !.i = i] \in Local
         /\ \A v \in Va, r \in Pcs, pc \in Pcs :
              [l EXCEPT !.va = v, !.ret = r, !.pc = pc] \in Local
         /\ \A v \in Va, r \in Pcs, pc \in Pcs :
              [l EXCEPT !.pc = pc, !.va = v, !.ret = r] \in Local
         /\ \A c \in Proc \union {None}, i \in 1..(Len(Order) + 1) :
              [l EXCEPT !.pc = "call", !.child = c, !.i = i] \in Local
<1>1. \A pc \in Pcs : [l EXCEPT !.pc = pc] \in Local
  BY DEF Local
<1>2. \A i \in 1..(Len(Order) + 1) : [l EXCEPT !.i = i] \in Local
  BY DEF Local
<1>3. \A v \in Va, r \in Pcs, pc \in Pcs : [l EXCEPT !.va = v, !.ret = r, !.pc = pc] \in Local
  BY DEF Local
<1>4. \A v \in Va, r \in Pcs, pc \in Pcs : [l EXCEPT !.pc = pc, !.va = v, !.ret = r] \in Local
  BY DEF Local
<1>5. "call" \in Pcs
  BY DEF Pcs
<1>6. \A c \in Proc \union {None}, i \in 1..(Len(Order) + 1) :
        [l EXCEPT !.pc = "call", !.child = c, !.i = i] \in Local
  BY <1>5 DEF Local
<1>. QED
  BY <1>1, <1>2, <1>3, <1>4, <1>6

-----------------------------------------------------------------------------
(* page_alloc *)

\* A set of numbers that is not empty has a least element.
LEMMA Least ==
  ASSUME NEW S, S \subseteq Nat, S # {}
  PROVE  \E s \in S : \A t \in S : s <= t
<1>1. \E s \in S : \A t \in S : ~(<<t, s>> \in OpToRel(<, Nat))
  BY NatLessThanWellFounded, WFMin, Zenon
<1>2. PICK s \in S : \A t \in S : ~(<<t, s>> \in OpToRel(<, Nat))
  BY <1>1, Zenon
<1>3. \A t \in S : ~(t < s)
  BY <1>2, Zenon DEF OpToRel
<1>. QED
  BY <1>3

LEMMA MappedIff ==
  ASSUME NEW g
  PROVE  g \in Mapped <=> \/ \E q \in Proc : ucow[q] = g
                          \/ \E q \in Proc, v \in Va : pt[q][v] # None /\ pt[q][v].pp = g
<1>1. ASSUME NEW q \in Proc, NEW v \in Va, pt[q][v] # None, pt[q][v].pp = g
      PROVE  g \in Mapped
  <2>1. <<q, v>> \in {y \in Proc \X Va : pt[y[1]][y[2]] # None}
    BY <1>1
  <2>. QED
    BY <1>1, <2>1 DEF Mapped
<1>. QED
  BY <1>1 DEF Mapped

\* A process has one page at an address and one at UCOW, so one of the names of a
\* place is free: page_alloc returns a page that nothing maps.
LEMMA Fresh ==
  ASSUME CowInv, NEW p \in Proc, NEW v \in Va, ucow[p] = None
  PROVE  /\ page_alloc(p, v) \in Page /\ page_alloc(p, v) \notin Mapped
         /\ page_alloc(p, v)[1] = p /\ page_alloc(p, v)[2] = v
<1>. DEFINE N == 1..(Cardinality(Proc) + 1)
            S == {n \in N : <<p, v, n>> \notin Mapped}
<1>1. Cardinality(Proc) \in Nat
  BY CowAssumption, FS_CardinalityType
<1>2. S # {}
  <2>. SUFFICES ASSUME S = {} PROVE FALSE
    OBVIOUS
  <2>. DEFINE f == [n \in N |-> CHOOSE q \in Proc : pt[q][v] # None /\ pt[q][v].pp = <<p, v, n>>]
  <2>1. ASSUME NEW n \in N
        PROVE  \E q \in Proc : pt[q][v] # None /\ pt[q][v].pp = <<p, v, n>>
    <3>1. <<p, v, n>> \in Mapped
      OBVIOUS
    <3>2. ASSUME NEW q \in Proc, ucow[q] = <<p, v, n>> PROVE FALSE
      <4>1. <<p, v, n>> \in Page
        BY DEF Page
      <4>2. ucow[q] # None
        BY <3>2, <4>1, CowAssumption
      <4>3. ucow[q][1] = q
        BY <4>2 DEF CowInv, ProcOK, FaultOK
      <4>. QED
        BY <3>2, <4>2, <4>3
    <3>3. PICK q \in Proc, w \in Va : pt[q][w] # None /\ pt[q][w].pp = <<p, v, n>>
      BY <3>1, <3>2, MappedIff
    <3>4. pt[q][w].pp[2] = w
      BY <3>3 DEF CowInv, PageOK
    <3>. QED
      BY <3>3, <3>4
  <2>2. \A n \in N : f[n] \in Proc /\ pt[f[n]][v].pp = <<p, v, n>>
    BY <2>1
  <2>3. f \in [N -> Proc]
    BY <2>2
  <2>. HIDE DEF f
  <2>4. IsFiniteSet(N) /\ Cardinality(N) = Cardinality(Proc) + 1
    <3>1. 1 \in Int /\ Cardinality(Proc) + 1 \in Int /\ ~(1 > Cardinality(Proc) + 1)
          /\ Cardinality(Proc) + 1 - 1 + 1 = Cardinality(Proc) + 1
      BY <1>1
    <3>. QED
      BY <3>1, FS_Interval
  <2>5. Cardinality(Proc) < Cardinality(N)
    BY <1>1, <2>4
  <2>6. PICK m, n \in N : m # n /\ f[m] = f[n]
    <3>1. IsFiniteSet(Proc)
      BY CowAssumption
    <3>. HIDE DEF N, S
    <3>. QED
      BY <2>3, <2>4, <2>5, <3>1, FS_PigeonHole
  <2>7. <<p, v, m>> = <<p, v, n>>
    BY <2>2, <2>6
  <2>. QED
    BY <2>6, <2>7
<1>3. S \subseteq Nat
  OBVIOUS
<1>4. PICK n \in S : \A k \in S : n <= k
  BY <1>2, <1>3, Least
<1>5. n \in N /\ <<p, v, n>> \notin Mapped /\ \A k \in 1..(n - 1) : <<p, v, k>> \in Mapped
  <2>1. n \in N /\ <<p, v, n>> \notin Mapped
    BY <1>4
  <2>2. ASSUME NEW k \in 1..(n - 1) PROVE <<p, v, k>> \in Mapped
    <3>1. k \in N /\ ~(n <= k)
      BY <1>1, <2>1
    <3>. QED
      BY <1>4, <3>1
  <2>. QED
    BY <2>1, <2>2
<1>. DEFINE x == CHOOSE k \in N : /\ <<p, v, k>> \notin Mapped
                                 /\ \A j \in 1..(k - 1) : <<p, v, j>> \in Mapped
<1>6. x \in N /\ <<p, v, x>> \notin Mapped
  BY <1>5
<1>7. page_alloc(p, v) = <<p, v, x>>
  BY DEF page_alloc
<1>. HIDE DEF x
<1>. QED
  BY <1>6, <1>7 DEF Page

-----------------------------------------------------------------------------
(* What a step leaves alone *)

\* A process that is in no call relies on nothing.
LEMMA IdleProc ==
  ASSUME NEW k \in Proc, loc'[k] = IdleLocal, ucow'[k] = None
  PROVE  ProcOK(k)'
<1>1. loc'[k].pc = "user" /\ Eff(k)' = "user"
  BY DEF Eff, IdleLocal, CowPcs
<1>2. FaultOK(k)'
  BY <1>1 DEF FaultOK, CowPcs
<1>3. ForkOK(k)' /\ ChildOK(k)'
  BY <1>1 DEF ForkOK, ChildOK, ChildPcs, SecondPcs
<1>4. (loc[k] = IdleLocal)'
  <2>1. IdleLocal' = IdleLocal
    BY DEF IdleLocal
  <2>. QED
    BY <2>1
<1>. QED
  BY <1>2, <1>3, <1>4 DEF ProcOK

\* A process that is not running is idle.
LEMMA NotRunning ==
  ASSUME CowInv, NEW k \in Proc, status[k] # "runnable"
  PROVE  loc[k] = IdleLocal /\ ucow[k] = None /\ Eff(k) = "user"
<1>1. loc[k] = IdleLocal /\ FaultOK(k)
  BY DEF CowInv, ProcOK
<1>2. loc[k].pc = "user"
  BY <1>1 DEF IdleLocal
<1>. QED
  BY <1>1, <1>2 DEF FaultOK, Eff, CowPcs

\* The child of k, if k has one at this point.
Child(k) == IF Eff(k) \in ChildPcs THEN loc[k].child ELSE None

\* A process that the step does not touch, nor its child.
LEMMA OtherProc ==
  ASSUME CowInv, NEW k \in Proc,
         loc'[k] = loc[k], ucow'[k] = ucow[k], pt'[k] = pt[k], status'[k] = status[k],
         handler[k] => handler'[k],
         Child(k) # None => /\ status'[Child(k)] = status[Child(k)]
                            /\ handler[Child(k)] => handler'[Child(k)],
         Child(k) # None =>
           \A q \in Proc \ {k} : Child(q)' = Child(k) => Child(q) = Child(k)
  PROVE  ProcOK(k)'
<1>1. ProcOK(k) /\ Eff(k)' = Eff(k)
  BY DEF CowInv, Eff
<1>2. FaultOK(k)'
  BY <1>1 DEF ProcOK, FaultOK
<1>3. ForkOK(k)'
  BY <1>1 DEF ProcOK, ForkOK
<1>4. ChildOK(k)'
  <2>. DEFINE c == loc[k].child
  <2>1. ASSUME Eff(k) \in ChildPcs, c # None
        PROVE  /\ status'[c] = "not_runnable"
               /\ \A q \in Proc \ {k} : Eff(q)' \in ChildPcs => loc'[q].child # c
    <3>1. Child(k) = c
      BY <2>1 DEF Child
    <3>2. status[c] = "not_runnable" /\ \A q \in Proc \ {k} : Eff(q) \in ChildPcs => loc[q].child # c
      BY <1>1, <2>1 DEF ProcOK, ChildOK
    <3>3. ASSUME NEW q \in Proc \ {k}, Eff(q)' \in ChildPcs, loc'[q].child = c PROVE FALSE
      <4>1. Child(q)' = c
        BY <3>3 DEF Child
      <4>2. Child(q) = c
        BY <2>1, <3>1, <4>1
      <4>. QED
        BY <2>1, <3>2, <4>2 DEF Child
    <3>. QED
      BY <2>1, <3>1, <3>2, <3>3
  <2>2. Eff(k) = "status" => c # None /\ handler'[c]
    <3>1. Eff(k) = "status" => c # None /\ handler[c] /\ Child(k) = c
      BY <1>1 DEF ProcOK, ChildOK, Child, ChildPcs
    <3>. QED
      BY <3>1
  <2>. QED
    BY <1>1, <2>1, <2>2 DEF ChildOK
<1>. QED
  BY <1>1, <1>2, <1>3, <1>4 DEF ProcOK

\* The page tables stay, and so does what they rely on.
LEMMA SamePt ==
  ASSUME CowInv, pt' = pt,
         \A q \in Proc, v \in Va : pt[q][v] # None =>
           /\ status'[q] # "free" /\ "table" \in aux'[q]
           /\ status'[q] = "runnable" /\ ~pt[q][v].perm.d => handler'[q],
         \A q \in Proc :
           \/ ucow'[q] = None
           \/ ucow'[q] \notin Mapped
           \/ ucow'[q] = ucow[q] /\ (loc[q].pc = "unmap" => loc'[q] = loc[q]),
         \A q \in Proc : Eff(q) \in SecondPcs =>
           Eff(q)' \in SecondPcs /\ loc'[q].child = loc[q].child /\ loc'[q].i = loc[q].i
  PROVE  (\A q \in Proc, v \in Va : PageOK(q, v)') /\ (\A q, r \in Proc, v \in Va : ShareOK(q, r, v)')
<1>1. ASSUME NEW q \in Proc, NEW v \in Va PROVE PageOK(q, v)'
  <2>1. PageOK(q, v) /\ TypeOK
    BY DEF CowInv
  <2>2. ASSUME pt[q][v] # None, NEW r \in Proc, ucow'[r] = pt[q][v].pp
        PROVE  r = q /\ v = loc'[q].va /\ loc'[q].pc = "unmap"
    <3>1. pt[q][v].pp # None /\ pt[q][v].pp \in Mapped
      <4>1. pt[q][v].pp \in Page
        BY <2>1, <2>2, PtTypes
      <4>2. pt[q][v].pp \in Mapped
        BY <2>2, MappedIff
      <4>. QED
        BY <4>1, <4>2, CowAssumption
    <3>2. ucow'[r] = ucow[r] /\ (loc[r].pc = "unmap" => loc'[r] = loc[r])
      BY <2>2, <3>1
    <3>3. r = q /\ v = loc[q].va /\ loc[q].pc = "unmap"
      BY <2>1, <2>2, <3>2 DEF PageOK
    <3>. QED
      BY <3>2, <3>3
  <2>. QED
    BY <2>1, <2>2 DEF PageOK
<1>2. ASSUME NEW q \in Proc, NEW r \in Proc, NEW v \in Va PROVE ShareOK(q, r, v)'
  <2>1. ShareOK(q, r, v)
    BY DEF CowInv
  <2>. QED
    BY <2>1 DEF ShareOK, Share
<1>. QED
  BY <1>1, <1>2

LEMMA InitCow == Init => CowInv
<1>. SUFFICES ASSUME Init PROVE CowInv
  OBVIOUS
<1>a. Cardinality(Proc) \in Nat
  BY CowAssumption, FS_CardinalityType
<1>1. PICK U \in SUBSET Unmapped :
        pt = [p \in Proc |-> [v \in Va |->
               IF p # Parent \/ v \in U THEN None
               ELSE [pp |-> <<p, v, 1>>, perm |-> [d |-> TRUE, cow |-> FALSE, lib |-> v \in Lib]]]]
  BY DEF Init
<1>2. \A p \in Proc, v \in Va : <<p, v, 1>> \in Page
  BY <1>a DEF Page
<1>3. \A v \in Va : [d |-> TRUE, cow |-> FALSE, lib |-> v \in Lib] \in Perm
  <2>1. ASSUME NEW v \in Va PROVE [d |-> TRUE, cow |-> FALSE, lib |-> v \in Lib] \in Perm
    <3>1. CASE v \in Lib
      <4>1. (v \in Lib) = TRUE
        BY <3>1
      <4>2. [d |-> TRUE, cow |-> FALSE, lib |-> v \in Lib] = [d |-> TRUE, cow |-> FALSE, lib |-> TRUE]
        BY <4>1, Zenon
      <4>. QED
        BY <4>2, PermFields
    <3>2. CASE v \notin Lib
      <4>1. (v \in Lib) = FALSE
        BY <3>2
      <4>2. [d |-> TRUE, cow |-> FALSE, lib |-> v \in Lib] = [d |-> TRUE, cow |-> FALSE, lib |-> FALSE]
        BY <4>1, Zenon
      <4>. QED
        BY <4>2, PermFields
    <3>. QED
      BY <3>1, <3>2
  <2>. QED
    BY <2>1
<1>4. pt \in [Proc -> [Va -> [pp : Page, perm : Perm] \union {None}]]
  BY <1>1, <1>2, <1>3
<1>5. TypeOK
  BY <1>4, IdleType, CowAssumption DEF Init, TypeOK
<1>6. ASSUME NEW p \in Proc PROVE ProcOK(p)
  <2>1. loc[p] = IdleLocal /\ ucow[p] = None
    BY DEF Init
  <2>. QED
    BY <2>1 DEF ProcOK, FaultOK, ForkOK, ChildOK, Eff, IdleLocal, CowPcs, ChildPcs, SecondPcs
<1>7. ASSUME NEW p \in Proc, NEW v \in Va, pt[p][v] # None
      PROVE  /\ p = Parent
             /\ pt[p][v] = [pp |-> <<p, v, 1>>, perm |-> [d |-> TRUE, cow |-> FALSE, lib |-> v \in Lib]]
  BY <1>1, <1>7
<1>8. ASSUME NEW p \in Proc, NEW v \in Va PROVE PageOK(p, v)
  <2>. SUFFICES ASSUME pt[p][v] # None PROVE PageOK(p, v)
    BY DEF PageOK
  <2>. DEFINE m == [d |-> TRUE, cow |-> FALSE, lib |-> v \in Lib]
  <2>4. m.d /\ ~m.cow /\ (m.lib => v \in Lib)
    BY Zenon
  <2>5. p = Parent /\ pt[p][v] = [pp |-> <<p, v, 1>>, perm |-> m]
    BY <1>7
  <2>. HIDE DEF m
  <2>1. p = Parent /\ pt[p][v].pp = <<p, v, 1>> /\ pt[p][v].perm = m
    BY <2>5
  <2>2. \A q \in Proc : ucow[q] # pt[p][v].pp
    BY <1>2, <2>1, CowAssumption DEF Init
  <2>3. status[p] = "runnable" /\ "table" \in aux[p]
    BY <2>1 DEF Init
  <2>. QED
    BY <2>1, <2>2, <2>3, <2>4 DEF PageOK
<1>9. ASSUME NEW p \in Proc, NEW q \in Proc, NEW v \in Va PROVE ShareOK(p, q, v)
  BY <1>7 DEF ShareOK, Share
<1>. QED
  BY <1>5, <1>6, <1>8, <1>9 DEF CowInv, Init

\* A step of p that starts and ends no process.
LEMMA StepProcs ==
  ASSUME CowInv, NEW p \in Proc, status[p] = "runnable", status' = status,
         \A k \in Proc : k # p => /\ loc'[k] = loc[k] /\ ucow'[k] = ucow[k]
                                  /\ pt'[k] = pt[k] \/ status[k] # "runnable",
         \A k \in Proc : handler[k] => handler'[k],
         Child(p)' \in {Child(p), None},
         FaultOK(p)', ForkOK(p)',
         Eff(p)' = "status" => loc'[p].child # None /\ handler'[loc'[p].child]
  PROVE  \A k \in Proc : ProcOK(k)'
<1>1. TypeOK
  BY DEF CowInv
<1>2. \A k \in Proc : k # p => Child(k)' = Child(k)
  BY DEF Child, Eff
<1>3. \A k \in Proc : Child(k) \in Proc \union {None}
  BY <1>1, LocTypes DEF Child
<1>4. ASSUME NEW k \in Proc, k # p PROVE ProcOK(k)'
  <2>1. CASE status[k] # "runnable"
    BY <1>4, <2>1, NotRunning, IdleProc
  <2>2. CASE status[k] = "runnable"
    <3>1. pt'[k] = pt[k]
      BY <1>4, <2>2
    <3>2. \A q \in Proc \ {k} : Child(k) # None /\ Child(q)' = Child(k) => Child(q) = Child(k)
      BY <1>2
    <3>3. Child(k) # None => Child(k) \in Proc
      BY <1>3
    <3>. QED
      BY <1>4, <3>1, <3>2, <3>3, OtherProc
  <2>. QED
    BY <2>1, <2>2
<1>5. ChildOK(p)'
  <2>. DEFINE c == loc'[p].child
  <2>1. ASSUME Eff(p)' \in ChildPcs, c # None
        PROVE  /\ status'[c] = "not_runnable"
               /\ \A q \in Proc \ {p} : Eff(q)' \in ChildPcs => loc'[q].child # c
    <3>1. Child(p)' = c /\ Child(p) = c
      BY <2>1 DEF Child
    <3>2. Eff(p) \in ChildPcs /\ loc[p].child = c
      BY <2>1, <3>1 DEF Child
    <3>3. /\ status[c] = "not_runnable"
          /\ \A q \in Proc \ {p} : Eff(q) \in ChildPcs => loc[q].child # c
      BY <2>1, <3>2 DEF CowInv, ProcOK, ChildOK
    <3>4. \A q \in Proc \ {p} : Eff(q)' = Eff(q) /\ loc'[q] = loc[q]
      BY DEF Eff
    <3>. QED
      BY <3>3, <3>4
  <2>. QED
    BY <2>1 DEF ChildOK
<1>6. ProcOK(p)'
  BY <1>5 DEF ProcOK
<1>. QED
  BY <1>4, <1>6

LEMMA RunningOK ==
  ASSUME CowInv, NEW p \in Proc, Running(p)
  PROVE  TypeOK /\ status[p] = "runnable" /\ ProcOK(p) /\ FaultOK(p) /\ ForkOK(p) /\ ChildOK(p)
         /\ kern = "up" /\ loc[p].pc # "user_panic"
  BY DEF CowInv, ProcOK, ForkOK, Running

-----------------------------------------------------------------------------
(* Stores *)

\* The three ways a store goes on, for the pcs at which programs and fork store.
StorePcs == {"user", "call", "again"}

LEMMA PassiveAllocCow ==
  ASSUME CowInv, NEW p \in Proc, Running(p), loc[p].pc \in StorePcs, NEW v \in Va,
         pt[p][v] = None, passive_alloc(p, v)
  PROVE  CowInv'
<1>0. TypeOK /\ status[p] = "runnable" /\ FaultOK(p) /\ ForkOK(p) /\ ChildOK(p) /\ kern = "up"
  BY RunningOK
<1>1. UNCHANGED <<status, ucow, content, handler, loc, ops>>
  BY DEF passive_alloc
<1>2. ucow[p] = None
  BY <1>0 DEF FaultOK, StorePcs
<1>3. CASE UNCHANGED <<pt, aux>> /\ kern' = "no_mem"
  <2>1. TypeOK'
    BY <1>0, <1>1, <1>3 DEF TypeOK
  <2>2. \A k \in Proc : ProcOK(k)'
    BY <1>1, <1>3 DEF CowInv, ProcOK, FaultOK, ForkOK, ChildOK, Eff
  <2>3. (\A q \in Proc, w \in Va : PageOK(q, w)') /\ (\A q, r \in Proc, w \in Va : ShareOK(q, r, w)')
    BY <1>1, <1>3 DEF CowInv, PageOK, ShareOK, Share, Eff
  <2>. QED
    BY <1>3, <2>1, <2>2, <2>3 DEF CowInv
<1>4. CASE ~(UNCHANGED <<pt, aux>> /\ kern' = "no_mem")
  <2>. DEFINE g == page_alloc(p, v)
              m == [d |-> TRUE, cow |-> FALSE, lib |-> FALSE]
  <2>1. /\ pt' = [pt EXCEPT ![p][v] = [pp |-> g, perm |-> m]]
        /\ aux' = [aux EXCEPT ![p] = @ \union {"table"}]
        /\ kern' = kern
    BY <1>4 DEF passive_alloc
  <2>2. g \in Page /\ g \notin Mapped /\ g[2] = v
    BY <1>2, Fresh
  <2>3. m \in Perm /\ m.d /\ ~m.cow /\ ~m.lib
    BY PermFields
  <2>. HIDE DEF g, m
  <2>4. [pp |-> g, perm |-> m] # None
    BY <2>2, <2>3, CowAssumption
  <2>5. pt' \in [Proc -> [Va -> [pp : Page, perm : Perm] \union {None}]]
    <3>. DEFINE T == [pp : Page, perm : Perm] \union {None}
                x == [pp |-> g, perm |-> m]
    <3>1. x \in T /\ pt \in [Proc -> [Va -> T]] /\ pt' = [pt EXCEPT ![p][v] = x]
      BY <1>0, <2>1, <2>2, <2>3 DEF TypeOK
    <3>. HIDE DEF T, x
    <3>2. pt' \in [Proc -> [Va -> T]]
      BY <3>1
    <3>. QED
      BY <3>2 DEF T
  <2>6. TypeOK'
    BY <1>0, <1>1, <2>1, <2>5 DEF TypeOK
  <2>7. /\ \A k \in Proc : k # p => pt'[k] = pt[k]
        /\ \A w \in Va : w # v => pt'[p][w] = pt[p][w]
        /\ pt'[p][v] = [pp |-> g, perm |-> m]
    BY <1>0, <2>1 DEF TypeOK
  <2>8. pt'[p][v] # None /\ pt'[p][v].pp = g /\ pt'[p][v].perm = m
    BY <2>4, <2>7
  <2>9. \A q \in Proc : "table" \in aux[q] \/ q = p => "table" \in aux'[q]
    BY <1>0, <2>1 DEF TypeOK
  <2>10. FaultOK(p)'
    BY <1>0, <1>1, <1>2 DEF FaultOK, StorePcs, CowPcs
  <2>11. ForkOK(p)'
    <3>1. Eff(p)' = Eff(p) /\ Eff(p) = loc[p].pc
      BY <1>1 DEF Eff, StorePcs, CowPcs
    <3>2. Eff(p) \in {"dup"} \union SecondPcs =>
            /\ loc[p].i <= Len(Order) /\ pt[p][Order[loc[p].i]] # None
            /\ pt'[p][Order[loc[p].i]] = pt[p][Order[loc[p].i]]
      <4>1. loc[p].i \in 1..Len(Order) => Order[loc[p].i] \in Va
        BY OrderTypes
      <4>2. loc[p].i \in 1..(Len(Order) + 1) /\ Len(Order) \in Nat
        BY <1>0, LocTypes, OrderTypes
      <4>3. Eff(p) \in {"dup"} \union SecondPcs =>
              loc[p].i <= Len(Order) /\ pt[p][Order[loc[p].i]] # None
        BY <1>0 DEF ForkOK
      <4>4. loc[p].i <= Len(Order) => loc[p].i \in 1..Len(Order)
        BY <4>2
      <4>. QED
        BY <2>7, <4>1, <4>3, <4>4
    <3>. QED
      BY <1>0, <1>1, <3>1, <3>2 DEF ForkOK
  <2>12. \A k \in Proc : ProcOK(k)'
    <3>1. Child(p)' = Child(p) /\ Eff(p)' = Eff(p)
      BY <1>1 DEF Child, Eff
    <3>2. Eff(p) = "status" => loc[p].child # None /\ handler[loc[p].child]
      BY <1>0 DEF ChildOK
    <3>. QED
      BY <1>0, <1>1, <2>7, <2>10, <2>11, <3>1, <3>2, StepProcs
  <2>13. ASSUME NEW q \in Proc, NEW w \in Va PROVE PageOK(q, w)'
    <3>0. PageOK(q, w)
      BY DEF CowInv
    <3>1. CASE q = p /\ w = v
      <4>1. \A r \in Proc : ucow[r] # g
        BY <2>2, MappedIff
      <4>. QED
        BY <1>0, <1>1, <2>2, <2>3, <2>8, <2>9, <3>1, <4>1 DEF PageOK
    <3>2. CASE ~(q = p /\ w = v)
      <4>1. pt'[q][w] = pt[q][w]
        BY <2>7, <3>2
      <4>. QED
        BY <1>1, <2>9, <3>0, <4>1 DEF PageOK
    <3>. QED
      BY <3>1, <3>2
  <2>14. ASSUME NEW q \in Proc, NEW r \in Proc, NEW w \in Va PROVE ShareOK(q, r, w)'
    <3>0. ShareOK(q, r, w)
      BY DEF CowInv
    <3>1. \A k \in Proc, x \in Va : pt[k][x] # None => pt[k][x].pp # g
      BY <2>2, MappedIff
    <3>2. CASE w = v /\ (q = p \/ r = p) /\ q # r
      <4>1. ~Share(q, r, w)'
        BY <2>7, <2>8, <3>1, <3>2 DEF Share
      <4>. QED
        BY <4>1 DEF ShareOK
    <3>3. CASE ~(w = v /\ (q = p \/ r = p) /\ q # r)
      <4>1. q = r \/ (pt'[q][w] = pt[q][w] /\ pt'[r][w] = pt[r][w])
        BY <2>7, <3>3
      <4>. QED
        BY <1>1, <3>0, <4>1 DEF ShareOK, Share, Eff
    <3>. QED
      BY <3>2, <3>3
  <2>. QED
    BY <1>0, <2>1, <2>6, <2>12, <2>13, <2>14 DEF CowInv
<1>. QED
  BY <1>3, <1>4

\* A step of p that maps and unmaps nothing.
LEMMA KeepPt ==
  ASSUME CowInv, NEW p \in Proc, status[p] = "runnable", status' = status, pt' = pt,
         TypeOK', kern' # "no_handler",
         \A k \in Proc : k # p => loc'[k] = loc[k] /\ ucow'[k] = ucow[k],
         \A k \in Proc : aux[k] \subseteq aux'[k] /\ (handler[k] => handler'[k]),
         Child(p)' \in {Child(p), None},
         FaultOK(p)', ForkOK(p)',
         Eff(p)' = "status" => loc'[p].child # None /\ handler'[loc'[p].child],
         \/ ucow'[p] = None
         \/ ucow'[p] \notin Mapped
         \/ ucow'[p] = ucow[p] /\ loc[p].pc # "unmap",
         Eff(p) \in SecondPcs =>
           Eff(p)' \in SecondPcs /\ loc'[p].child = loc[p].child /\ loc'[p].i = loc[p].i
  PROVE  CowInv'
<1>1. \A k \in Proc : ProcOK(k)'
  BY StepProcs
<1>2. \A q \in Proc, v \in Va : pt[q][v] # None =>
        /\ status'[q] # "free" /\ "table" \in aux'[q]
        /\ status'[q] = "runnable" /\ ~pt[q][v].perm.d => handler'[q]
  BY DEF CowInv, PageOK
<1>3. \A q \in Proc :
        \/ ucow'[q] = None
        \/ ucow'[q] \notin Mapped
        \/ ucow'[q] = ucow[q] /\ (loc[q].pc = "unmap" => loc'[q] = loc[q])
  OBVIOUS
<1>4. \A q \in Proc : Eff(q) \in SecondPcs =>
        Eff(q)' \in SecondPcs /\ loc'[q].child = loc[q].child /\ loc'[q].i = loc[q].i
  BY DEF Eff
<1>5. (\A q \in Proc, v \in Va : PageOK(q, v)') /\ (\A q, r \in Proc, v \in Va : ShareOK(q, r, v)')
  BY <1>2, <1>3, <1>4, SamePt
<1>. QED
  BY <1>1, <1>5 DEF CowInv

\* The page fork is at is one of the address space.
LEMMA ForkPage ==
  ASSUME TypeOK, NEW p \in Proc, loc[p].i <= Len(Order)
  PROVE  loc[p].i \in 1..Len(Order) /\ Order[loc[p].i] \in Va
<1>1. loc[p].i \in 1..(Len(Order) + 1) /\ Len(Order) \in Nat
  BY LocTypes, OrderTypes
<1>2. loc[p].i \in 1..Len(Order)
  BY <1>1
<1>. QED
  BY <1>2, OrderTypes

LEMMA TlbModCow ==
  ASSUME CowInv, NEW p \in Proc, Running(p), loc[p].pc \in StorePcs, NEW v \in Va,
         loc[p].pc # "user" => v = Stack,
         pt[p][v] # None, ~pt[p][v].perm.d, do_tlb_mod(p, v)
  PROVE  CowInv'
<1>0. TypeOK /\ status[p] = "runnable" /\ FaultOK(p) /\ ForkOK(p) /\ ChildOK(p) /\ kern = "up"
  BY RunningOK
<1>1. UNCHANGED <<status, pt, ucow, content, handler, ops>>
  BY DEF do_tlb_mod
<1>2. handler[p] /\ pt[p][v].perm.cow
  BY <1>0 DEF CowInv, PageOK
<1>3. kern' \in {"up", "no_mem"}
  BY <1>2 DEF do_tlb_mod
<1>4. loc' = [loc EXCEPT ![p] = [loc[p] EXCEPT !.va = v, !.ret = loc[p].pc, !.pc = "alloc"]]
  BY <1>2 DEF do_tlb_mod
<1>5. aux' \in [Proc -> SUBSET {"dir", "table", "xstack"}] /\ \A k \in Proc : aux[k] \subseteq aux'[k]
  BY <1>0 DEF do_tlb_mod, TypeOK
<1>. DEFINE l == [loc[p] EXCEPT !.va = v, !.ret = loc[p].pc, !.pc = "alloc"]
<1>6. l \in Local /\ loc[p] \in Local
  <2>1. loc[p] \in Local /\ loc[p].pc \in Pcs /\ "alloc" \in Pcs
    BY <1>0, LocTypes DEF Pcs
  <2>. QED
    BY <2>1, LocalFields
<1>7. /\ l.pc = "alloc" /\ l.ret = loc[p].pc /\ l.va = v /\ l.child = loc[p].child
      /\ l.i = loc[p].i /\ l.targets = loc[p].targets /\ l.perm = loc[p].perm
  BY <1>6 DEF Local
<1>. HIDE DEF l
<1>8. loc'[p] = l /\ \A k \in Proc : k # p => loc'[k] = loc[k]
  BY <1>0, <1>4 DEF TypeOK, l
<1>9. TypeOK'
  BY <1>0, <1>1, <1>3, <1>4, <1>5, <1>6 DEF TypeOK, l
<1>10. ucow[p] = None
  BY <1>0 DEF FaultOK, StorePcs
<1>11. FaultOK(p)'
  BY <1>1, <1>7, <1>8, <1>10 DEF FaultOK, CowPcs, StorePcs
<1>12. Eff(p)' = Eff(p) /\ Child(p)' = Child(p)
  BY <1>7, <1>8 DEF Eff, Child, CowPcs, StorePcs
<1>13. ForkOK(p)'
  BY <1>0, <1>1, <1>7, <1>8, <1>12 DEF ForkOK
<1>14. Eff(p)' = "status" => loc'[p].child # None /\ handler'[loc'[p].child]
  BY <1>0, <1>1, <1>7, <1>8, <1>12 DEF ChildOK
<1>. QED
  BY <1>0, <1>1, <1>3, <1>5, <1>7, <1>8, <1>9, <1>10, <1>11, <1>12, <1>13, <1>14, KeepPt

\* A store that is allowed; fork goes from one call to the next.
LEMMA StoreOkCow ==
  ASSUME CowInv, NEW p \in Proc, Running(p), NEW v \in Va, NEW x \in Val, NEW pc \in Pcs,
         \/ loc[p].pc = "user" /\ pc = "user" /\ ops < MaxOps
         \/ loc[p].pc = "call" /\ pc = "dup" /\ loc[p].i <= Len(Order) /\ pt[p][Order[loc[p].i]] # None
         \/ loc[p].pc = "call" /\ pc = "handler"
         \/ loc[p].pc = "again" /\ pc = "map",
         pt[p][v] # None,
         content' = [content EXCEPT ![pt[p][v].pp] = x], Goto(p, pc),
         ops' = IF pc = "user" THEN ops + 1 ELSE ops,
         UNCHANGED <<status, pt, ucow, aux, handler, kern>>
  PROVE  CowInv'
<1>0. TypeOK /\ status[p] = "runnable" /\ FaultOK(p) /\ ForkOK(p) /\ ChildOK(p) /\ kern = "up"
  BY RunningOK
<1>1. loc' = [loc EXCEPT ![p] = [loc[p] EXCEPT !.pc = pc]]
  BY DEF Goto
<1>. DEFINE l == [loc[p] EXCEPT !.pc = pc]
<1>2. l \in Local /\ loc[p] \in Local
  BY <1>0, LocTypes, LocalFields
<1>3. /\ l.pc = pc /\ l.ret = loc[p].ret /\ l.va = loc[p].va /\ l.child = loc[p].child
      /\ l.i = loc[p].i /\ l.targets = loc[p].targets /\ l.perm = loc[p].perm
  BY <1>2 DEF Local
<1>. HIDE DEF l
<1>4. loc'[p] = l /\ \A k \in Proc : k # p => loc'[k] = loc[k]
  BY <1>0, <1>1 DEF TypeOK, l
<1>5. content' \in [Page -> Val]
  BY <1>0 DEF TypeOK
<1>6. ops' \in 0..MaxOps
  BY <1>0, CowAssumption DEF TypeOK
<1>7. TypeOK'
  BY <1>0, <1>1, <1>2, <1>5, <1>6 DEF TypeOK, l
<1>8. ucow[p] = None /\ Eff(p) = loc[p].pc /\ Eff(p)' = pc
  BY <1>0, <1>3, <1>4 DEF FaultOK, Eff, CowPcs
<1>9. FaultOK(p)'
  BY <1>3, <1>4, <1>8 DEF FaultOK, CowPcs
<1>10. Child(p)' = Child(p)
  BY <1>3, <1>4, <1>8 DEF Child, ChildPcs
<1>11. ForkOK(p)'
  BY <1>0, <1>3, <1>4, <1>8 DEF ForkOK, SecondPcs
<1>12. Eff(p)' # "status" /\ (Eff(p) \in SecondPcs => Eff(p)' \in SecondPcs)
  BY <1>8 DEF SecondPcs
<1>. QED
  BY <1>0, <1>3, <1>4, <1>7, <1>8, <1>9, <1>10, <1>11, <1>12, KeepPt

\* A store of a program, or of a call that fork makes.
LEMMA StoreCow ==
  ASSUME CowInv, NEW p \in Proc, Running(p), NEW v \in Va, NEW x \in Val, NEW pc \in Pcs,
         \/ loc[p].pc = "user" /\ pc = "user" /\ ops < MaxOps
         \/ loc[p].pc = "call" /\ pc = "dup" /\ loc[p].i <= Len(Order) /\ pt[p][Order[loc[p].i]] # None
         \/ loc[p].pc = "call" /\ pc = "handler"
         \/ loc[p].pc = "again" /\ pc = "map",
         loc[p].pc # "user" => v = Stack,
         Store(p, v, x, pc)
  PROVE  CowInv'
<1>1. loc[p].pc \in StorePcs
  BY DEF StorePcs
<1>2. CASE pt[p][v] = None /\ passive_alloc(p, v)
  BY <1>1, <1>2, PassiveAllocCow
<1>3. CASE pt[p][v] # None /\ ~pt[p][v].perm.d /\ do_tlb_mod(p, v)
  BY <1>1, <1>3, TlbModCow
<1>. QED
  BY <1>2, <1>3, StoreOkCow DEF Store

-----------------------------------------------------------------------------
(* cow_entry *)

\* A step of cow_entry goes on in cow_entry.
LEMMA GotoCow ==
  ASSUME TypeOK, NEW p \in Proc, loc[p].pc \in CowPcs, NEW pc \in CowPcs, Goto(p, pc)
  PROVE  /\ loc' \in [Proc -> Local]
         /\ \A k \in Proc : k # p => loc'[k] = loc[k]
         /\ loc'[p].pc = pc /\ loc'[p].ret = loc[p].ret /\ loc'[p].va = loc[p].va
         /\ loc'[p].child = loc[p].child /\ loc'[p].i = loc[p].i
         /\ loc'[p].targets = loc[p].targets /\ loc'[p].perm = loc[p].perm
         /\ Eff(p)' = Eff(p) /\ Child(p)' = Child(p)
<1>. DEFINE l == [loc[p] EXCEPT !.pc = pc]
<1>1. loc' = [loc EXCEPT ![p] = l]
  BY DEF Goto
<1>2. pc \in Pcs
  BY DEF CowPcs, Pcs
<1>3. l \in Local /\ loc[p] \in Local
  BY <1>2, LocTypes, LocalFields
<1>4. /\ l.pc = pc /\ l.ret = loc[p].ret /\ l.va = loc[p].va /\ l.child = loc[p].child
      /\ l.i = loc[p].i /\ l.targets = loc[p].targets /\ l.perm = loc[p].perm
  BY <1>3 DEF Local
<1>. HIDE DEF l
<1>5. loc' \in [Proc -> Local] /\ loc'[p] = l /\ \A k \in Proc : k # p => loc'[k] = loc[k]
  BY <1>1, <1>3 DEF TypeOK
<1>6. Eff(p)' = Eff(p) /\ Child(p)' = Child(p)
  BY <1>4, <1>5 DEF Eff, Child
<1>. QED
  BY <1>4, <1>5, <1>6

LEMMA CowAllocCow ==
  ASSUME CowInv, NEW p \in Proc, cow_alloc(p)
  PROVE  CowInv'
<1>1. /\ Running(p) /\ loc[p].pc = "alloc" /\ Goto(p, "copy")
      /\ UNCHANGED <<status, pt, aux, content, handler, kern, ops>>
  BY DEF cow_alloc, At
<1>0. TypeOK /\ status[p] = "runnable" /\ FaultOK(p) /\ ForkOK(p) /\ ChildOK(p) /\ kern = "up"
  BY <1>1, RunningOK
<1>2. /\ loc' \in [Proc -> Local]
      /\ \A k \in Proc : k # p => loc'[k] = loc[k]
      /\ loc'[p].pc = "copy" /\ loc'[p].ret = loc[p].ret /\ loc'[p].va = loc[p].va
      /\ loc'[p].child = loc[p].child /\ loc'[p].i = loc[p].i
      /\ loc'[p].targets = loc[p].targets /\ loc'[p].perm = loc[p].perm
      /\ Eff(p)' = Eff(p) /\ Child(p)' = Child(p)
  BY <1>0, <1>1, GotoCow DEF CowPcs
<1>3. ucow[p] = None /\ loc[p].va \in Va
  BY <1>0, <1>1, LocTypes DEF FaultOK
<1>. DEFINE g == page_alloc(p, loc[p].va)
<1>4. g \in Page /\ g \notin Mapped /\ g[1] = p /\ g[2] = loc[p].va
  BY <1>3, Fresh
<1>5. ucow' = [ucow EXCEPT ![p] = IF NFree > 0 THEN g ELSE None]
  BY <1>3 DEF cow_alloc
<1>. HIDE DEF g
<1>6. /\ ucow' \in [Proc -> Page \union {None}]
      /\ ucow'[p] = None \/ ucow'[p] = g
      /\ \A k \in Proc : k # p => ucow'[k] = ucow[k]
  BY <1>0, <1>4, <1>5 DEF TypeOK
<1>7. TypeOK'
  BY <1>0, <1>1, <1>2, <1>6 DEF TypeOK
<1>8. FaultOK(p)'
  BY <1>0, <1>1, <1>2, <1>4, <1>6 DEF FaultOK, CowPcs
<1>9. ForkOK(p)'
  BY <1>0, <1>1, <1>2 DEF ForkOK
<1>10. Eff(p)' = "status" => loc'[p].child # None /\ handler'[loc'[p].child]
  BY <1>0, <1>1, <1>2 DEF ChildOK
<1>. QED
  BY <1>0, <1>1, <1>2, <1>4, <1>6, <1>7, <1>8, <1>9, <1>10, KeepPt

LEMMA CowCopyCow ==
  ASSUME CowInv, NEW p \in Proc, cow_copy(p)
  PROVE  CowInv'
<1>1. Running(p) /\ loc[p].pc = "copy" /\ UNCHANGED <<status, pt, aux, handler, ops>>
  BY DEF cow_copy, At
<1>0. TypeOK /\ status[p] = "runnable" /\ FaultOK(p) /\ ForkOK(p) /\ ChildOK(p) /\ kern = "up"
  BY <1>1, RunningOK
<1>s. Eff(p) = "status" => loc[p].child # None /\ handler[loc[p].child]
  BY <1>0 DEF ChildOK
<1>2. CASE ucow[p] # None
  <2>1. /\ content' = [content EXCEPT ![ucow[p]] = content[pt[p][loc[p].va].pp]]
        /\ Goto(p, "remap") /\ UNCHANGED <<ucow, kern>>
    BY <1>2 DEF cow_copy
  <2>2. /\ loc' \in [Proc -> Local]
        /\ \A k \in Proc : k # p => loc'[k] = loc[k]
        /\ loc'[p].pc = "remap" /\ loc'[p].ret = loc[p].ret /\ loc'[p].va = loc[p].va
        /\ loc'[p].child = loc[p].child /\ loc'[p].i = loc[p].i
        /\ loc'[p].targets = loc[p].targets /\ loc'[p].perm = loc[p].perm
        /\ Eff(p)' = Eff(p) /\ Child(p)' = Child(p)
    BY <1>0, <1>1, <2>1, GotoCow DEF CowPcs
  <2>3. pt[p][loc[p].va].pp \in Page
    BY <1>0, <1>1, LocTypes, PtTypes DEF FaultOK, CowPcs
  <2>4. content' \in [Page -> Val]
    BY <1>0, <2>1, <2>3 DEF TypeOK
  <2>5. TypeOK'
    BY <1>0, <1>1, <2>1, <2>2, <2>4 DEF TypeOK
  <2>6. FaultOK(p)'
    BY <1>0, <1>1, <1>2, <2>1, <2>2 DEF FaultOK, CowPcs
  <2>7. ForkOK(p)'
    BY <1>0, <1>1, <2>2 DEF ForkOK
  <2>. QED
    BY <1>0, <1>1, <1>s, <2>1, <2>2, <2>5, <2>6, <2>7, KeepPt
<1>3. CASE ucow[p] = None
  <2>1. UNCHANGED <<content, loc>> /\ kern' \in {"up", "no_mem"}
    BY <1>0, <1>3 DEF cow_copy
  <2>. DEFINE g == page_alloc(p, loc[p].va)
  <2>2. g \in Page /\ g \notin Mapped /\ g[1] = p /\ g[2] = loc[p].va
    BY <1>0, <1>3, LocTypes, Fresh
  <2>3. ucow' = [ucow EXCEPT ![p] = g] \/ ucow' = ucow
    BY <1>3 DEF cow_copy
  <2>. HIDE DEF g
  <2>4. /\ ucow' \in [Proc -> Page \union {None}]
        /\ ucow'[p] = None \/ ucow'[p] = g
        /\ \A k \in Proc : k # p => ucow'[k] = ucow[k]
    BY <1>0, <1>3, <2>2, <2>3 DEF TypeOK
  <2>5. TypeOK'
    BY <1>0, <1>1, <2>1, <2>4 DEF TypeOK
  <2>6. FaultOK(p)'
    BY <1>0, <1>1, <2>1, <2>2, <2>4 DEF FaultOK, CowPcs
  <2>7. Eff(p)' = Eff(p) /\ Child(p)' = Child(p)
    BY <2>1 DEF Eff, Child
  <2>8. ForkOK(p)'
    BY <1>0, <1>1, <2>1, <2>7 DEF ForkOK
  <2>. QED
    BY <1>0, <1>1, <1>s, <2>1, <2>2, <2>4, <2>5, <2>6, <2>7, <2>8, KeepPt
<1>. QED
  BY <1>2, <1>3

LEMMA CowUnmapCow ==
  ASSUME CowInv, NEW p \in Proc, cow_unmap(p)
  PROVE  CowInv'
<1>1. /\ Running(p) /\ loc[p].pc = "unmap" /\ ucow' = [ucow EXCEPT ![p] = None]
      /\ UNCHANGED <<status, pt, aux, content, handler, kern, ops>>
  BY DEF cow_unmap, At
<1>0. TypeOK /\ status[p] = "runnable" /\ FaultOK(p) /\ ForkOK(p) /\ ChildOK(p) /\ kern = "up"
  BY <1>1, RunningOK
<1>. DEFINE l == [loc[p] EXCEPT !.pc = loc[p].ret, !.va = Stack, !.ret = "user"]
<1>2. loc' = [loc EXCEPT ![p] = l]
  BY DEF cow_unmap
<1>3. loc[p] \in Local /\ loc[p].ret \in Pcs /\ "user" \in Pcs /\ Stack \in Va
  BY <1>0, LocTypes, OrderTypes DEF Pcs
<1>4. l \in Local
  BY <1>3, LocalFields
<1>5. /\ l.pc = loc[p].ret /\ l.child = loc[p].child
      /\ l.i = loc[p].i /\ l.targets = loc[p].targets /\ l.perm = loc[p].perm
  BY <1>3 DEF Local
<1>. HIDE DEF l
<1>6. loc' \in [Proc -> Local] /\ loc'[p] = l /\ \A k \in Proc : k # p => loc'[k] = loc[k]
  BY <1>0, <1>2, <1>4 DEF TypeOK
<1>7. /\ ucow' \in [Proc -> Page \union {None}] /\ ucow'[p] = None
      /\ \A k \in Proc : k # p => ucow'[k] = ucow[k]
  BY <1>0, <1>1 DEF TypeOK
<1>8. TypeOK'
  BY <1>0, <1>1, <1>6, <1>7 DEF TypeOK
<1>9. loc[p].ret \in {"user", "call", "again"}
  BY <1>0, <1>1 DEF FaultOK, CowPcs
<1>10. FaultOK(p)'
  BY <1>5, <1>6, <1>7, <1>9 DEF FaultOK, CowPcs
<1>11. Eff(p)' = Eff(p) /\ Child(p)' = Child(p)
  BY <1>1, <1>5, <1>6, <1>9 DEF Eff, Child, CowPcs
<1>12. ForkOK(p)'
  BY <1>0, <1>1, <1>5, <1>6, <1>9, <1>11 DEF ForkOK
<1>13. Eff(p)' # "status"
  BY <1>1, <1>9, <1>11 DEF Eff, CowPcs
<1>. QED
  BY <1>0, <1>1, <1>5, <1>6, <1>7, <1>8, <1>10, <1>11, <1>12, <1>13, KeepPt

\* cow_entry puts the copy, which nobody else maps, in place of the shared page.
LEMMA CowMapCow ==
  ASSUME CowInv, NEW p \in Proc, cow_map(p)
  PROVE  CowInv'
<1>1. /\ Running(p) /\ loc[p].pc = "remap" /\ Goto(p, "unmap")
      /\ UNCHANGED <<status, ucow, aux, handler, kern, ops>>
  BY DEF cow_map, At
<1>0. TypeOK /\ status[p] = "runnable" /\ FaultOK(p) /\ ForkOK(p) /\ ChildOK(p) /\ kern = "up"
  BY <1>1, RunningOK
<1>2. /\ loc' \in [Proc -> Local]
      /\ \A k \in Proc : k # p => loc'[k] = loc[k]
      /\ loc'[p].pc = "unmap" /\ loc'[p].ret = loc[p].ret /\ loc'[p].va = loc[p].va
      /\ loc'[p].child = loc[p].child /\ loc'[p].i = loc[p].i
      /\ loc'[p].targets = loc[p].targets /\ loc'[p].perm = loc[p].perm
      /\ Eff(p)' = Eff(p) /\ Child(p)' = Child(p)
  BY <1>0, <1>1, GotoCow DEF CowPcs
<1>. DEFINE v == loc[p].va
            g == ucow[p]
            o == pt[p][v].perm
            m == [o EXCEPT !.d = TRUE, !.cow = FALSE]
<1>3. /\ v \in Va /\ pt[p][v] # None /\ g # None /\ g \in Page /\ g[2] = v
      /\ loc[p].ret \in {"user", "call", "again"}
  BY <1>0, <1>1, LocTypes DEF FaultOK, CowPcs, TypeOK
<1>4. o \in Perm
  BY <1>0, <1>3, PtTypes
<1>5. pt' = [pt EXCEPT ![p][v] = [pp |-> g, perm |-> m]]
  BY <1>0, <1>3 DEF cow_map, TypeOK
<1>6. content' \in [Page -> Val]
  BY <1>0, CowAssumption DEF cow_map, Cleared, TypeOK
<1>. HIDE DEF v, g, o
<1>7. m \in Perm /\ m.d /\ ~m.cow /\ m.lib = o.lib
  BY <1>4, PermFields
<1>. HIDE DEF m
<1>8. pt' \in [Proc -> [Va -> [pp : Page, perm : Perm] \union {None}]]
  <2>. DEFINE T == [pp : Page, perm : Perm] \union {None}
              x == [pp |-> g, perm |-> m]
  <2>1. x \in T /\ pt \in [Proc -> [Va -> T]] /\ pt' = [pt EXCEPT ![p][v] = x]
    BY <1>0, <1>3, <1>5, <1>7 DEF TypeOK
  <2>. HIDE DEF T, x
  <2>2. pt' \in [Proc -> [Va -> T]]
    BY <1>3, <2>1
  <2>. QED
    BY <2>2 DEF T
<1>9. TypeOK'
  BY <1>0, <1>1, <1>2, <1>6, <1>8 DEF TypeOK
<1>10. /\ \A k \in Proc : k # p => pt'[k] = pt[k]
       /\ \A w \in Va : w # v => pt'[p][w] = pt[p][w]
       /\ pt'[p][v] = [pp |-> g, perm |-> m]
  BY <1>0, <1>3, <1>5 DEF TypeOK
<1>11. pt'[p][v] # None /\ pt'[p][v].pp = g /\ pt'[p][v].perm = m
  <2>1. [pp |-> g, perm |-> m] # None
    BY <1>3, <1>7, CowAssumption
  <2>. QED
    BY <1>10, <2>1
<1>12. \A q \in Proc, w \in Va : pt[q][w] # None => pt[q][w].pp # g
  BY <1>1 DEF CowInv, PageOK, g
<1>13. FaultOK(p)'
  BY <1>0, <1>1, <1>2, <1>3, <1>11 DEF FaultOK, CowPcs, v, g
<1>14. ForkOK(p)'
  <2>1. Eff(p) \in {"dup"} \union SecondPcs => Order[loc[p].i] \in Va
    BY <1>0, ForkPage DEF ForkOK
  <2>2. ASSUME Eff(p) \in {"dup"} \union SecondPcs
        PROVE  pt'[p][Order[loc[p].i]] # None
    BY <1>0, <1>10, <1>11, <2>1, <2>2 DEF ForkOK
  <2>3. ASSUME Eff(p) \in SecondPcs
        PROVE  pt'[p][Order[loc[p].i]].perm.d /\ ~pt'[p][Order[loc[p].i]].perm.lib
    <3>1. CASE Order[loc[p].i] = v
      BY <1>0, <1>7, <1>11, <2>3, <3>1 DEF ForkOK, o
    <3>2. CASE Order[loc[p].i] # v
      BY <1>0, <1>10, <2>1, <2>3, <3>2 DEF ForkOK
    <3>. QED
      BY <3>1, <3>2
  <2>. QED
    BY <1>0, <1>1, <1>2, <2>2, <2>3 DEF ForkOK
<1>15. \A k \in Proc : ProcOK(k)'
  <2>1. Eff(p) = "status" => loc[p].child # None /\ handler[loc[p].child]
    BY <1>0 DEF ChildOK
  <2>. QED
    BY <1>0, <1>1, <1>2, <1>10, <1>13, <1>14, <2>1, StepProcs
<1>16. ASSUME NEW q \in Proc, NEW w \in Va PROVE PageOK(q, w)'
  <2>0. PageOK(q, w)
    BY DEF CowInv
  <2>1. CASE q = p /\ w = v
    <3>1. PageOK(p, v)
      BY <1>3 DEF CowInv
    <3>2. "table" \in aux[p] /\ (o.lib => v \in Lib)
      BY <1>3, <3>1 DEF PageOK, o
    <3>3. ASSUME NEW r \in Proc, ucow[r] = g PROVE r = p
      <4>1. ucow[r][1] = r /\ g[1] = p
        BY <1>3, <3>3 DEF CowInv, ProcOK, FaultOK, g
      <4>. QED
        BY <3>3, <4>1
    <3>. QED
      BY <1>0, <1>1, <1>2, <1>3, <1>7, <1>11, <2>1, <3>2, <3>3 DEF PageOK, v
  <2>2. CASE ~(q = p /\ w = v)
    <3>1. pt'[q][w] = pt[q][w]
      BY <1>10, <2>2
    <3>2. \A r \in Proc : pt[q][w] # None => ucow[r] # pt[q][w].pp \/ loc[r].pc = "unmap"
      BY <2>0 DEF PageOK
    <3>3. loc'[q] = loc[q] \/ q = p
      BY <1>2
    <3>. QED
      BY <1>1, <1>2, <2>0, <3>1, <3>2, <3>3 DEF PageOK
  <2>. QED
    BY <2>1, <2>2
<1>17. ASSUME NEW q \in Proc, NEW r \in Proc, NEW w \in Va PROVE ShareOK(q, r, w)'
  <2>0. ShareOK(q, r, w)
    BY DEF CowInv
  <2>1. CASE w = v /\ (q = p \/ r = p) /\ q # r
    <3>1. ~Share(q, r, w)'
      BY <1>10, <1>11, <1>12, <2>1 DEF Share
    <3>. QED
      BY <3>1 DEF ShareOK
  <2>2. CASE ~(w = v /\ (q = p \/ r = p) /\ q # r)
    <3>1. q = r \/ (pt'[q][w] = pt[q][w] /\ pt'[r][w] = pt[r][w])
      BY <1>10, <2>2
    <3>2. Eff(q)' = Eff(q) /\ loc'[q].child = loc[q].child /\ loc'[q].i = loc[q].i
      BY <1>2 DEF Eff
    <3>. QED
      BY <2>0, <3>1, <3>2 DEF ShareOK, Share
  <2>. QED
    BY <2>1, <2>2
<1>. QED
  BY <1>0, <1>1, <1>9, <1>15, <1>16, <1>17 DEF CowInv

-----------------------------------------------------------------------------
(* fork *)

LEMMA ForkBeginCow ==
  ASSUME CowInv, NEW p \in Proc, fork_begin(p)
  PROVE  CowInv'
<1>1. /\ Running(p) /\ loc[p].pc = "user" /\ ops < MaxOps /\ Goto(p, "exofork")
      /\ handler' = [handler EXCEPT ![p] = TRUE] /\ ops' = ops + 1
      /\ UNCHANGED <<status, pt, ucow, aux, content, kern>>
  BY DEF fork_begin, At, memory
<1>0. TypeOK /\ status[p] = "runnable" /\ FaultOK(p) /\ kern = "up"
  BY <1>1, RunningOK
<1>. DEFINE l == [loc[p] EXCEPT !.pc = "exofork"]
<1>2. l \in Local /\ loc[p] \in Local
  BY <1>0, LocTypes, LocalFields DEF Pcs
<1>3. l.pc = "exofork"
  BY <1>2 DEF Local
<1>4. loc' = [loc EXCEPT ![p] = l]
  BY <1>1 DEF Goto
<1>. HIDE DEF l
<1>5. loc' \in [Proc -> Local] /\ loc'[p] = l /\ \A k \in Proc : k # p => loc'[k] = loc[k]
  BY <1>0, <1>2, <1>4 DEF TypeOK
<1>6. handler' \in [Proc -> BOOLEAN] /\ handler'[p] /\ \A k \in Proc : handler[k] => handler'[k]
  BY <1>0, <1>1 DEF TypeOK
<1>7. ops' \in 0..MaxOps
  BY <1>0, <1>1, CowAssumption DEF TypeOK
<1>8. TypeOK'
  BY <1>0, <1>1, <1>5, <1>6, <1>7 DEF TypeOK
<1>9. ucow[p] = None /\ Eff(p) = "user" /\ Eff(p)' = "exofork"
  BY <1>0, <1>1, <1>3, <1>5 DEF FaultOK, Eff, CowPcs
<1>10. FaultOK(p)' /\ ForkOK(p)'
  BY <1>1, <1>3, <1>5, <1>6, <1>9 DEF FaultOK, ForkOK, CowPcs, SecondPcs
<1>11. Child(p)' = None
  BY <1>9 DEF Child, ChildPcs
<1>. QED
  BY <1>0, <1>1, <1>5, <1>6, <1>8, <1>9, <1>10, <1>11, KeepPt DEF SecondPcs

LEMMA ExoforkCow ==
  ASSUME CowInv, NEW p \in Proc, sys_exofork(p)
  PROVE  CowInv'
<1>1. PICK c \in Proc \union {None} :
        /\ c # None => status[c] = "free"
        /\ status' = [q \in Proc |-> IF q = c THEN "not_runnable" ELSE status[q]]
        /\ aux' = [q \in Proc |-> IF q = c THEN {"dir"} ELSE aux[q]]
        /\ handler' = [q \in Proc |-> IF q = c THEN FALSE ELSE handler[q]]
        /\ loc' = [loc EXCEPT ![p].pc = "call", ![p].child = c, ![p].i = 1]
  BY DEF sys_exofork
<1>2. /\ Running(p) /\ loc[p].pc = "exofork" /\ UNCHANGED <<pt, ucow, content, kern, ops>>
  BY DEF sys_exofork, At
<1>0. TypeOK /\ status[p] = "runnable" /\ FaultOK(p) /\ ForkOK(p) /\ kern = "up"
  BY <1>2, RunningOK
<1>. DEFINE l == [loc[p] EXCEPT !.pc = "call", !.child = c, !.i = 1]
<1>3. l \in Local /\ loc[p] \in Local
  <2>1. 1 \in 1..(Len(Order) + 1)
    BY OrderTypes
  <2>. QED
    BY <1>0, <2>1, LocTypes, LocalFields
<1>4. l.pc = "call" /\ l.child = c /\ l.i = 1
  BY <1>3 DEF Local
<1>5. loc' = [loc EXCEPT ![p] = l]
  BY <1>1
<1>. HIDE DEF l
<1>6. loc' \in [Proc -> Local] /\ loc'[p] = l /\ \A k \in Proc : k # p => loc'[k] = loc[k]
  BY <1>0, <1>3, <1>5 DEF TypeOK
<1>7. /\ c # p
      /\ \A q \in Proc : q # c => status'[q] = status[q] /\ aux'[q] = aux[q] /\ handler'[q] = handler[q]
      /\ c # None => status'[c] = "not_runnable"
  BY <1>0, <1>1, CowAssumption
<1>8. TypeOK'
  <2>1. status' \in [Proc -> {"free", "not_runnable", "runnable"}]
    BY <1>0, <1>1 DEF TypeOK
  <2>2. aux' \in [Proc -> SUBSET {"dir", "table", "xstack"}]
    BY <1>0, <1>1 DEF TypeOK
  <2>3. handler' \in [Proc -> BOOLEAN]
    BY <1>0, <1>1 DEF TypeOK
  <2>. QED
    BY <1>0, <1>2, <1>6, <2>1, <2>2, <2>3 DEF TypeOK
<1>9. ucow[p] = None /\ Eff(p) = "exofork" /\ Eff(p)' = "call"
  BY <1>0, <1>2, <1>4, <1>6 DEF FaultOK, Eff, CowPcs
<1>10. \A k \in Proc : Child(k) # None => Child(k) \in Proc /\ status[Child(k)] = "not_runnable"
  <2>1. ASSUME NEW k \in Proc, Child(k) # None PROVE status[Child(k)] = "not_runnable"
    BY <2>1 DEF Child, CowInv, ProcOK, ChildOK
  <2>2. \A k \in Proc : Child(k) \in Proc \union {None}
    BY <1>0, LocTypes DEF Child
  <2>. QED
    BY <2>1, <2>2
<1>11. \A k \in Proc : Child(k) # None => Child(k) # c
  BY <1>1, <1>10
<1>12. Child(p)' = c /\ \A k \in Proc : k # p => Child(k)' = Child(k) /\ Eff(k)' = Eff(k)
  BY <1>4, <1>6, <1>9 DEF Child, Eff, ChildPcs
<1>13. ASSUME NEW k \in Proc PROVE ProcOK(k)'
  <2>1. CASE k = c
    BY <1>0, <1>1, <1>2, <1>6, <1>7, <2>1, NotRunning, IdleProc, CowAssumption
  <2>2. CASE k # c /\ k # p
    <3>1. Child(k) # None => status'[Child(k)] = status[Child(k)] /\ handler'[Child(k)] = handler[Child(k)]
      BY <1>7, <1>10, <1>11
    <3>2. Child(k) # None => \A q \in Proc \ {k} : Child(q)' = Child(k) => Child(q) = Child(k)
      BY <1>11, <1>12
    <3>. QED
      BY <1>2, <1>6, <1>7, <2>2, <3>1, <3>2, OtherProc
  <2>3. CASE k = p
    <3>1. FaultOK(p)' /\ ForkOK(p)'
      BY <1>0, <1>2, <1>4, <1>6, <1>7, <1>9 DEF FaultOK, ForkOK, CowPcs, SecondPcs
    <3>2. ASSUME c # None, NEW q \in Proc \ {p}, Eff(q)' \in ChildPcs, loc'[q].child = c PROVE FALSE
      BY <1>6, <1>11, <1>12, <3>2 DEF Child
    <3>3. ChildOK(p)'
      BY <1>4, <1>6, <1>7, <1>9, <3>2 DEF ChildOK
    <3>. QED
      BY <1>0, <1>7, <2>3, <3>1, <3>3 DEF ProcOK
  <2>. QED
    BY <2>1, <2>2, <2>3
<1>14. (\A q \in Proc, v \in Va : PageOK(q, v)') /\ (\A q, r \in Proc, v \in Va : ShareOK(q, r, v)')
  <2>1. \A q \in Proc, v \in Va : pt[q][v] # None =>
          /\ status'[q] # "free" /\ "table" \in aux'[q]
          /\ status'[q] = "runnable" /\ ~pt[q][v].perm.d => handler'[q]
    <3>1. \A q \in Proc, v \in Va : pt[q][v] # None => q # c
      BY <1>1, CowAssumption DEF CowInv, PageOK
    <3>. QED
      BY <1>7, <3>1 DEF CowInv, PageOK
  <2>2. \A q \in Proc :
          \/ ucow'[q] = None
          \/ ucow'[q] = ucow[q] /\ (loc[q].pc = "unmap" => loc'[q] = loc[q])
    BY <1>2, <1>6
  <2>3. \A q \in Proc : Eff(q) \in SecondPcs =>
          Eff(q)' \in SecondPcs /\ loc'[q].child = loc[q].child /\ loc'[q].i = loc[q].i
    BY <1>6, <1>9, <1>12 DEF SecondPcs
  <2>. QED
    BY <1>2, <2>1, <2>2, <2>3, SamePt
<1>. QED
  BY <1>0, <1>2, <1>8, <1>13, <1>14 DEF CowInv

\* The loop passes over a page that is not mapped.
LEMMA ForkSkipCow ==
  ASSUME CowInv, NEW p \in Proc, At(p, "call"), loc[p].i <= Len(Order),
         loc' = [loc EXCEPT ![p].i = loc[p].i + 1],
         UNCHANGED <<status, memory, handler, kern, ops>>
  PROVE  CowInv'
<1>1. /\ Running(p) /\ loc[p].pc = "call"
      /\ UNCHANGED <<status, pt, ucow, aux, content, handler, kern, ops>>
  BY DEF At, memory
<1>0. TypeOK /\ status[p] = "runnable" /\ FaultOK(p) /\ ForkOK(p) /\ kern = "up"
  BY <1>1, RunningOK
<1>. DEFINE l == [loc[p] EXCEPT !.i = loc[p].i + 1]
<1>2. l \in Local /\ loc[p] \in Local
  <2>1. loc[p].i + 1 \in 1..(Len(Order) + 1)
    BY <1>0, LocTypes, OrderTypes
  <2>. QED
    BY <1>0, <2>1, LocTypes, LocalFields
<1>3. l.pc = "call" /\ l.child = loc[p].child
  BY <1>1, <1>2 DEF Local
<1>. HIDE DEF l
<1>4. loc' \in [Proc -> Local] /\ loc'[p] = l /\ \A k \in Proc : k # p => loc'[k] = loc[k]
  BY <1>0, <1>2 DEF TypeOK, l
<1>5. TypeOK'
  BY <1>0, <1>1, <1>4 DEF TypeOK
<1>6. ucow[p] = None /\ Eff(p) = "call" /\ Eff(p)' = "call" /\ Child(p)' = Child(p)
  BY <1>0, <1>1, <1>3, <1>4 DEF FaultOK, Eff, CowPcs, Child
<1>7. FaultOK(p)' /\ ForkOK(p)'
  BY <1>0, <1>1, <1>3, <1>4, <1>6 DEF FaultOK, ForkOK, CowPcs, SecondPcs
<1>. QED
  BY <1>0, <1>1, <1>4, <1>5, <1>6, <1>7, KeepPt DEF SecondPcs

LEMMA Calls ==
  /\ Stack \in Va /\ Frame \in Val
  /\ \A pc \in {"dup", "map", "handler"} : pc \in Pcs
  BY OrderTypes, CowAssumption DEF Pcs

LEMMA ForkLoopCow ==
  ASSUME CowInv, NEW p \in Proc, fork_loop(p)
  PROVE  CowInv'
<1>1. At(p, "call") /\ Running(p) /\ loc[p].pc = "call"
  BY DEF fork_loop, At
<1>2. CASE loc' = [loc EXCEPT ![p].i = loc[p].i + 1] /\ loc[p].i <= Len(Order)
           /\ UNCHANGED <<status, memory, handler, kern, ops>>
  BY <1>1, <1>2, ForkSkipCow
<1>3. CASE loc[p].i <= Len(Order) /\ pt[p][Order[loc[p].i]] # None /\ Call(p, "dup")
  BY <1>1, <1>3, StoreCow, Calls DEF Call
<1>4. CASE Call(p, "handler")
  BY <1>1, <1>4, StoreCow, Calls DEF Call
<1>. QED
  BY <1>2, <1>3, <1>4 DEF fork_loop

LEMMA Lists ==
  ASSUME NEW a, NEW b
  PROVE  /\ Head(<<a, b>>) = a /\ Tail(<<a, b>>) = <<b>> /\ <<b>> # <<>>
         /\ Head(<<a>>) = a /\ Tail(<<a>>) = <<>>
  OBVIOUS

\* duppage between its two calls.
LEMMA DupLocAgain ==
  ASSUME TypeOK, NEW p \in Proc, NEW m \in Perm, NEW t \in Proc,
         loc' = [loc EXCEPT ![p] = [@ EXCEPT !.pc = "again", !.perm = m, !.targets = <<t>>]]
  PROVE  /\ loc' \in [Proc -> Local] /\ \A k \in Proc : k # p => loc'[k] = loc[k]
         /\ loc'[p].pc = "again" /\ loc'[p].i = loc[p].i /\ loc'[p].child = loc[p].child
         /\ loc'[p].perm = m /\ loc'[p].targets = <<t>>
         /\ Eff(p)' = "again"
<1>. DEFINE l == [loc[p] EXCEPT !.pc = "again", !.perm = m, !.targets = <<t>>]
<1>1. loc[p] \in Local /\ "again" \in Pcs
  BY LocTypes DEF Pcs
<1>2. <<t>> \in {<<>>} \union {<<x>> : x \in Proc \union {None}}
  OBVIOUS
<1>3. \A k \in Local, pc \in Pcs, x \in {<<>>} \union {<<y>> : y \in Proc \union {None}} :
        [k EXCEPT !.pc = pc, !.perm = m, !.targets = x] \in Local
  BY DEF Local
<1>4. l \in Local
  BY <1>1, <1>2, <1>3
<1>5. /\ l.pc = "again" /\ l.i = loc[p].i /\ l.child = loc[p].child
      /\ l.perm = m /\ l.targets = <<t>>
  BY <1>1 DEF Local
<1>. HIDE DEF l
<1>6. loc' \in [Proc -> Local] /\ loc'[p] = l /\ \A k \in Proc : k # p => loc'[k] = loc[k]
  BY <1>4 DEF TypeOK, l
<1>. QED
  BY <1>5, <1>6 DEF Eff, CowPcs

\* duppage has returned.
LEMMA DupLocNext ==
  ASSUME TypeOK, NEW p \in Proc, loc[p].i <= Len(Order),
         loc' = [loc EXCEPT ![p] = [@ EXCEPT !.pc = "call", !.i = loc[p].i + 1, !.targets = <<>>,
                                             !.perm = IdleLocal.perm]]
  PROVE  /\ loc' \in [Proc -> Local] /\ \A k \in Proc : k # p => loc'[k] = loc[k]
         /\ loc'[p].pc = "call" /\ loc'[p].i = loc[p].i + 1 /\ loc'[p].child = loc[p].child
         /\ Eff(p)' = "call"
<1>. DEFINE l == [loc[p] EXCEPT !.pc = "call", !.i = loc[p].i + 1, !.targets = <<>>,
                                !.perm = IdleLocal.perm]
<1>1. loc[p] \in Local /\ "call" \in Pcs
  BY LocTypes DEF Pcs
<1>2. loc[p].i + 1 \in 1..(Len(Order) + 1)
  BY LocTypes, OrderTypes
<1>3. IdleLocal.perm \in Perm
  BY IdleType DEF Local
<1>4. \A k \in Local, pc \in Pcs, i \in 1..(Len(Order) + 1), m \in Perm :
        [k EXCEPT !.pc = pc, !.i = i, !.targets = <<>>, !.perm = m] \in Local
  BY DEF Local
<1>6. l \in Local
  BY <1>1, <1>2, <1>3, <1>4
<1>7. l.pc = "call" /\ l.i = loc[p].i + 1 /\ l.child = loc[p].child
  BY <1>1 DEF Local
<1>. HIDE DEF l
<1>8. loc' \in [Proc -> Local] /\ loc'[p] = l /\ \A k \in Proc : k # p => loc'[k] = loc[k]
  BY <1>6 DEF TypeOK, l
<1>. QED
  BY <1>7, <1>8 DEF Eff, CowPcs

\* What duppage knows when it makes a call of sys_mem_map.
LEMMA DupAt ==
  ASSUME CowInv, NEW p \in Proc, Running(p), loc[p].pc \in {"dup", "map"}
  PROVE  /\ loc[p].i <= Len(Order) /\ Order[loc[p].i] \in Va /\ pt[p][Order[loc[p].i]] # None
         /\ ucow[p] = None /\ Eff(p) = loc[p].pc /\ Child(p) = loc[p].child /\ handler[p]
         /\ \A r \in Proc : ucow[r] # pt[p][Order[loc[p].i]].pp
<1>0. TypeOK /\ FaultOK(p) /\ ForkOK(p)
  BY RunningOK
<1>1. Eff(p) = loc[p].pc /\ Child(p) = loc[p].child /\ ucow[p] = None
  BY <1>0 DEF Eff, Child, CowPcs, ChildPcs, FaultOK
<1>2. loc[p].i <= Len(Order) /\ pt[p][Order[loc[p].i]] # None /\ handler[p]
  BY <1>0, <1>1 DEF ForkOK, SecondPcs
<1>3. Order[loc[p].i] \in Va
  BY <1>0, <1>2, ForkPage
<1>4. \A r \in Proc : ucow[r] # pt[p][Order[loc[p].i]].pp
  BY <1>2, <1>3 DEF CowInv, PageOK
<1>. QED
  BY <1>1, <1>2, <1>3, <1>4

\* What both calls of duppage do to fork itself.
LEMMA DupSelf ==
  ASSUME CowInv, NEW p \in Proc, Running(p), loc[p].pc \in {"dup", "map"},
         UNCHANGED <<status, ucow, handler>>, \A k \in Proc : k # p => loc'[k] = loc[k],
         loc'[p].child = loc[p].child,
         \A k \in Proc : k # p => pt'[k] = pt[k] \/ status[k] # "runnable",
         \/ loc'[p].pc = "call"
         \/ /\ loc'[p].pc = "again" /\ loc'[p].i = loc[p].i /\ loc'[p].targets = <<p>>
            /\ pt'[p] = pt[p]
            /\ pt[p][Order[loc[p].i]].perm.d /\ ~pt[p][Order[loc[p].i]].perm.lib
            /\ ~loc'[p].perm.d /\ loc'[p].perm.cow /\ ~loc'[p].perm.lib
  PROVE  \A k \in Proc : ProcOK(k)'
<1>0. TypeOK /\ status[p] = "runnable" /\ FaultOK(p) /\ ForkOK(p)
  BY RunningOK
<1>1. /\ loc[p].i <= Len(Order) /\ pt[p][Order[loc[p].i]] # None
      /\ ucow[p] = None /\ Child(p) = loc[p].child /\ handler[p]
  BY DupAt
<1>2. Eff(p)' = loc'[p].pc /\ Child(p)' = Child(p)
  BY <1>1 DEF Eff, Child, CowPcs, ChildPcs
<1>3. FaultOK(p)'
  BY <1>1 DEF FaultOK, CowPcs
<1>4. ForkOK(p)'
  BY <1>1, <1>2 DEF ForkOK, SecondPcs
<1>. QED
  BY <1>0, <1>2, <1>3, <1>4, StepProcs

\* What sys_mem_map does to the page tables.
PtSet(t, v, g, m) ==
  /\ pt' \in [Proc -> [Va -> [pp : Page, perm : Perm] \union {None}]]
  /\ \A k \in Proc : k # t => pt'[k] = pt[k]
  /\ \A k \in Proc, w \in Va : k # t \/ w # v => pt'[k][w] = pt[k][w]
  /\ pt'[t][v] # None /\ pt'[t][v].pp = g /\ pt'[t][v].perm = m
  /\ aux' \in [Proc -> SUBSET {"dir", "table", "xstack"}]
  /\ \A q \in Proc : "table" \in aux[q] \/ q = t => "table" \in aux'[q]

LEMMA PtUpdate ==
  ASSUME TypeOK, NEW t \in Proc, NEW v \in Va, NEW g \in Page, NEW m \in Perm,
         pt' = [pt EXCEPT ![t][v] = [pp |-> g, perm |-> m]],
         aux' = [aux EXCEPT ![t] = @ \union {"table"}]
  PROVE  PtSet(t, v, g, m)
<1>. DEFINE T == [pp : Page, perm : Perm] \union {None}
            x == [pp |-> g, perm |-> m]
<1>1. x \in T /\ pt \in [Proc -> [Va -> T]] /\ pt' = [pt EXCEPT ![t][v] = x]
  BY DEF TypeOK
<1>2. x # None
  BY CowAssumption
<1>3. x.pp = g /\ x.perm = m
  OBVIOUS
<1>. HIDE DEF T, x
<1>4. pt' \in [Proc -> [Va -> T]]
  BY <1>1
<1>5. /\ \A k \in Proc : k # t => pt'[k] = pt[k]
      /\ \A k \in Proc, w \in Va : k # t \/ w # v => pt'[k][w] = pt[k][w]
      /\ pt'[t][v] = x
  BY <1>1
<1>6. /\ aux' \in [Proc -> SUBSET {"dir", "table", "xstack"}]
      /\ \A q \in Proc : "table" \in aux[q] \/ q = t => "table" \in aux'[q]
  BY DEF TypeOK
<1>. QED
  BY <1>2, <1>3, <1>4, <1>5, <1>6 DEF T, PtSet

\* The call for the child.
LEMMA DupChildCow ==
  ASSUME CowInv, NEW p \in Proc, Running(p), loc[p].pc = "dup", NEW c \in Proc, loc[p].child = c,
         NEW v \in Va, v = Order[loc[p].i], NEW m \in Perm,
         m.lib = pt[p][v].perm.lib, ~m.d => m.cow, m.cow => ~m.lib, m.d => m.lib,
         PtSet(c, v, pt[p][v].pp, m),
         loc' \in [Proc -> Local], \A k \in Proc : k # p => loc'[k] = loc[k],
         loc'[p].child = loc[p].child,
         \/ loc'[p].pc = "call" /\ ~(pt[p][v].perm.d /\ ~pt[p][v].perm.lib)
         \/ /\ loc'[p].pc = "again" /\ loc'[p].i = loc[p].i /\ loc'[p].targets = <<p>>
            /\ pt[p][v].perm.d /\ ~pt[p][v].perm.lib
            /\ ~loc'[p].perm.d /\ loc'[p].perm.cow /\ ~loc'[p].perm.lib,
         UNCHANGED <<status, ucow, content, handler, kern, ops>>
  PROVE  CowInv'
<1>0. TypeOK /\ status[p] = "runnable" /\ kern = "up"
  BY RunningOK
<1>. DEFINE g == pt[p][v].pp
<1>1. /\ pt[p][v] # None /\ ucow[p] = None /\ Eff(p) = "dup" /\ Child(p) = c
      /\ \A r \in Proc : ucow[r] # g
  BY DupAt
<1>2. status[c] = "not_runnable" /\ c # p /\ c # None
  <2>1. c # None
    BY CowAssumption
  <2>2. ChildOK(p)
    BY DEF CowInv, ProcOK
  <2>3. status[c] = "not_runnable"
    BY <1>1, <2>1, <2>2 DEF ChildPcs, ChildOK
  <2>. QED
    BY <1>0, <2>1, <2>3
<1>3. g \in Page /\ g[2] = v /\ (pt[p][v].perm.lib => v \in Lib)
  <2>1. PageOK(p, v)
    BY DEF CowInv
  <2>2. g \in Page
    BY <1>0, <1>1, PtTypes
  <2>. QED
    BY <1>1, <2>1, <2>2 DEF PageOK
<1>. HIDE DEF g
<1>4. /\ pt' \in [Proc -> [Va -> [pp : Page, perm : Perm] \union {None}]]
      /\ \A k \in Proc : k # c => pt'[k] = pt[k]
      /\ \A k \in Proc, w \in Va : k # c \/ w # v => pt'[k][w] = pt[k][w]
      /\ pt'[c][v] # None /\ pt'[c][v].pp = g /\ pt'[c][v].perm = m
  BY DEF PtSet, g
<1>5. /\ aux' \in [Proc -> SUBSET {"dir", "table", "xstack"}]
      /\ \A q \in Proc : "table" \in aux[q] \/ q = c => "table" \in aux'[q]
  BY DEF PtSet
<1>6. TypeOK'
  BY <1>0, <1>4, <1>5 DEF TypeOK
<1>7. \A k \in Proc : ProcOK(k)'
  BY <1>2, <1>4, DupSelf
<1>8. ASSUME NEW q \in Proc, NEW w \in Va PROVE PageOK(q, w)'
  <2>0. PageOK(q, w)
    BY DEF CowInv
  <2>1. CASE q = c /\ w = v
    BY <1>1, <1>2, <1>3, <1>4, <1>5, <2>1 DEF PageOK
  <2>2. CASE ~(q = c /\ w = v)
    <3>1. pt'[q][w] = pt[q][w]
      BY <1>4, <2>2
    <3>2. \A r \in Proc : pt[q][w] # None /\ ucow[r] = pt[q][w].pp => r # p
      <4>1. pt[q][w] # None => pt[q][w].pp \in Page
        BY <1>0, PtTypes
      <4>. QED
        BY <1>1, <4>1, CowAssumption
    <3>. QED
      BY <1>5, <2>0, <3>1, <3>2, ZenonT(60) DEF PageOK
  <2>. QED
    BY <2>1, <2>2
<1>9. ASSUME NEW q \in Proc, NEW r \in Proc, NEW w \in Va PROVE ShareOK(q, r, w)'
  <2>. SUFFICES ASSUME q # r, Share(q, r, w)'
                PROVE  /\ pt'[q][w].perm.lib = pt'[r][w].perm.lib
                       /\ pt'[q][w].perm.d /\ ~pt'[q][w].perm.lib =>
                            Eff(q)' \in SecondPcs /\ loc'[q].child = r /\ Order[loc'[q].i] = w
    BY DEF ShareOK
  <2>0. ShareOK(q, r, w) /\ ShareOK(p, r, w) /\ ShareOK(q, p, w)
    BY DEF CowInv
  <2>1. CASE ~(w = v /\ (q = c \/ r = c))
    <3>0. (q # c \/ w # v) /\ (r # c \/ w # v)
      BY <2>1
    <3>1. pt'[q][w] = pt[q][w] /\ pt'[r][w] = pt[r][w]
      BY <1>4, <3>0, ZenonT(60)
    <3>2. Share(q, r, w)
      BY <3>1 DEF Share
    <3>3. q # p => Eff(q)' = Eff(q) /\ loc'[q] = loc[q]
      BY DEF Eff
    <3>4. Eff(p) \notin SecondPcs
      BY <1>1 DEF SecondPcs
    <3>. QED
      BY <2>0, <3>1, <3>2, <3>3, <3>4 DEF ShareOK
  <2>2. CASE w = v /\ q = c
    <3>1. pt'[r][v] = pt[r][v] /\ pt[r][v] # None /\ pt[r][v].pp = g
      BY <1>4, <2>2 DEF Share
    <3>2. r # p => Share(p, r, v)
      BY <1>1, <3>1 DEF Share, g
    <3>3. pt[r][v].perm.lib = pt[p][v].perm.lib
      BY <2>0, <2>2, <3>2 DEF ShareOK
    <3>. QED
      BY <1>4, <2>2, <3>1, <3>3
  <2>3. CASE w = v /\ r = c
    <3>1. pt'[q][v] = pt[q][v] /\ pt[q][v] # None /\ pt[q][v].pp = g
      BY <1>4, <2>3 DEF Share
    <3>2. CASE q = p
      <4>1. pt[p][v].perm.d /\ ~pt[p][v].perm.lib => Eff(p)' = "again" /\ loc'[p].i = loc[p].i
        BY DEF Eff, CowPcs
      <4>. QED
        BY <1>4, <2>3, <3>1, <3>2, <4>1 DEF SecondPcs
    <3>3. CASE q # p
      <4>1. Share(q, p, v)
        BY <1>1, <3>1 DEF Share, g
      <4>2. pt[q][v].perm.lib = pt[p][v].perm.lib
        BY <2>0, <2>3, <3>3, <4>1 DEF ShareOK
      <4>3. ASSUME pt[q][v].perm.d, ~pt[q][v].perm.lib PROVE FALSE
        <5>1. Eff(q) \in SecondPcs /\ loc[q].child = p
          BY <2>0, <2>3, <3>3, <4>1, <4>3 DEF ShareOK
        <5>2. p # None
          BY CowAssumption
        <5>3. status[p] = "not_runnable"
          BY <5>1, <5>2 DEF CowInv, ProcOK, ChildOK, SecondPcs, ChildPcs
        <5>. QED
          BY <1>0, <5>3
      <4>. QED
        BY <1>4, <2>3, <3>1, <4>2, <4>3
    <3>. QED
      BY <3>2, <3>3
  <2>. QED
    BY <2>1, <2>2, <2>3
<1>. QED
  BY <1>0, <1>6, <1>7, <1>8, <1>9 DEF CowInv

\* The call for the parent itself, which gives up PTE_D.
LEMMA DupParentCow ==
  ASSUME CowInv, NEW p \in Proc, Running(p), loc[p].pc = "map",
         NEW v \in Va, v = Order[loc[p].i],
         PtSet(p, v, pt[p][v].pp, loc[p].perm),
         loc' \in [Proc -> Local], \A k \in Proc : k # p => loc'[k] = loc[k],
         loc'[p].child = loc[p].child, loc'[p].pc = "call",
         UNCHANGED <<status, ucow, content, handler, kern, ops>>
  PROVE  CowInv'
<1>0. TypeOK /\ status[p] = "runnable" /\ kern = "up" /\ ForkOK(p)
  BY RunningOK
<1>. DEFINE g == pt[p][v].pp
            m == loc[p].perm
<1>1. /\ pt[p][v] # None /\ ucow[p] = None /\ Eff(p) = "map" /\ handler[p]
      /\ \A r \in Proc : ucow[r] # g
  BY DupAt
<1>2. ~m.d /\ m.cow /\ ~m.lib /\ pt[p][v].perm.d /\ ~pt[p][v].perm.lib /\ m \in Perm
  BY <1>0, <1>1, LocTypes DEF ForkOK, SecondPcs
<1>3. g \in Page /\ g[2] = v
  <2>1. PageOK(p, v)
    BY DEF CowInv
  <2>2. g \in Page
    BY <1>0, <1>1, PtTypes
  <2>. QED
    BY <1>1, <2>1, <2>2 DEF PageOK
<1>. HIDE DEF g, m
<1>4. /\ pt' \in [Proc -> [Va -> [pp : Page, perm : Perm] \union {None}]]
      /\ \A k \in Proc : k # p => pt'[k] = pt[k]
      /\ \A k \in Proc, w \in Va : k # p \/ w # v => pt'[k][w] = pt[k][w]
      /\ pt'[p][v] # None /\ pt'[p][v].pp = g /\ pt'[p][v].perm = m
  BY DEF PtSet, g, m
<1>5. /\ aux' \in [Proc -> SUBSET {"dir", "table", "xstack"}]
      /\ \A q \in Proc : "table" \in aux[q] \/ q = p => "table" \in aux'[q]
  BY DEF PtSet
<1>6. TypeOK'
  BY <1>0, <1>4, <1>5 DEF TypeOK
<1>7. \A k \in Proc : ProcOK(k)'
  BY <1>4, DupSelf
<1>8. ASSUME NEW q \in Proc, NEW w \in Va PROVE PageOK(q, w)'
  <2>0. PageOK(q, w)
    BY DEF CowInv
  <2>1. CASE q = p /\ w = v
    BY <1>0, <1>1, <1>2, <1>3, <1>4, <1>5, <2>1 DEF PageOK
  <2>2. CASE ~(q = p /\ w = v)
    <3>1. pt'[q][w] = pt[q][w]
      BY <1>4, <2>2
    <3>2. \A r \in Proc : pt[q][w] # None /\ ucow[r] = pt[q][w].pp => r # p
      <4>1. pt[q][w] # None => pt[q][w].pp \in Page
        BY <1>0, PtTypes
      <4>. QED
        BY <1>1, <4>1, CowAssumption
    <3>. QED
      BY <1>5, <2>0, <3>1, <3>2, ZenonT(60) DEF PageOK
  <2>. QED
    BY <2>1, <2>2
<1>9. ASSUME NEW q \in Proc, NEW r \in Proc, NEW w \in Va, q # r, Share(q, r, w)'
      PROVE  /\ pt'[q][w].perm.lib = pt'[r][w].perm.lib
             /\ pt'[q][w].perm.d /\ ~pt'[q][w].perm.lib =>
                  Eff(q)' \in SecondPcs /\ loc'[q].child = r /\ Order[loc'[q].i] = w
  <2>1. \A k \in Proc, x \in Va :
          /\ (pt'[k][x] = None <=> pt[k][x] = None)
          /\ pt[k][x] # None => /\ pt'[k][x].pp = pt[k][x].pp
                                /\ pt'[k][x].perm.lib = pt[k][x].perm.lib
    <3>1. pt'[p][v].perm.lib = FALSE /\ pt[p][v].perm.lib = FALSE
      <4>1. m.lib \in BOOLEAN /\ pt[p][v].perm.lib \in BOOLEAN
        BY <1>0, <1>1, <1>2, PtTypes DEF Perm
      <4>. QED
        BY <1>2, <1>4, <4>1
    <3>. QED
      BY <1>1, <1>4, <3>1, ZenonT(60) DEF g
  <2>2. Share(q, r, w) /\ ShareOK(q, r, w)
    BY <1>9, <2>1 DEF Share, CowInv
  <2>3. pt'[q][w].perm.lib = pt'[r][w].perm.lib
    BY <1>9, <2>1, <2>2 DEF ShareOK, Share
  <2>4. CASE q = p
    <3>1. w = v => ~pt'[q][w].perm.d
      BY <1>2, <1>4, <2>4
    <3>2. w # v => pt'[q][w] = pt[q][w]
      BY <1>4, <2>4
    <3>3. pt[q][w].perm.d /\ ~pt[q][w].perm.lib => w = v
      BY <1>9, <2>2, <2>4 DEF ShareOK
    <3>. QED
      BY <2>3, <3>1, <3>2, <3>3
  <2>5. CASE q # p
    <3>1. pt'[q] = pt[q] /\ loc'[q] = loc[q] /\ Eff(q)' = Eff(q)
      BY <1>4, <2>5 DEF Eff
    <3>. QED
      BY <1>9, <2>2, <2>3, <3>1 DEF ShareOK
  <2>. QED
    BY <2>4, <2>5
<1>10. ASSUME NEW q \in Proc, NEW r \in Proc, NEW w \in Va PROVE ShareOK(q, r, w)'
  BY <1>9 DEF ShareOK
<1>. QED
  BY <1>0, <1>6, <1>7, <1>8, <1>10 DEF CowInv

\* The call for the child fails.
LEMMA DupNoneCow ==
  ASSUME CowInv, NEW p \in Proc, Running(p), loc[p].pc = "dup",
         loc' \in [Proc -> Local], \A k \in Proc : k # p => loc'[k] = loc[k],
         loc'[p].child = loc[p].child, Eff(p)' \in {"call", "again"},
         \/ loc'[p].pc = "call"
         \/ /\ loc'[p].pc = "again" /\ loc'[p].i = loc[p].i /\ loc'[p].targets = <<p>>
            /\ pt[p][Order[loc[p].i]].perm.d /\ ~pt[p][Order[loc[p].i]].perm.lib
            /\ ~loc'[p].perm.d /\ loc'[p].perm.cow /\ ~loc'[p].perm.lib,
         UNCHANGED <<status, pt, ucow, aux, content, handler, kern, ops>>
  PROVE  CowInv'
<1>0. TypeOK /\ status[p] = "runnable" /\ kern = "up"
  BY RunningOK
<1>1. ucow[p] = None /\ Eff(p) = "dup" /\ Child(p) = loc[p].child
  BY DupAt
<1>2. TypeOK'
  BY <1>0 DEF TypeOK
<1>3. \A k \in Proc : ProcOK(k)'
  BY DupSelf
<1>4. FaultOK(p)' /\ ForkOK(p)'
  BY <1>3 DEF ProcOK
<1>5. Child(p)' = Child(p) /\ Eff(p)' # "status" /\ Eff(p) \notin SecondPcs
  BY <1>1 DEF Child, ChildPcs, SecondPcs
<1>6. kern' # "no_handler" /\ ucow'[p] = None
  BY <1>0, <1>1
<1>7. \A k \in Proc : k # p => loc'[k] = loc[k] /\ ucow'[k] = ucow[k]
  OBVIOUS
<1>8. \A k \in Proc : aux[k] \subseteq aux'[k] /\ (handler[k] => handler'[k])
  OBVIOUS
<1>. QED
  BY <1>0, <1>2, <1>4, <1>5, <1>6, <1>7, <1>8, KeepPt

\* The two outcomes of a call of sys_mem_map.
MapFails(t) ==
  UNCHANGED <<pt, aux>> /\ (t = None \/ ("table" \notin aux[t] /\ ~(NFree > 0)))

MapDone(p, t, m) ==
  LET v == Order[loc[p].i]
  IN  /\ t # None
      /\ pt' = [pt EXCEPT ![t][v] = [pp |-> pt[p][v].pp, perm |-> m]]
      /\ aux' = [aux EXCEPT ![t] = @ \union {"table"}]

\* duppage_map with one and with two calls to make.
LEMMA DupMapOne ==
  ASSUME NEW p, NEW m, NEW t, duppage_map(p, m, <<t>>)
  PROVE  /\ loc' = [loc EXCEPT ![p] = [@ EXCEPT !.pc = "call", !.i = loc[p].i + 1, !.targets = <<>>,
                                                !.perm = IdleLocal.perm]]
         /\ UNCHANGED <<status, ucow, content, handler, kern, ops>>
         /\ MapFails(t) \/ MapDone(p, t, m)
<1>1. Head(<<t>>) = t /\ Tail(<<t>>) = <<>>
  BY Lists
<1>. QED
  BY <1>1, Zenon DEF duppage_map, MapFails, MapDone

LEMMA DupMapTwo ==
  ASSUME NEW p, NEW m, NEW t, NEW u, duppage_map(p, m, <<t, u>>)
  PROVE  /\ loc' = [loc EXCEPT ![p] = [@ EXCEPT !.pc = "again", !.perm = m, !.targets = <<u>>]]
         /\ UNCHANGED <<status, ucow, content, handler, kern, ops>>
         /\ MapFails(t) \/ MapDone(p, t, m)
<1>1. Head(<<t, u>>) = t /\ Tail(<<t, u>>) = <<u>> /\ <<u>> # <<>>
  BY Lists
<1>. QED
  BY <1>1, Zenon DEF duppage_map, MapFails, MapDone

\* The permission that duppage passes on.
LEMMA DupPermOK ==
  ASSUME NEW n \in Perm, ~n.d => n.cow, n.cow => ~n.lib, NEW m, m = DupPerm(n, Remap(n))
  PROVE  /\ m \in Perm /\ m.lib = n.lib
         /\ ~m.d => m.cow
         /\ m.cow => ~m.lib
         /\ m.d => m.lib
         /\ Remap(n) => ~m.d /\ m.cow /\ ~m.lib
<1>1. CASE Remap(n)
  <2>1. m = [n EXCEPT !.d = FALSE, !.cow = TRUE]
    BY <1>1 DEF DupPerm
  <2>2. m \in Perm /\ ~m.d /\ m.cow /\ m.lib = n.lib
    <3>. DEFINE e == [n EXCEPT !.d = FALSE, !.cow = TRUE]
    <3>1. e \in Perm /\ ~e.d /\ e.cow /\ e.lib = n.lib
      BY PermFields
    <3>. HIDE DEF e
    <3>. QED
      BY <2>1, <3>1 DEF e
  <2>. QED
    BY <1>1, <2>2 DEF Remap
<1>2. CASE ~Remap(n)
  <2>1. m = n
    BY <1>2 DEF DupPerm
  <2>. QED
    BY <1>2, <2>1 DEF Remap
<1>. QED
  BY <1>1, <1>2

\* The first call of duppage.
LEMMA DupFirstCow ==
  ASSUME CowInv, NEW p \in Proc, At(p, "dup"), NEW n, n = pt[p][Order[loc[p].i]].perm,
         duppage_map(p, DupPerm(n, Remap(n)), DupTargets(loc[p].child, p, Remap(n)))
  PROVE  CowInv'
<1>. DEFINE v == Order[loc[p].i]
            c == loc[p].child
            m == DupPerm(n, Remap(n))
            g == pt[p][v].pp
<1>1. Running(p) /\ loc[p].pc = "dup"
  BY DEF At
<1>0. TypeOK
  BY <1>1, RunningOK
<1>2. loc[p].i <= Len(Order) /\ v \in Va /\ pt[p][v] # None
  BY <1>1, DupAt
<1>3. n \in Perm /\ g \in Page /\ c \in Proc \union {None}
  BY <1>0, <1>2, PtTypes, LocTypes
<1>4. (~n.d => n.cow) /\ (n.cow => ~n.lib)
  <2>1. PageOK(p, v)
    BY <1>2 DEF CowInv
  <2>. QED
    BY <1>2, <2>1 DEF PageOK
<1>5. /\ m \in Perm /\ m.lib = n.lib /\ (~m.d => m.cow) /\ (m.cow => ~m.lib) /\ (m.d => m.lib)
      /\ Remap(n) => ~m.d /\ m.cow /\ ~m.lib
  BY <1>3, <1>4, DupPermOK
<1>6. CASE Remap(n)
  <2>1. duppage_map(p, m, <<c, p>>)
    BY <1>6 DEF DupTargets
  <2>2. /\ loc' = [loc EXCEPT ![p] = [@ EXCEPT !.pc = "again", !.perm = m, !.targets = <<p>>]]
        /\ UNCHANGED <<status, ucow, content, handler, kern, ops>>
        /\ MapFails(c) \/ MapDone(p, c, m)
    <3>. HIDE DEF m
    <3>. QED
      BY <2>1, DupMapTwo
  <2>. HIDE DEF m
  <2>3. /\ loc' \in [Proc -> Local] /\ \A k \in Proc : k # p => loc'[k] = loc[k]
        /\ loc'[p].pc = "again" /\ loc'[p].i = loc[p].i /\ loc'[p].child = loc[p].child
        /\ loc'[p].perm = m /\ loc'[p].targets = <<p>>
        /\ Eff(p)' = "again"
    BY <1>0, <1>5, <2>2, DupLocAgain
  <2>4. n.d /\ ~n.lib /\ ~m.d /\ m.cow /\ ~m.lib
    BY <1>5, <1>6 DEF Remap
  <2>5. CASE MapFails(c)
    BY <1>1, <2>2, <2>3, <2>4, <2>5, DupNoneCow DEF MapFails
  <2>6. CASE MapDone(p, c, m)
    <3>1. c \in Proc
      BY <1>3, <2>6 DEF MapDone
    <3>2. PtSet(c, v, g, m)
      BY <1>0, <1>2, <1>3, <1>5, <2>6, <3>1, PtUpdate DEF MapDone
    <3>. QED
      <4>1. /\ loc'[p].pc = "again" /\ loc'[p].i = loc[p].i /\ loc'[p].targets = <<p>>
            /\ pt[p][v].perm.d /\ ~pt[p][v].perm.lib
            /\ ~loc'[p].perm.d /\ loc'[p].perm.cow /\ ~loc'[p].perm.lib
        BY <2>3, <2>4
      <4>2. m.lib = pt[p][v].perm.lib /\ loc'[p].child = loc[p].child
        BY <1>5, <2>3
      <4>. HIDE DEF v, c, g
      <4>. QED
        BY <1>1, <1>2, <1>5, <2>2, <2>3, <3>1, <3>2, <4>1, <4>2, DupChildCow DEF v, c, g
  <2>. QED
    BY <2>2, <2>5, <2>6
<1>7. CASE ~Remap(n)
  <2>1. duppage_map(p, m, <<c>>)
    BY <1>7 DEF DupTargets
  <2>2. /\ loc' = [loc EXCEPT ![p] = [@ EXCEPT !.pc = "call", !.i = loc[p].i + 1, !.targets = <<>>,
                                               !.perm = IdleLocal.perm]]
        /\ UNCHANGED <<status, ucow, content, handler, kern, ops>>
        /\ MapFails(c) \/ MapDone(p, c, m)
    BY <2>1, DupMapOne
  <2>. HIDE DEF m
  <2>3. /\ loc' \in [Proc -> Local] /\ \A k \in Proc : k # p => loc'[k] = loc[k]
        /\ loc'[p].pc = "call" /\ loc'[p].child = loc[p].child /\ Eff(p)' = "call"
    BY <1>0, <1>2, <2>2, DupLocNext
  <2>4. ~(n.d /\ ~n.lib)
    BY <1>7 DEF Remap
  <2>5. CASE MapFails(c)
    BY <1>1, <2>2, <2>3, <2>5, DupNoneCow DEF MapFails
  <2>6. CASE MapDone(p, c, m)
    <3>1. c \in Proc
      BY <1>3, <2>6 DEF MapDone
    <3>2. PtSet(c, v, g, m)
      BY <1>0, <1>2, <1>3, <1>5, <2>6, <3>1, PtUpdate DEF MapDone
    <3>. QED
      BY <1>1, <1>2, <1>5, <2>2, <2>3, <2>4, <3>1, <3>2, DupChildCow, ZenonT(60)
  <2>. QED
    BY <2>2, <2>5, <2>6
<1>. QED
  BY <1>6, <1>7

\* The second call of duppage: the page table of the parent is there.
LEMMA DupSecondCow ==
  ASSUME CowInv, NEW p \in Proc, At(p, "map"), duppage_map(p, loc[p].perm, loc[p].targets)
  PROVE  CowInv'
<1>. DEFINE v == Order[loc[p].i]
<1>1. Running(p) /\ loc[p].pc = "map"
  BY DEF At
<1>0. TypeOK /\ ForkOK(p) /\ loc[p].perm \in Perm
  BY <1>1, RunningOK, LocTypes
<1>2. loc[p].i <= Len(Order) /\ v \in Va /\ pt[p][v] # None /\ Eff(p) = "map"
  BY <1>1, DupAt
<1>3. loc[p].targets = <<p>> /\ pt[p][v].pp \in Page /\ "table" \in aux[p] /\ p # None
  <2>1. PageOK(p, v)
    BY <1>2 DEF CowInv
  <2>2. "table" \in aux[p]
    BY <1>2, <2>1 DEF PageOK
  <2>3. pt[p][v].pp \in Page
    BY <1>0, <1>2, PtTypes
  <2>4. loc[p].targets = <<p>>
    BY <1>0, <1>2 DEF ForkOK, SecondPcs
  <2>. QED
    BY <2>2, <2>3, <2>4, CowAssumption
<1>4. /\ loc' = [loc EXCEPT ![p] = [@ EXCEPT !.pc = "call", !.i = loc[p].i + 1, !.targets = <<>>,
                                             !.perm = IdleLocal.perm]]
      /\ UNCHANGED <<status, ucow, content, handler, kern, ops>>
      /\ MapDone(p, p, loc[p].perm)
  <2>1. duppage_map(p, loc[p].perm, <<p>>)
    BY <1>3
  <2>. QED
    BY <1>3, <2>1, DupMapOne DEF MapFails
<1>5. PtSet(p, v, pt[p][v].pp, loc[p].perm)
  BY <1>0, <1>2, <1>3, <1>4, PtUpdate DEF MapDone
<1>6. /\ loc' \in [Proc -> Local] /\ \A k \in Proc : k # p => loc'[k] = loc[k]
      /\ loc'[p].pc = "call" /\ loc'[p].child = loc[p].child
  BY <1>0, <1>2, <1>4, DupLocNext
<1>. QED
  BY <1>1, <1>2, <1>4, <1>5, <1>6, DupParentCow

LEMMA DuppageCow ==
  ASSUME CowInv, NEW p \in Proc, duppage(p)
  PROVE  CowInv'
<1>1. CASE At(p, "dup") /\ LET n == pt[p][Order[loc[p].i]].perm
                           IN  duppage_map(p, DupPerm(n, Remap(n)), DupTargets(loc[p].child, p, Remap(n)))
  BY <1>1, DupFirstCow
<1>2. CASE At(p, "again") /\ Call(p, "map")
  <2>1. Running(p) /\ loc[p].pc = "again"
    BY <1>2 DEF At
  <2>. QED
    BY <1>2, <2>1, StoreCow, Calls DEF Call
<1>3. CASE At(p, "map") /\ duppage_map(p, loc[p].perm, loc[p].targets)
  BY <1>3, DupSecondCow
<1>. QED
  BY <1>1, <1>2, <1>3 DEF duppage

-----------------------------------------------------------------------------
(* The end of fork, and exit *)

LEMMA SetHandlerCow ==
  ASSUME CowInv, NEW p \in Proc, fork_set_handler(p)
  PROVE  CowInv'
<1>. DEFINE c == loc[p].child
            l == IF c = None THEN IdleLocal ELSE [loc[p] EXCEPT !.pc = "status"]
<1>1. /\ Running(p) /\ loc[p].pc = "handler"
      /\ UNCHANGED <<status, pt, ucow, aux, content, kern, ops>>
      /\ handler' = [q \in Proc |-> handler[q] \/ q = c] /\ loc' = [loc EXCEPT ![p] = l]
  BY DEF fork_set_handler, At, memory
<1>0. TypeOK /\ status[p] = "runnable" /\ FaultOK(p) /\ ForkOK(p) /\ kern = "up"
  BY <1>1, RunningOK
<1>2. c \in Proc \union {None} /\ loc[p] \in Local
  BY <1>0, LocTypes
<1>3. l \in Local
  BY <1>2, IdleType, LocalFields DEF Pcs
<1>4. IF c = None THEN l.pc = "user" ELSE l.pc = "status" /\ l.child = c
  BY <1>2 DEF Local, IdleLocal
<1>. HIDE DEF l, c
<1>5. loc' \in [Proc -> Local] /\ loc'[p] = l /\ \A k \in Proc : k # p => loc'[k] = loc[k]
  BY <1>0, <1>1, <1>3 DEF TypeOK
<1>6. /\ handler' \in [Proc -> BOOLEAN]
      /\ \A k \in Proc : handler[k] => handler'[k]
      /\ c # None => handler'[c]
  BY <1>0, <1>1, <1>2 DEF TypeOK
<1>7. TypeOK'
  BY <1>0, <1>1, <1>5, <1>6 DEF TypeOK
<1>8. ucow[p] = None /\ Eff(p) = "handler" /\ Child(p) = c
  BY <1>0, <1>1 DEF FaultOK, Eff, Child, CowPcs, ChildPcs, c
<1>9. Eff(p)' = l.pc /\ l.pc \in {"user", "status"} /\ loc'[p].pc = l.pc
  BY <1>4, <1>5 DEF Eff, CowPcs
<1>10. Child(p)' \in {Child(p), None}
  BY <1>4, <1>5, <1>8, <1>9 DEF Child, ChildPcs
<1>11. handler[p]
  BY <1>0, <1>8 DEF ForkOK
<1>12. FaultOK(p)'
  BY <1>1, <1>8, <1>9 DEF FaultOK, CowPcs
<1>13. ForkOK(p)'
  BY <1>6, <1>9, <1>11 DEF ForkOK, SecondPcs
<1>14. Eff(p)' = "status" => loc'[p].child # None /\ handler'[loc'[p].child]
  BY <1>4, <1>5, <1>6, <1>9
<1>15. Eff(p) \notin SecondPcs
  BY <1>8 DEF SecondPcs
<1>. QED
  BY <1>0, <1>1, <1>5, <1>6, <1>7, <1>8, <1>10, <1>12, <1>13, <1>14, <1>15, KeepPt

LEMMA SetStatusCow ==
  ASSUME CowInv, NEW p \in Proc, fork_set_status(p)
  PROVE  CowInv'
<1>. DEFINE c == loc[p].child
<1>1. /\ Running(p) /\ loc[p].pc = "status"
      /\ UNCHANGED <<pt, ucow, aux, content, handler, kern, ops>>
      /\ status' = [status EXCEPT ![c] = "runnable"] /\ loc' = [loc EXCEPT ![p] = IdleLocal]
  BY DEF fork_set_status, At, memory
<1>0. TypeOK /\ status[p] = "runnable" /\ FaultOK(p) /\ ChildOK(p) /\ kern = "up"
  BY <1>1, RunningOK
<1>2. ucow[p] = None /\ Eff(p) = "status"
  BY <1>0, <1>1 DEF FaultOK, Eff, CowPcs
<1>3. /\ c \in Proc /\ c # p /\ status[c] = "not_runnable" /\ handler[c]
      /\ \A q \in Proc \ {p} : Eff(q) \in ChildPcs => loc[q].child # c
  BY <1>0, <1>2, LocTypes DEF ChildOK, ChildPcs
<1>. HIDE DEF c
<1>4. /\ loc' \in [Proc -> Local] /\ loc'[p] = IdleLocal /\ \A k \in Proc : k # p => loc'[k] = loc[k]
      /\ status' \in [Proc -> {"free", "not_runnable", "runnable"}]
      /\ status'[c] = "runnable" /\ \A k \in Proc : k # c => status'[k] = status[k]
  BY <1>0, <1>1, <1>3, IdleType DEF TypeOK
<1>5. TypeOK'
  BY <1>0, <1>1, <1>4 DEF TypeOK
<1>6. /\ \A k \in Proc : k # p => Child(k)' = Child(k) /\ Eff(k)' = Eff(k)
      /\ Child(p)' = None /\ Child(p) = c
      /\ \A k \in Proc : Child(k) \in Proc \union {None} /\ (k # p => Child(k) # c)
  <2>1. \A k \in Proc : k # p => Child(k)' = Child(k) /\ Eff(k)' = Eff(k)
    BY <1>4 DEF Child, Eff
  <2>2. Child(p)' = None
    BY <1>4 DEF Child, Eff, IdleLocal, CowPcs, ChildPcs
  <2>3. Child(p) = c
    BY <1>2 DEF Child, ChildPcs, c
  <2>4. \A k \in Proc : Child(k) \in Proc \union {None}
    BY <1>0, LocTypes DEF Child
  <2>5. \A k \in Proc : k # p => Child(k) # c
    BY <1>3, CowAssumption DEF Child
  <2>. QED
    BY <2>1, <2>2, <2>3, <2>4, <2>5
<1>7. ASSUME NEW k \in Proc PROVE ProcOK(k)'
  <2>1. CASE k = p
    BY <1>1, <1>2, <1>4, <2>1, IdleProc
  <2>2. CASE k = c
    BY <1>1, <1>3, <1>4, <2>2, IdleProc, NotRunning
  <2>3. CASE k # p /\ k # c
    <3>1. loc'[k] = loc[k] /\ ucow'[k] = ucow[k] /\ pt'[k] = pt[k] /\ status'[k] = status[k]
      BY <1>1, <1>4, <2>3
    <3>2. Child(k) # None => status'[Child(k)] = status[Child(k)]
      BY <1>4, <1>6, <2>3
    <3>3. Child(k) # None => \A q \in Proc \ {k} : Child(q)' = Child(k) => Child(q) = Child(k)
      BY <1>6
    <3>. QED
      BY <1>1, <3>1, <3>2, <3>3, OtherProc
  <2>. QED
    BY <2>1, <2>2, <2>3
<1>8. (\A q \in Proc, v \in Va : PageOK(q, v)') /\ (\A q, r \in Proc, v \in Va : ShareOK(q, r, v)')
  <2>1. ASSUME NEW q \in Proc, NEW v \in Va, pt[q][v] # None
        PROVE  /\ status'[q] # "free" /\ "table" \in aux'[q]
               /\ status'[q] = "runnable" /\ ~pt[q][v].perm.d => handler'[q]
    <3>1. PageOK(q, v)
      BY DEF CowInv
    <3>. QED
      BY <1>1, <1>3, <1>4, <2>1, <3>1 DEF PageOK
  <2>2. \A q \in Proc : ucow'[q] = ucow[q] /\ (loc[q].pc = "unmap" => loc'[q] = loc[q])
    BY <1>1, <1>4
  <2>3. \A q \in Proc : Eff(q) \in SecondPcs =>
          Eff(q)' \in SecondPcs /\ loc'[q].child = loc[q].child /\ loc'[q].i = loc[q].i
    BY <1>2, <1>4, <1>6 DEF SecondPcs
  <2>. QED
    BY <1>1, <2>1, <2>2, <2>3, SamePt
<1>. QED
  BY <1>0, <1>1, <1>5, <1>7, <1>8 DEF CowInv

LEMMA ExitCow ==
  ASSUME CowInv, NEW p \in Proc, exit(p)
  PROVE  CowInv'
<1>1. /\ Running(p) /\ loc[p].pc \in {"user", "user_panic"}
      /\ status' = [status EXCEPT ![p] = "free"] /\ pt' = [pt EXCEPT ![p] = [v \in Va |-> None]]
      /\ ucow' = [ucow EXCEPT ![p] = None] /\ aux' = [aux EXCEPT ![p] = {}]
      /\ handler' = [handler EXCEPT ![p] = FALSE] /\ loc' = [loc EXCEPT ![p] = IdleLocal]
      /\ content' = Cleared /\ UNCHANGED <<kern, ops>>
  BY DEF exit
<1>0. TypeOK /\ status[p] = "runnable" /\ kern = "up"
  BY <1>1, RunningOK
<1>2. content' \in [Page -> Val]
  BY <1>0, <1>1, CowAssumption DEF TypeOK, Cleared
<1>3. /\ pt' \in [Proc -> [Va -> [pp : Page, perm : Perm] \union {None}]]
      /\ \A k \in Proc : k # p => pt'[k] = pt[k]
      /\ \A v \in Va : pt'[p][v] = None
  BY <1>0, <1>1 DEF TypeOK
<1>4. /\ \A k \in Proc : k # p => /\ loc'[k] = loc[k] /\ ucow'[k] = ucow[k]
                                  /\ status'[k] = status[k] /\ handler'[k] = handler[k]
                                  /\ aux'[k] = aux[k]
      /\ loc'[p] = IdleLocal /\ ucow'[p] = None
  BY <1>0, <1>1 DEF TypeOK
<1>5. TypeOK'
  BY <1>0, <1>1, <1>2, <1>3, IdleType DEF TypeOK
<1>6. ASSUME NEW k \in Proc PROVE ProcOK(k)'
  <2>1. CASE k = p
    BY <1>4, <2>1, IdleProc
  <2>2. CASE k # p
    <3>1. Child(k) # None => Child(k) \in Proc /\ Child(k) # p
      <4>1. Child(k) # None => Eff(k) \in ChildPcs /\ Child(k) = loc[k].child /\ Child(k) \in Proc
        BY <1>0, LocTypes DEF Child
      <4>2. ChildOK(k)
        BY DEF CowInv, ProcOK
      <4>. QED
        BY <1>0, <4>1, <4>2 DEF ChildOK
    <3>2. \A q \in Proc : q # p => Child(q)' = Child(q)
      BY <1>4 DEF Child, Eff
    <3>3. Child(p)' = None
      BY <1>4 DEF Child, Eff, IdleLocal, CowPcs, ChildPcs
    <3>4. Child(k) # None => \A q \in Proc \ {k} : Child(q)' = Child(k) => Child(q) = Child(k)
      BY <3>2, <3>3
    <3>5. Child(k) # None => /\ status'[Child(k)] = status[Child(k)]
                             /\ handler[Child(k)] => handler'[Child(k)]
      BY <1>4, <3>1
    <3>. QED
      BY <1>3, <1>4, <2>2, <3>4, <3>5, OtherProc
  <2>. QED
    BY <2>1, <2>2
<1>7. ASSUME NEW q \in Proc, NEW v \in Va PROVE PageOK(q, v)'
  <2>1. CASE q = p
    BY <1>3, <2>1 DEF PageOK
  <2>2. CASE q # p
    <3>1. PageOK(q, v) /\ pt'[q][v] = pt[q][v]
      BY <1>3, <2>2 DEF CowInv
    <3>2. pt[q][v] # None => pt[q][v].pp # None
      <4>1. pt[q][v] # None => pt[q][v].pp \in Page
        BY <1>0, PtTypes
      <4>. QED
        BY <4>1, CowAssumption
    <3>3. ASSUME pt[q][v] # None, NEW r \in Proc, ucow'[r] = pt[q][v].pp
          PROVE  r = q /\ v = loc'[q].va /\ loc'[q].pc = "unmap"
      <4>1. ucow[r] = pt[q][v].pp
        BY <1>4, <3>2, <3>3
      <4>2. r = q /\ v = loc[q].va /\ loc[q].pc = "unmap"
        BY <3>1, <3>3, <4>1 DEF PageOK
      <4>. QED
        BY <1>4, <2>2, <4>2
    <3>. QED
      BY <1>4, <2>2, <3>1, <3>3 DEF PageOK
  <2>. QED
    BY <2>1, <2>2
<1>8. ASSUME NEW q \in Proc, NEW r \in Proc, NEW v \in Va PROVE ShareOK(q, r, v)'
  <2>1. CASE q = p \/ r = p
    BY <1>3, <2>1 DEF ShareOK, Share
  <2>2. CASE q # p /\ r # p
    <3>1. ShareOK(q, r, v) /\ pt'[q] = pt[q] /\ pt'[r] = pt[r] /\ loc'[q] = loc[q]
      BY <1>3, <1>4, <2>2 DEF CowInv
    <3>2. Eff(q)' = Eff(q)
      BY <3>1 DEF Eff
    <3>. QED
      BY <3>1, <3>2 DEF ShareOK, Share
  <2>. QED
    BY <2>1, <2>2
<1>. QED
  BY <1>0, <1>1, <1>5, <1>6, <1>7, <1>8 DEF CowInv

LEMMA WriteCow ==
  ASSUME CowInv, NEW p \in Proc, Write(p)
  PROVE  CowInv'
<1>1. Running(p) /\ loc[p].pc = "user" /\ ops < MaxOps
  BY DEF Write, At
<1>2. PICK v \in Va, x \in Val : Store(p, v, x, "user")
  BY DEF Write
<1>3. "user" \in Pcs
  BY DEF Pcs
<1>. QED
  BY <1>1, <1>2, <1>3, StoreCow

\* The invariant is inductive.
LEMMA NextCow == CowInv /\ [Next]_vars => CowInv'
<1>. SUFFICES ASSUME CowInv, [Next]_vars PROVE CowInv'
  OBVIOUS
<1>1. CASE UNCHANGED vars
  <2>1. UNCHANGED <<status, pt, ucow, aux, content, handler, loc, kern, ops>>
    BY <1>1 DEF vars, memory
  <2>2. \A p \in Proc : Eff(p)' = Eff(p)
    BY <2>1 DEF Eff
  <2>3. TypeOK'
    BY <2>1 DEF CowInv, TypeOK
  <2>4. ASSUME NEW p \in Proc PROVE ProcOK(p)'
    <3>1. ProcOK(p)
      BY DEF CowInv
    <3>2. FaultOK(p)'
      BY <2>1, <3>1 DEF ProcOK, FaultOK
    <3>3. ForkOK(p)'
      BY <2>1, <2>2, <3>1 DEF ProcOK, ForkOK
    <3>4. ChildOK(p)'
      BY <2>1, <2>2, <3>1 DEF ProcOK, ChildOK
    <3>. QED
      BY <2>1, <3>1, <3>2, <3>3, <3>4 DEF ProcOK
  <2>5. ASSUME NEW p \in Proc, NEW v \in Va PROVE PageOK(p, v)'
    <3>1. PageOK(p, v)
      BY DEF CowInv
    <3>. QED
      BY <2>1, <3>1 DEF PageOK
  <2>6. ASSUME NEW p \in Proc, NEW q \in Proc, NEW v \in Va PROVE ShareOK(p, q, v)'
    <3>1. ShareOK(p, q, v)
      BY DEF CowInv
    <3>. QED
      BY <2>1, <2>2, <3>1 DEF ShareOK, Share
  <2>. QED
    BY <2>1, <2>3, <2>4, <2>5, <2>6 DEF CowInv
<1>2. CASE Next
  <2>1. PICK p \in Proc : Write(p) \/ cow_entry(p) \/ fork(p) \/ exit(p)
    BY <1>2 DEF Next
  <2>2. CASE Write(p)
    BY <2>2, WriteCow
  <2>3. CASE cow_entry(p)
    BY <2>3, CowAllocCow, CowCopyCow, CowMapCow, CowUnmapCow DEF cow_entry
  <2>4. CASE fork(p)
    BY <2>4, ForkBeginCow, ExoforkCow, ForkLoopCow, DuppageCow, SetHandlerCow, SetStatusCow DEF fork
  <2>5. CASE exit(p)
    BY <2>5, ExitCow
  <2>. QED
    BY <2>1, <2>2, <2>3, <2>4, <2>5
<1>. QED
  BY <1>1, <1>2

\* CowInv holds in every reachable state: whatever fork.c, cow_entry, do_tlb_mod and
\* the programs do, and wherever memory runs out, the program counters, the page
\* table entries and the frames they name stay consistent with one another.
THEOREM CowInvariant == Spec => []CowInv
  BY InitCow, NextCow, PTL DEF Spec

\* Pages, permissions, handlers and the locals of fork and cow_entry keep their
\* types: in particular fork's loop ends, and duppage has a page to pass on.
THEOREM CowTypes == Spec => []TypeOK
<1>1. CowInv => TypeOK
  BY DEF CowInv
<1>. QED
  BY <1>1, CowInvariant, PTL

\* However forks, faults and copies of any number of processes are interleaved, and
\* whether or not there is memory for them, no two running processes have a page
\* that one of them can store into, unless it is shared on purpose.
THEOREM CowWritablePrivate == Spec => []WritableIsPrivate
<1>1. CowInv => WritableIsPrivate
  <2>. SUFFICES ASSUME CowInv, NEW p \in Proc, NEW q \in Proc, NEW v \in Va, NEW w \in Va,
                       p # q, status[p] = "runnable", status[q] = "runnable",
                       pt[p][v] # None, pt[p][v].perm.d, ~pt[p][v].perm.lib,
                       pt[q][w] # None, pt[p][v].pp = pt[q][w].pp
                PROVE  FALSE
    BY DEF WritableIsPrivate
  <2>1. PageOK(p, v) /\ PageOK(q, w) /\ ShareOK(p, q, v) /\ ChildOK(p)
    BY DEF CowInv, ProcOK
  <2>2. v = w
    BY <2>1 DEF PageOK
  <2>3. Eff(p) \in SecondPcs /\ loc[p].child = q
    BY <2>1, <2>2 DEF ShareOK, Share
  <2>4. status[q] = "not_runnable"
    BY <2>1, <2>3, CowAssumption DEF ChildOK, SecondPcs, ChildPcs
  <2>. QED
    BY <2>4
<1>. QED
  BY <1>1, CowInvariant, PTL

\* A store into a page without PTE_D always finds a handler installed, and cow_entry
\* always finds PTE_COW: neither do_tlb_mod nor cow_entry panics.
THEOREM CowFaultsHandled == Spec => []FaultsHandled
<1>1. CowInv => FaultsHandled
  BY DEF CowInv, ProcOK, ForkOK, FaultsHandled
<1>. QED
  BY <1>1, CowInvariant, PTL

-----------------------------------------------------------------------------
(* Memory is private: what a step leaves alone *)

\* What p reads at v.
Sees(p, v) == IF pt[p][v] = None THEN 0 ELSE content[pt[p][v].pp]

MemStep == [Private!Write \/ Private!Fork \/ Private!Exit]_<<running, view>>

LEMMA MappedAll ==
  \A g : g \in Mapped <=> \/ \E q \in Proc : ucow[q] = g
                          \/ \E q \in Proc, v \in Va : pt[q][v] # None /\ pt[q][v].pp = g
  BY MappedIff

LEMMA MappedNext ==
  \A g : g \in Mapped' <=> \/ \E q \in Proc : ucow'[q] = g
                           \/ \E q \in Proc, v \in Va : pt'[q][v] # None /\ pt'[q][v].pp = g
<1>1. (\A g : g \in Mapped <=> \/ \E q \in Proc : ucow[q] = g
                               \/ \E q \in Proc, v \in Va : pt[q][v] # None /\ pt[q][v].pp = g)'
  BY MappedAll, PTL
<1>. QED
  BY <1>1

SameStatus == \A k \in Proc : (status'[k] = "runnable") <=> (status[k] = "runnable")

LEMMA SameView ==
  ASSUME SameStatus, \A p \in running, v \in Va : Sees(p, v)' = Sees(p, v)
  PROVE  MemStep
<1>1. running' = running
  BY DEF running, SameStatus
<1>2. view = [p \in running |-> [v \in Va |-> Sees(p, v)]]
  BY DEF view, Sees
<1>3. view' = [p \in running |-> [v \in Va |-> Sees(p, v)']]
  BY <1>1 DEF view, Sees
<1>4. view' = view
  BY <1>2, <1>3
<1>. QED
  BY <1>1, <1>4 DEF MemStep

\* The process that forks runs, its child does not.
LEMMA ChildIdle ==
  ASSUME CowInv, NEW k \in Proc, Child(k) # None
  PROVE  /\ Child(k) \in Proc /\ status[Child(k)] = "not_runnable" /\ Child(k) # k
         /\ loc[k].child = Child(k) /\ Eff(k) \in ChildPcs /\ status[k] = "runnable"
         /\ \A q \in Proc : q # k => Child(q) # Child(k)
<1>1. loc[k].child = Child(k) /\ Eff(k) \in ChildPcs
  BY DEF Child
<1>2. Child(k) \in Proc
  BY <1>1, LocTypes DEF CowInv
<1>3. ChildOK(k)
  BY DEF CowInv, ProcOK
<1>4. /\ status[Child(k)] = "not_runnable"
      /\ \A q \in Proc \ {k} : Eff(q) \in ChildPcs => loc[q].child # Child(k)
  BY <1>1, <1>3 DEF ChildOK
<1>5. status[k] = "runnable"
  BY <1>1, NotRunning DEF ChildPcs
<1>. QED
  BY <1>1, <1>2, <1>4, <1>5 DEF Child

\* fork's progress is not disturbed.
LEMMA CopiedKept ==
  ASSUME CowInv, NEW k \in Proc, Copied(k),
         \/ Eff(k)' \notin ChildPcs
         \/ /\ Eff(k) \in ChildPcs /\ (Eff(k)' \in SecondPcs <=> Eff(k) \in SecondPcs)
            /\ loc'[k].child = loc[k].child /\ loc'[k].i = loc[k].i
            /\ Eff(k)' \in {"handler", "status"} => loc[k].i > Len(Order)
            /\ \A v \in Va \ {Stack} : pt'[k][v] = pt[k][v]
            /\ Child(k) # None => pt'[Child(k)] = pt[Child(k)]
  PROVE  Copied(k)'
<1>1. CASE Eff(k)' \notin ChildPcs
  BY <1>1 DEF Copied, ChildPcs
<1>2. CASE Eff(k)' \in ChildPcs
  <2>1. /\ Eff(k) \in ChildPcs /\ (Eff(k)' \in SecondPcs <=> Eff(k) \in SecondPcs)
        /\ loc'[k].child = loc[k].child /\ loc'[k].i = loc[k].i
        /\ Eff(k)' \in {"handler", "status"} => loc[k].i > Len(Order)
        /\ \A v \in Va \ {Stack} : pt'[k][v] = pt[k][v]
        /\ Child(k) # None => pt'[Child(k)] = pt[Child(k)]
    BY <1>2
  <2>. DEFINE c == loc[k].child
  <2>2. ASSUME c # None, NEW j \in 1..Len(Order)
        PROVE  IF Passed(k, j)'
               THEN Order[j] # Stack => \/ pt'[k][Order[j]] = None /\ pt'[c][Order[j]] = None
                                        \/ Share(k, c, Order[j])'
               ELSE pt'[c][Order[j]] = None
    <3>1. Passed(k, j)' <=> Passed(k, j)
      BY <2>1 DEF Passed
    <3>2. IF Passed(k, j)
          THEN Order[j] # Stack => \/ pt[k][Order[j]] = None /\ pt[c][Order[j]] = None
                                   \/ Share(k, c, Order[j])
          ELSE pt[c][Order[j]] = None
      BY <2>1, <2>2 DEF Copied
    <3>3. pt'[c] = pt[c]
      BY <2>1, <2>2 DEF Child
    <3>4. Order[j] # Stack => pt'[k][Order[j]] = pt[k][Order[j]]
      BY <2>1, OrderTypes
    <3>5. Order[j] # Stack => (Share(k, c, Order[j])' <=> Share(k, c, Order[j]))
      BY <2>1, <3>3, <3>4 DEF Share
    <3>. QED
      BY <3>1, <3>2, <3>3, <3>4, <3>5
  <2>. QED
    BY <2>1, <2>2 DEF Copied
<1>. QED
  BY <1>1, <1>2

\* Nothing of k changes.
LEMMA CopiedOther ==
  ASSUME CowInv, NEW k \in Proc, Copied(k), loc'[k] = loc[k], pt'[k] = pt[k],
         Child(k) # None => pt'[Child(k)] = pt[Child(k)]
  PROVE  Copied(k)'
<1>1. Eff(k)' = Eff(k)
  BY DEF Eff
<1>2. Eff(k) \in {"handler", "status"} => loc[k].i > Len(Order)
  BY DEF Copied
<1>. QED
  BY <1>1, <1>2, CopiedKept

LEMMA CopyOther ==
  ASSUME CowInv, NEW k \in Proc, CopyOK(k), loc'[k] = loc[k], ucow'[k] = ucow[k], pt'[k] = pt[k],
         loc[k].pc = "remap" => /\ content'[ucow[k]] = content[ucow[k]]
                                /\ content'[pt[k][loc[k].va].pp] = content[pt[k][loc[k].va].pp]
  PROVE  CopyOK(k)'
  BY DEF CopyOK

\* The process at remap runs; its two pages.
LEMMA RemapFacts ==
  ASSUME CowInv, NEW k \in Proc, loc[k].pc \in {"copy", "remap", "unmap"}
  PROVE  /\ status[k] = "runnable" /\ loc[k].va \in Va /\ pt[k][loc[k].va] # None
         /\ pt[k][loc[k].va].pp \in Page /\ pt[k][loc[k].va].pp \in Mapped
         /\ loc[k].pc # "copy" => ucow[k] \in Page /\ ucow[k] \in Mapped /\ ucow[k][1] = k
         /\ loc[k].pc # "unmap" => ~pt[k][loc[k].va].perm.d /\ ~pt[k][loc[k].va].perm.lib
<1>1. TypeOK /\ FaultOK(k)
  BY DEF CowInv, ProcOK
<1>2. status[k] = "runnable"
  BY NotRunning DEF IdleLocal
<1>3. loc[k].va \in Va
  BY <1>1, LocTypes
<1>4. pt[k][loc[k].va] # None
  BY <1>1 DEF FaultOK, CowPcs
<1>5. pt[k][loc[k].va].pp \in Page /\ pt[k][loc[k].va].pp \in Mapped
  BY <1>1, <1>3, <1>4, PtTypes, MappedIff
<1>6. loc[k].pc # "copy" => ucow[k] # None /\ ucow[k][1] = k
  BY <1>1 DEF FaultOK
<1>7. ucow[k] # None => ucow[k] \in Page /\ ucow[k] \in Mapped
  BY <1>1, MappedIff DEF TypeOK
<1>8. loc[k].pc # "unmap" => ~pt[k][loc[k].va].perm.d
  BY <1>1 DEF FaultOK
<1>9. ~pt[k][loc[k].va].perm.d => ~pt[k][loc[k].va].perm.lib
  <2>1. PageOK(k, loc[k].va)
    BY <1>3 DEF CowInv
  <2>. QED
    BY <1>4, <2>1 DEF PageOK
<1>. QED
  BY <1>2, <1>3, <1>4, <1>5, <1>6, <1>7, <1>8, <1>9

\* Who else can read a page that is written.
LEMMA Owner ==
  ASSUME CowInv, NEW p \in Proc, NEW q \in Proc, NEW v \in Va, NEW w \in Va, p # q,
         status[q] = "runnable", pt[p][v] # None, pt[p][v].perm.d, pt[q][w] # None,
         pt[p][v].pp = pt[q][w].pp
  PROVE  w = v /\ v \in Lib /\ pt[p][v].perm.lib /\ pt[q][w].perm.lib
<1>1. PageOK(p, v) /\ PageOK(q, w) /\ ShareOK(p, q, v) /\ ChildOK(p)
  BY DEF CowInv, ProcOK
<1>2. v = w
  BY <1>1 DEF PageOK
<1>3. Share(p, q, v)
  BY <1>2 DEF Share
<1>4. pt[p][v].perm.lib = pt[q][v].perm.lib
  BY <1>1, <1>3 DEF ShareOK
<1>5. pt[p][v].perm.lib
  <2>. SUFFICES ASSUME ~pt[p][v].perm.lib PROVE FALSE
    OBVIOUS
  <2>1. Eff(p) \in SecondPcs /\ loc[p].child = q
    BY <1>1, <1>3 DEF ShareOK
  <2>2. status[q] = "not_runnable"
    BY <1>1, <2>1, CowAssumption DEF ChildOK, SecondPcs, ChildPcs
  <2>. QED
    BY <2>2
<1>6. v \in Lib
  BY <1>1, <1>5 DEF PageOK
<1>. QED
  BY <1>2, <1>4, <1>5, <1>6

LEMMA GotoAny ==
  ASSUME TypeOK, NEW p \in Proc, NEW pc \in Pcs, Goto(p, pc)
  PROVE  /\ \A k \in Proc : k # p => loc'[k] = loc[k]
         /\ loc'[p].pc = pc /\ loc'[p].ret = loc[p].ret /\ loc'[p].va = loc[p].va
         /\ loc'[p].child = loc[p].child /\ loc'[p].i = loc[p].i
<1>. DEFINE l == [loc[p] EXCEPT !.pc = pc]
<1>1. loc' = [loc EXCEPT ![p] = l]
  BY DEF Goto
<1>2. loc[p] \in Local
  BY LocTypes
<1>3. l.pc = pc /\ l.ret = loc[p].ret /\ l.va = loc[p].va /\ l.child = loc[p].child /\ l.i = loc[p].i
  BY <1>2 DEF Local
<1>. HIDE DEF l
<1>4. loc'[p] = l /\ \A k \in Proc : k # p => loc'[k] = loc[k]
  BY <1>1 DEF TypeOK
<1>. QED
  BY <1>3, <1>4

LEMMA MappedKept ==
  ASSUME TypeOK, pt' = pt, NEW p \in Proc, \A k \in Proc : k # p => ucow'[k] = ucow[k],
         \/ ucow[p] = None \/ ucow'[p] = ucow[p]
         \/ \E v \in Va : pt[p][v] # None /\ pt[p][v].pp = ucow[p]
  PROVE  \A g \in Page : g \in Mapped => g \in Mapped'
<1>. SUFFICES ASSUME NEW g \in Page, g \in Mapped PROVE g \in Mapped'
  OBVIOUS
<1>1. CASE \E q \in Proc, v \in Va : pt[q][v] # None /\ pt[q][v].pp = g
  BY <1>1, MappedNext
<1>2. CASE \E q \in Proc : ucow[q] = g
  <2>1. PICK q \in Proc : ucow[q] = g
    BY <1>2
  <2>2. g # None
    BY CowAssumption
  <2>3. CASE ucow'[q] = ucow[q]
    BY <2>1, <2>3, MappedNext
  <2>4. CASE ucow'[q] # ucow[q]
    <3>1. q = p /\ \E v \in Va : pt[p][v] # None /\ pt[p][v].pp = g
      BY <2>1, <2>2, <2>4
    <3>. QED
      BY <3>1, MappedNext
  <2>. QED
    BY <2>3, <2>4
<1>. QED
  BY <1>1, <1>2, MappedAll

\* A step that changes no page table, no contents and no status.
LEMMA QuietView ==
  ASSUME ViewInv, NEW p \in Proc, SameStatus, UNCHANGED <<pt, content>>,
         \A k \in Proc : k # p => loc'[k] = loc[k] /\ ucow'[k] = ucow[k],
         \/ ucow[p] = None \/ ucow'[p] = ucow[p]
         \/ \E v \in Va : pt[p][v] # None /\ pt[p][v].pp = ucow[p],
         CopyOK(p)', Copied(p)'
  PROVE  RestInv' /\ MemStep
<1>1. CowInv /\ TypeOK /\ FreeClean /\ LibOK /\ \A k \in Proc : CopyOK(k) /\ Copied(k)
  BY DEF ViewInv, RestInv, CowInv
<1>2. FreeClean'
  <2>1. \A g \in Page : g \in Mapped => g \in Mapped'
    BY <1>1, MappedKept
  <2>. QED
    BY <1>1, <2>1 DEF FreeClean
<1>3. LibOK'
  BY <1>1 DEF LibOK, Share, SameStatus
<1>4. ASSUME NEW k \in Proc PROVE CopyOK(k)' /\ Copied(k)'
  <2>1. CASE k = p
    BY <2>1
  <2>2. CASE k # p
    BY <1>1, <2>2, CopyOther, CopiedOther
  <2>. QED
    BY <2>1, <2>2
<1>5. \A k \in running, v \in Va : Sees(k, v)' = Sees(k, v)
  BY DEF Sees
<1>6. MemStep
  BY <1>5, SameView
<1>. QED
  BY <1>2, <1>3, <1>4, <1>6 DEF RestInv

\* A process whose store faults.
LEMMA TlbModView ==
  ASSUME ViewInv, NEW p \in Proc, Running(p), loc[p].pc \in StorePcs, NEW v \in Va,
         pt[p][v] # None, ~pt[p][v].perm.d, do_tlb_mod(p, v)
  PROVE  RestInv' /\ MemStep
<1>0. CowInv /\ TypeOK /\ ProcOK(p) /\ CopyOK(p) /\ Copied(p)
  BY DEF ViewInv, RestInv, CowInv
<1>. DEFINE l == [loc[p] EXCEPT !.va = v, !.ret = loc[p].pc, !.pc = "alloc"]
<1>1. pt[p][v].perm.cow
  <2>1. PageOK(p, v)
    BY <1>0 DEF CowInv
  <2>. QED
    BY <2>1 DEF PageOK
<1>2. loc' = [loc EXCEPT ![p] = l] /\ UNCHANGED <<status, pt, ucow, content>>
  BY <1>0, <1>1 DEF do_tlb_mod, TypeOK
<1>3. loc[p] \in Local
  BY <1>0, LocTypes
<1>4. l.pc = "alloc" /\ l.ret = loc[p].pc /\ l.child = loc[p].child /\ l.i = loc[p].i
  BY <1>3 DEF Local
<1>. HIDE DEF l
<1>5. loc'[p] = l /\ \A k \in Proc : k # p => loc'[k] = loc[k]
  BY <1>0, <1>2 DEF TypeOK
<1>6. Eff(p)' = Eff(p)
  BY <1>4, <1>5 DEF Eff, StorePcs, CowPcs
<1>7. CopyOK(p)'
  BY <1>4, <1>5 DEF CopyOK
<1>8. Copied(p)'
  <2>1. Eff(p) \in {"handler", "status"} => loc[p].i > Len(Order)
    BY <1>0 DEF Copied
  <2>. QED
    BY <1>0, <1>2, <1>4, <1>5, <1>6, <2>1, CopiedKept
<1>. QED
  BY <1>2, <1>5, <1>7, <1>8, QuietView DEF SameStatus

\* A page is allocated at the first store: nothing maps it, so it is clear.
LEMMA PassiveAllocView ==
  ASSUME ViewInv, NEW p \in Proc, Running(p), loc[p].pc \in StorePcs, NEW v \in Va,
         loc[p].pc # "user" => v = Stack, pt[p][v] = None, passive_alloc(p, v)
  PROVE  RestInv' /\ MemStep
<1>0. CowInv /\ TypeOK /\ FaultOK(p) /\ FreeClean /\ LibOK /\ status[p] = "runnable"
      /\ \A k \in Proc : CopyOK(k) /\ Copied(k)
  BY RunningOK DEF ViewInv, RestInv
<1>1. UNCHANGED <<status, ucow, content, loc>>
  BY DEF passive_alloc
<1>2. ucow[p] = None
  BY <1>0 DEF FaultOK, StorePcs
<1>3. CASE pt' = pt
  <2>1. CopyOK(p)' /\ Copied(p)'
    BY <1>0, <1>1, <1>3, CopyOther, CopiedOther
  <2>. QED
    BY <1>1, <1>2, <1>3, <2>1, QuietView DEF SameStatus
<1>4. CASE pt' # pt
  <2>. DEFINE g == page_alloc(p, v)
              m == [d |-> TRUE, cow |-> FALSE, lib |-> FALSE]
  <2>1. /\ pt' = [pt EXCEPT ![p][v] = [pp |-> g, perm |-> m]]
        /\ aux' = [aux EXCEPT ![p] = @ \union {"table"}]
    BY <1>4 DEF passive_alloc
  <2>2. g \in Page /\ g \notin Mapped /\ m \in Perm
    BY <1>0, <1>2, Fresh, PermFields
  <2>. HIDE DEF g, m
  <2>3. PtSet(p, v, g, m)
    BY <1>0, <2>1, <2>2, PtUpdate
  <2>4. /\ \A k \in Proc : k # p => pt'[k] = pt[k]
        /\ \A k \in Proc, w \in Va : k # p \/ w # v => pt'[k][w] = pt[k][w]
        /\ pt'[p][v] # None /\ pt'[p][v].pp = g
    BY <2>3 DEF PtSet
  <2>5. content[g] = 0
    BY <1>0, <2>2 DEF FreeClean
  <2>6. v \notin Lib
    BY <1>0 DEF LibOK, Share
  <2>7. FreeClean'
    <3>1. ASSUME NEW h \in Page, h \in Mapped PROVE h \in Mapped'
      <4>1. CASE \E q \in Proc : ucow[q] = h
        BY <1>1, <4>1, MappedNext
      <4>2. CASE \E q \in Proc, w \in Va : pt[q][w] # None /\ pt[q][w].pp = h
        <5>1. PICK q \in Proc, w \in Va : pt[q][w] # None /\ pt[q][w].pp = h
          BY <4>2
        <5>2. pt'[q][w] = pt[q][w]
          BY <2>4, <5>1
        <5>. QED
          BY <5>1, <5>2, MappedNext
      <4>. QED
        BY <3>1, <4>1, <4>2, MappedAll
    <3>. QED
      BY <1>0, <1>1, <3>1 DEF FreeClean
  <2>8. LibOK'
    <3>1. \A k \in Proc, w \in Lib : pt'[k][w] = pt[k][w]
      BY <2>4, <2>6, CowAssumption
    <3>. QED
      BY <1>0, <1>1, <3>1 DEF LibOK, Share
  <2>9. ASSUME NEW k \in Proc PROVE CopyOK(k)' /\ Copied(k)'
    <3>1. Child(k) # None => pt'[Child(k)] = pt[Child(k)]
      <4>1. Child(k) # None => Child(k) \in Proc /\ Child(k) # p
        BY <1>0, ChildIdle
      <4>. QED
        BY <2>4, <4>1
    <3>2. CASE k # p
      BY <1>0, <1>1, <2>4, <3>1, <3>2, CopyOther, CopiedOther
    <3>3. CASE k = p
      <4>1. CopyOK(p)'
        BY <1>1 DEF CopyOK, StorePcs
      <4>2. Eff(p) = loc[p].pc /\ Eff(p)' = loc[p].pc
        BY <1>1 DEF Eff, StorePcs, CowPcs
      <4>3. CASE loc[p].pc = "user"
        BY <1>0, <3>3, <4>1, <4>2, <4>3, CopiedKept DEF ChildPcs
      <4>4. CASE loc[p].pc # "user"
        <5>1. Eff(p) \in ChildPcs /\ Eff(p) \notin {"handler", "status"}
          BY <4>2, <4>4 DEF StorePcs, ChildPcs
        <5>2. \A w \in Va \ {Stack} : pt'[p][w] = pt[p][w]
          BY <2>4, <4>4
        <5>. QED
          BY <1>0, <1>1, <3>1, <3>3, <4>1, <4>2, <5>1, <5>2, CopiedKept
      <4>. QED
        BY <4>3, <4>4
    <3>. QED
      BY <3>2, <3>3
  <2>10. ASSUME NEW k \in running, NEW w \in Va PROVE Sees(k, w)' = Sees(k, w)
    <3>1. k \in Proc
      BY DEF running
    <3>2. CASE k = p /\ w = v
      BY <1>1, <2>4, <2>5, <3>2 DEF Sees
    <3>3. CASE ~(k = p /\ w = v)
      BY <1>1, <2>4, <3>1, <3>3 DEF Sees
    <3>. QED
      BY <3>2, <3>3
  <2>11. MemStep
    BY <1>1, <2>10, SameView DEF SameStatus
  <2>. QED
    BY <2>7, <2>8, <2>9, <2>11 DEF RestInv
<1>. QED
  BY <1>3, <1>4

\* A store is seen by its process, and by the others in a shared page.
LEMMA StoreOkView ==
  ASSUME ViewInv, NEW p \in Proc, Running(p), NEW v \in Va, NEW x \in Val, NEW pc \in Pcs,
         \/ loc[p].pc = "user" /\ pc = "user"
         \/ loc[p].pc = "call" /\ pc = "dup"
         \/ loc[p].pc = "call" /\ pc = "handler" /\ loc[p].i > Len(Order)
         \/ loc[p].pc = "again" /\ pc = "map",
         pt[p][v] # None, pt[p][v].perm.d,
         content' = [content EXCEPT ![pt[p][v].pp] = x], Goto(p, pc),
         UNCHANGED <<status, pt, ucow>>
  PROVE  RestInv' /\ MemStep
<1>0. CowInv /\ TypeOK /\ FreeClean /\ LibOK /\ status[p] = "runnable"
      /\ \A k \in Proc : CopyOK(k) /\ Copied(k)
  BY RunningOK DEF ViewInv, RestInv
<1>. DEFINE h == pt[p][v].pp
<1>1. h \in Page /\ h \in Mapped
  BY <1>0, PtTypes, MappedAll
<1>2. content'[h] = x /\ \A g \in Page : g # h => content'[g] = content[g]
  BY <1>0, <1>1 DEF TypeOK
<1>3. /\ \A k \in Proc : k # p => loc'[k] = loc[k]
      /\ loc'[p].pc = pc /\ loc'[p].child = loc[p].child /\ loc'[p].i = loc[p].i
  BY <1>0, GotoAny
<1>4. Eff(p) = loc[p].pc /\ Eff(p)' = pc
  BY <1>3 DEF Eff, CowPcs
<1>5. FreeClean'
  <2>1. Mapped' = Mapped
    BY DEF Mapped
  <2>. QED
    BY <1>0, <1>1, <1>2, <2>1 DEF FreeClean
<1>6. LibOK'
  BY <1>0 DEF LibOK, Share
<1>7. ASSUME NEW k \in Proc PROVE CopyOK(k)' /\ Copied(k)'
  <2>1. CASE k = p
    <3>1. CopyOK(p)'
      BY <1>3 DEF CopyOK
    <3>2. CASE loc[p].pc = "user"
      BY <1>0, <1>4, <2>1, <3>1, <3>2, CopiedKept DEF ChildPcs
    <3>3. CASE loc[p].pc # "user"
      <4>1. /\ Eff(p) \in ChildPcs /\ (Eff(p)' \in SecondPcs <=> Eff(p) \in SecondPcs)
            /\ Eff(p)' \in {"handler", "status"} => loc[p].i > Len(Order)
        BY <1>4, <3>3 DEF ChildPcs, SecondPcs
      <4>. QED
        BY <1>0, <1>3, <2>1, <3>1, <4>1, CopiedKept
    <3>. QED
      BY <3>2, <3>3
  <2>2. CASE k # p
    <3>1. ASSUME loc[k].pc = "remap"
          PROVE  /\ content'[ucow[k]] = content[ucow[k]]
                 /\ content'[pt[k][loc[k].va].pp] = content[pt[k][loc[k].va].pp]
      <4>. DEFINE w == loc[k].va
      <4>1. /\ status[k] = "runnable" /\ w \in Va /\ pt[k][w] # None /\ pt[k][w].pp \in Page
            /\ ucow[k] \in Page /\ ~pt[k][w].perm.lib
        BY <1>0, <3>1, RemapFacts
      <4>2. ucow[k] # h
        <5>1. PageOK(p, v)
          BY <1>0 DEF CowInv
        <5>. QED
          BY <2>2, <5>1 DEF PageOK
      <4>3. pt[k][w].pp # h
        BY <1>0, <2>2, <4>1, Owner
      <4>. QED
        BY <1>2, <4>1, <4>2, <4>3
    <3>. QED
      BY <1>0, <1>3, <2>2, <3>1, CopyOther, CopiedOther
  <2>. QED
    BY <2>1, <2>2
<1>8. ASSUME NEW q \in running, NEW w \in Va
      PROVE  Sees(q, w)' = IF w = v /\ (q = p \/ v \in Lib) THEN x ELSE Sees(q, w)
  <2>0. q \in Proc /\ status[q] = "runnable"
    BY DEF running
  <2>1. CASE w = v /\ q = p
    BY <1>2, <2>1 DEF Sees
  <2>2. CASE w = v /\ q # p /\ v \in Lib
    <3>1. Share(q, p, v)
      BY <1>0, <2>0, <2>2 DEF LibOK
    <3>. QED
      BY <1>2, <2>2, <3>1 DEF Sees, Share
  <2>3. CASE ~(w = v /\ (q = p \/ v \in Lib))
    <3>1. CASE pt[q][w] = None
      BY <2>3, <3>1 DEF Sees
    <3>2. CASE pt[q][w] # None
      <4>1. pt[q][w].pp \in Page
        BY <1>0, <2>0, <3>2, PtTypes
      <4>2. pt[q][w].pp # h
        <5>1. CASE q = p
          <6>1. PageOK(p, v) /\ PageOK(p, w)
            BY <1>0 DEF CowInv
          <6>. QED
            BY <2>3, <3>2, <5>1, <6>1 DEF PageOK
        <5>2. CASE q # p
          BY <1>0, <2>0, <2>3, <3>2, <5>2, Owner
        <5>. QED
          BY <5>1, <5>2
      <4>. QED
        BY <1>2, <2>3, <3>2, <4>1, <4>2 DEF Sees
    <3>. QED
      BY <3>1, <3>2
  <2>. QED
    BY <2>1, <2>2, <2>3
<1>9. MemStep
  <2>1. running' = running /\ p \in running
    BY <1>0 DEF running
  <2>2. view = [q \in running |-> [w \in Va |-> Sees(q, w)]]
    BY DEF view, Sees
  <2>3. view' = [q \in running |-> [w \in Va |-> Sees(q, w)']]
    BY <2>1 DEF view, Sees
  <2>4. view' = [q \in running |-> [w \in Va |->
                  IF w = v /\ (q = p \/ v \in Lib) THEN x ELSE Sees(q, w)]]
    BY <1>8, <2>3
  <2>5. \A q \in running, w \in Va : view[q][w] = Sees(q, w)
    BY <2>2
  <2>6. view' = [q \in running |-> [w \in Va |->
                  IF w = v /\ (q = p \/ v \in Lib) THEN x ELSE view[q][w]]]
    BY <2>4, <2>5
  <2>7. Private!Write
    BY <2>1, <2>6 DEF Private!Write
  <2>. QED
    BY <2>7 DEF MemStep
<1>. QED
  BY <1>5, <1>6, <1>7, <1>9 DEF RestInv

LEMMA StoreView ==
  ASSUME ViewInv, NEW p \in Proc, Running(p), NEW v \in Va, NEW x \in Val, NEW pc \in Pcs,
         \/ loc[p].pc = "user" /\ pc = "user"
         \/ loc[p].pc = "call" /\ pc = "dup"
         \/ loc[p].pc = "call" /\ pc = "handler" /\ loc[p].i > Len(Order)
         \/ loc[p].pc = "again" /\ pc = "map",
         loc[p].pc # "user" => v = Stack,
         Store(p, v, x, pc)
  PROVE  RestInv' /\ MemStep
<1>1. loc[p].pc \in StorePcs
  BY DEF StorePcs
<1>2. CASE pt[p][v] = None /\ passive_alloc(p, v)
  BY <1>1, <1>2, PassiveAllocView
<1>3. CASE pt[p][v] # None /\ ~pt[p][v].perm.d /\ do_tlb_mod(p, v)
  BY <1>1, <1>3, TlbModView
<1>. QED
  BY <1>2, <1>3, StoreOkView DEF Store

-----------------------------------------------------------------------------
(* Memory is private: cow_entry *)

LEMMA CowAllocView ==
  ASSUME ViewInv, NEW p \in Proc, cow_alloc(p)
  PROVE  RestInv' /\ MemStep
<1>1. /\ Running(p) /\ loc[p].pc = "alloc" /\ Goto(p, "copy")
      /\ UNCHANGED <<status, pt, aux, content, handler, kern, ops>>
      /\ ucow' = [ucow EXCEPT ![p] = IF NFree > 0 THEN page_alloc(p, loc[p].va) ELSE @]
  BY DEF cow_alloc, At
<1>0. CowInv /\ TypeOK /\ FaultOK(p) /\ Copied(p)
  BY <1>1, RunningOK DEF ViewInv, RestInv
<1>2. /\ \A k \in Proc : k # p => loc'[k] = loc[k]
      /\ loc'[p].pc = "copy" /\ loc'[p].child = loc[p].child /\ loc'[p].i = loc[p].i
      /\ Eff(p)' = Eff(p)
  BY <1>0, <1>1, GotoCow DEF CowPcs
<1>3. ucow[p] = None /\ \A k \in Proc : k # p => ucow'[k] = ucow[k]
  BY <1>0, <1>1 DEF FaultOK, TypeOK
<1>4. CopyOK(p)'
  BY <1>2 DEF CopyOK
<1>5. Copied(p)'
  <2>1. Eff(p) \in {"handler", "status"} => loc[p].i > Len(Order)
    BY <1>0 DEF Copied
  <2>. QED
    BY <1>0, <1>1, <1>2, <2>1, CopiedKept
<1>. QED
  BY <1>1, <1>2, <1>3, <1>4, <1>5, QuietView DEF SameStatus

\* The copy is made in a page that no address space maps.
LEMMA CowCopyView ==
  ASSUME ViewInv, NEW p \in Proc, cow_copy(p)
  PROVE  RestInv' /\ MemStep
<1>1. Running(p) /\ loc[p].pc = "copy" /\ UNCHANGED <<status, pt, aux, handler, ops>>
  BY DEF cow_copy, At
<1>0. CowInv /\ TypeOK /\ FaultOK(p) /\ FreeClean /\ LibOK
      /\ \A k \in Proc : CopyOK(k) /\ Copied(k)
  BY <1>1, RunningOK DEF ViewInv, RestInv
<1>2. CASE ucow[p] = None
  <2>1. UNCHANGED <<content, loc>> /\ \A k \in Proc : k # p => ucow'[k] = ucow[k]
    BY <1>0, <1>2 DEF cow_copy, TypeOK
  <2>2. CopyOK(p)' /\ Copied(p)'
    <3>1. CopyOK(p)'
      BY <1>1, <2>1 DEF CopyOK
    <3>2. Copied(p)'
      BY <1>0, <1>1, <2>1, CopiedOther
    <3>. QED
      BY <3>1, <3>2
  <2>. QED
    BY <1>1, <1>2, <2>1, <2>2, QuietView DEF SameStatus
<1>3. CASE ucow[p] # None
  <2>. DEFINE u == ucow[p]
              w == loc[p].va
  <2>1. /\ content' = [content EXCEPT ![u] = content[pt[p][w].pp]]
        /\ Goto(p, "remap") /\ UNCHANGED <<ucow, kern>>
    BY <1>3 DEF cow_copy
  <2>2. /\ \A k \in Proc : k # p => loc'[k] = loc[k]
        /\ loc'[p].pc = "remap" /\ loc'[p].va = w
        /\ loc'[p].child = loc[p].child /\ loc'[p].i = loc[p].i /\ Eff(p)' = Eff(p)
    BY <1>0, <1>1, <2>1, GotoCow DEF CowPcs
  <2>3. u \in Page /\ u \in Mapped /\ u[1] = p
    BY <1>0, <1>3, MappedAll DEF TypeOK, FaultOK
  <2>4. ASSUME NEW q \in Proc, NEW v \in Va, pt[q][v] # None PROVE pt[q][v].pp # u
    <3>1. PageOK(q, v)
      BY <1>0 DEF CowInv
    <3>. QED
      BY <1>1, <2>4, <3>1 DEF PageOK
  <2>5. w \in Va /\ pt[p][w] # None /\ pt[p][w].pp \in Page
    BY <1>0, <1>1, RemapFacts
  <2>6. content'[u] = content[pt[p][w].pp] /\ \A g \in Page : g # u => content'[g] = content[g]
    BY <1>0, <2>1, <2>3 DEF TypeOK
  <2>. HIDE DEF u, w
  <2>7. FreeClean'
    <3>1. Mapped' = Mapped
      BY <1>1, <2>1 DEF Mapped
    <3>. QED
      BY <1>0, <2>3, <2>6, <3>1 DEF FreeClean
  <2>8. LibOK'
    BY <1>0, <1>1 DEF LibOK, Share
  <2>9. ASSUME NEW k \in Proc PROVE CopyOK(k)' /\ Copied(k)'
    <3>1. CASE k = p
      <4>1. content'[pt[p][w].pp] = content[pt[p][w].pp]
        BY <2>4, <2>5, <2>6
      <4>2. CopyOK(p)'
        BY <1>1, <2>1, <2>2, <2>6, <4>1 DEF CopyOK, u
      <4>3. Eff(p) \in {"handler", "status"} => loc[p].i > Len(Order)
        BY <1>0 DEF Copied
      <4>. QED
        BY <1>0, <1>1, <2>2, <3>1, <4>2, <4>3, CopiedKept
    <3>2. CASE k # p
      <4>1. ASSUME loc[k].pc = "remap"
            PROVE  /\ content'[ucow[k]] = content[ucow[k]]
                   /\ content'[pt[k][loc[k].va].pp] = content[pt[k][loc[k].va].pp]
        <5>1. /\ loc[k].va \in Va /\ pt[k][loc[k].va] # None /\ pt[k][loc[k].va].pp \in Page
              /\ ucow[k] \in Page /\ ucow[k][1] = k
          BY <1>0, <4>1, RemapFacts
        <5>2. ucow[k] # u /\ pt[k][loc[k].va].pp # u
          BY <2>3, <2>4, <3>2, <5>1
        <5>. QED
          BY <2>6, <5>1, <5>2
      <4>. QED
        BY <1>0, <1>1, <2>1, <2>2, <3>2, <4>1, CopyOther, CopiedOther
    <3>. QED
      BY <3>1, <3>2
  <2>10. ASSUME NEW q \in running, NEW v \in Va PROVE Sees(q, v)' = Sees(q, v)
    <3>1. q \in Proc
      BY DEF running
    <3>2. pt[q][v] # None => pt[q][v].pp \in Page /\ pt[q][v].pp # u
      BY <1>0, <2>4, <3>1, PtTypes
    <3>. QED
      BY <1>1, <2>6, <3>2 DEF Sees
  <2>11. MemStep
    BY <1>1, <2>10, SameView DEF SameStatus
  <2>. QED
    BY <2>7, <2>8, <2>9, <2>11 DEF RestInv
<1>. QED
  BY <1>2, <1>3

LEMMA CowUnmapView ==
  ASSUME ViewInv, NEW p \in Proc, cow_unmap(p)
  PROVE  RestInv' /\ MemStep
<1>1. /\ Running(p) /\ loc[p].pc = "unmap" /\ ucow' = [ucow EXCEPT ![p] = None]
      /\ UNCHANGED <<status, pt, aux, content, handler, kern, ops>>
  BY DEF cow_unmap, At
<1>0. CowInv /\ TypeOK /\ FaultOK(p) /\ CopyOK(p) /\ Copied(p)
  BY <1>1, RunningOK DEF ViewInv, RestInv
<1>. DEFINE l == [loc[p] EXCEPT !.pc = loc[p].ret, !.va = Stack, !.ret = "user"]
<1>2. loc' = [loc EXCEPT ![p] = l]
  BY DEF cow_unmap
<1>3. loc[p] \in Local
  BY <1>0, LocTypes
<1>4. l.pc = loc[p].ret /\ l.child = loc[p].child /\ l.i = loc[p].i
  BY <1>3 DEF Local
<1>. HIDE DEF l
<1>5. loc'[p] = l /\ \A k \in Proc : k # p => loc'[k] = loc[k]
  BY <1>0, <1>2 DEF TypeOK
<1>6. loc[p].ret \in {"user", "call", "again"}
  BY <1>0, <1>1 DEF FaultOK, CowPcs
<1>7. Eff(p)' = Eff(p)
  BY <1>1, <1>4, <1>5, <1>6 DEF Eff, CowPcs
<1>8. CopyOK(p)'
  BY <1>4, <1>5, <1>6 DEF CopyOK
<1>9. Copied(p)'
  <2>1. Eff(p) \in {"handler", "status"} => loc[p].i > Len(Order)
    BY <1>0 DEF Copied
  <2>. QED
    BY <1>0, <1>1, <1>4, <1>5, <1>7, <2>1, CopiedKept
<1>10. \E v \in Va : pt[p][v] # None /\ pt[p][v].pp = ucow[p]
  <2>1. loc[p].va \in Va /\ pt[p][loc[p].va] # None
    BY <1>0, <1>1, RemapFacts
  <2>. QED
    BY <1>0, <1>1, <2>1 DEF CopyOK
<1>11. \A k \in Proc : k # p => ucow'[k] = ucow[k]
  BY <1>0, <1>1 DEF TypeOK
<1>. QED
  BY <1>1, <1>5, <1>8, <1>9, <1>10, <1>11, QuietView DEF SameStatus

\* Pages that stay mapped keep their contents.
LEMMA ClearedKeeps ==
  ASSUME content' = Cleared
  PROVE  /\ \A g \in Page : g \in Mapped' => content'[g] = content[g]
         /\ FreeClean'
  BY DEF Cleared, FreeClean

\* The copy takes the place of the page that was copied.
LEMMA CowMapView ==
  ASSUME ViewInv, NEW p \in Proc, cow_map(p)
  PROVE  RestInv' /\ MemStep
<1>1. /\ Running(p) /\ loc[p].pc = "remap" /\ Goto(p, "unmap")
      /\ UNCHANGED <<status, ucow, aux, handler, kern, ops>> /\ content' = Cleared
  BY DEF cow_map, At
<1>0. CowInv /\ TypeOK /\ FaultOK(p) /\ FreeClean /\ LibOK /\ status[p] = "runnable"
      /\ \A k \in Proc : CopyOK(k) /\ Copied(k)
  BY <1>1, RunningOK DEF ViewInv, RestInv
<1>2. /\ \A k \in Proc : k # p => loc'[k] = loc[k]
      /\ loc'[p].pc = "unmap" /\ loc'[p].va = loc[p].va
      /\ loc'[p].child = loc[p].child /\ loc'[p].i = loc[p].i /\ Eff(p)' = Eff(p)
  BY <1>0, <1>1, GotoCow DEF CowPcs
<1>. DEFINE v == loc[p].va
            g == ucow[p]
            m == [pt[p][v].perm EXCEPT !.d = TRUE, !.cow = FALSE]
            x == [pp |-> g, perm |-> m]
<1>3. /\ v \in Va /\ pt[p][v] # None /\ pt[p][v].pp \in Page /\ g \in Page /\ ~pt[p][v].perm.lib
  BY <1>0, <1>1, RemapFacts
<1>4. pt' = [pt EXCEPT ![p][v] = x]
  BY <1>0, <1>3 DEF cow_map, TypeOK
<1>5. x # None /\ x.pp = g
  <2>1. m \in Perm
    BY <1>0, <1>3, PtTypes, PermFields
  <2>. HIDE DEF m
  <2>. QED
    BY <1>3, <2>1, CowAssumption
<1>. HIDE DEF x
<1>6. /\ \A k \in Proc : k # p => pt'[k] = pt[k]
      /\ \A k \in Proc, w \in Va : k # p \/ w # v => pt'[k][w] = pt[k][w]
      /\ pt'[p][v] # None /\ pt'[p][v].pp = g
  <2>1. \A k \in Proc : k # p => pt'[k] = pt[k]
    BY <1>0, <1>4 DEF TypeOK
  <2>2. \A w \in Va : w # v => pt'[p][w] = pt[p][w]
    BY <1>0, <1>4 DEF TypeOK
  <2>3. pt'[p][v] = x
    BY <1>0, <1>3, <1>4 DEF TypeOK
  <2>. QED
    BY <1>5, <2>1, <2>2, <2>3
<1>7. FreeClean' /\ \A h \in Page : h \in Mapped' => content'[h] = content[h]
  BY <1>1, ClearedKeeps
<1>8. LibOK'
  <2>1. v \notin Lib
    BY <1>0, <1>3 DEF LibOK
  <2>2. \A k \in Proc, w \in Lib : pt'[k][w] = pt[k][w]
    BY <1>6, <2>1, CowAssumption
  <2>. QED
    BY <1>0, <1>1, <2>2 DEF LibOK, Share
<1>9. ASSUME NEW k \in Proc PROVE CopyOK(k)' /\ Copied(k)'
  <2>1. Child(k) # None => pt'[Child(k)] = pt[Child(k)]
    <3>1. Child(k) # None => Child(k) \in Proc /\ Child(k) # p
      BY <1>0, ChildIdle
    <3>. QED
      BY <1>6, <3>1
  <2>2. CASE k # p
    <3>1. ASSUME loc[k].pc = "remap"
          PROVE  /\ content'[ucow[k]] = content[ucow[k]]
                 /\ content'[pt[k][loc[k].va].pp] = content[pt[k][loc[k].va].pp]
      <4>1. /\ loc[k].va \in Va /\ pt[k][loc[k].va] # None /\ pt[k][loc[k].va].pp \in Page
            /\ ucow[k] \in Page
        BY <1>0, <3>1, RemapFacts
      <4>2. pt'[k] = pt[k] /\ ucow'[k] = ucow[k]
        BY <1>1, <1>6, <2>2
      <4>3. ucow[k] \in Mapped' /\ pt[k][loc[k].va].pp \in Mapped'
        BY <4>1, <4>2, MappedNext
      <4>. QED
        BY <1>7, <4>1, <4>3
    <3>. QED
      BY <1>0, <1>1, <1>2, <1>6, <2>1, <2>2, <3>1, CopyOther, CopiedOther
  <2>3. CASE k = p
    <3>1. CopyOK(p)'
      BY <1>1, <1>2, <1>6 DEF CopyOK
    <3>2. CASE Eff(p) \notin ChildPcs
      BY <1>0, <1>2, <2>3, <3>1, <3>2, CopiedKept
    <3>3. CASE Eff(p) \in ChildPcs
      <4>1. v = Stack
        BY <1>0, <1>1, <3>3 DEF FaultOK, Eff, CowPcs, ChildPcs
      <4>2. \A w \in Va \ {Stack} : pt'[p][w] = pt[p][w]
        BY <1>6, <4>1
      <4>3. Eff(p) \in {"handler", "status"} => loc[p].i > Len(Order)
        BY <1>0 DEF Copied
      <4>. QED
        BY <1>0, <1>2, <2>1, <2>3, <3>1, <3>3, <4>2, <4>3, CopiedKept
    <3>. QED
      BY <3>2, <3>3
  <2>. QED
    BY <2>2, <2>3
<1>10. ASSUME NEW q \in running, NEW w \in Va PROVE Sees(q, w)' = Sees(q, w)
  <2>0. q \in Proc
    BY DEF running
  <2>1. pt'[q][w] # None => pt'[q][w].pp \in Mapped'
    BY <2>0, MappedNext
  <2>2. CASE q = p /\ w = v
    <3>1. content'[g] = content[g]
      BY <1>3, <1>6, <1>7, <2>1, <2>2
    <3>2. content[g] = content[pt[p][v].pp]
      BY <1>0, <1>1 DEF CopyOK
    <3>. QED
      BY <1>3, <1>6, <2>2, <3>1, <3>2 DEF Sees
  <2>3. CASE ~(q = p /\ w = v)
    <3>1. pt'[q][w] = pt[q][w]
      BY <1>6, <2>0, <2>3
    <3>2. pt[q][w] # None => pt[q][w].pp \in Page
      BY <1>0, <2>0, PtTypes
    <3>. QED
      BY <1>7, <2>1, <3>1, <3>2 DEF Sees
  <2>. QED
    BY <2>2, <2>3
<1>11. MemStep
  BY <1>1, <1>10, SameView DEF SameStatus
<1>. QED
  BY <1>7, <1>8, <1>9, <1>11 DEF RestInv

-----------------------------------------------------------------------------
(* Memory is private: fork *)

LEMMA ForkBeginView ==
  ASSUME ViewInv, NEW p \in Proc, fork_begin(p)
  PROVE  RestInv' /\ MemStep
<1>1. /\ Running(p) /\ loc[p].pc = "user" /\ Goto(p, "exofork")
      /\ UNCHANGED <<status, pt, ucow, aux, content, kern>>
  BY DEF fork_begin, At, memory
<1>0. CowInv /\ TypeOK /\ Copied(p)
  BY <1>1, RunningOK DEF ViewInv, RestInv
<1>2. "exofork" \in Pcs
  BY DEF Pcs
<1>3. (\A k \in Proc : k # p => loc'[k] = loc[k]) /\ loc'[p].pc = "exofork"
  BY <1>0, <1>1, <1>2, GotoAny
<1>4. Eff(p)' \notin ChildPcs
  BY <1>3 DEF Eff, CowPcs, ChildPcs
<1>5. CopyOK(p)' /\ Copied(p)'
  <2>1. CopyOK(p)'
    BY <1>3 DEF CopyOK
  <2>. QED
    BY <1>0, <1>4, <2>1, CopiedKept
<1>. QED
  BY <1>1, <1>3, <1>5, QuietView DEF SameStatus

LEMMA ExoforkView ==
  ASSUME ViewInv, NEW p \in Proc, sys_exofork(p)
  PROVE  RestInv' /\ MemStep
<1>1. PICK c \in Proc \union {None} :
        /\ c # None => status[c] = "free"
        /\ status' = [q \in Proc |-> IF q = c THEN "not_runnable" ELSE status[q]]
        /\ loc' = [loc EXCEPT ![p].pc = "call", ![p].child = c, ![p].i = 1]
  BY DEF sys_exofork
<1>2. /\ Running(p) /\ loc[p].pc = "exofork" /\ UNCHANGED <<pt, ucow, content, kern, ops>>
  BY DEF sys_exofork, At
<1>0. CowInv /\ TypeOK
  BY <1>2, RunningOK DEF ViewInv
<1>. DEFINE l == [loc[p] EXCEPT !.pc = "call", !.child = c, !.i = 1]
<1>3. loc[p] \in Local
  BY <1>0, LocTypes
<1>4. l.pc = "call" /\ l.child = c /\ l.i = 1
  BY <1>3 DEF Local
<1>5. loc' = [loc EXCEPT ![p] = l]
  BY <1>1
<1>. HIDE DEF l
<1>6. loc'[p] = l /\ \A k \in Proc : k # p => loc'[k] = loc[k]
  BY <1>0, <1>5 DEF TypeOK
<1>7. SameStatus
  BY <1>1, CowAssumption DEF SameStatus
<1>8. Eff(p)' = "call"
  BY <1>4, <1>6 DEF Eff, CowPcs
<1>9. CopyOK(p)'
  BY <1>4, <1>6 DEF CopyOK
<1>10. ASSUME c # None, NEW j \in 1..Len(Order)
       PROVE  ~Passed(p, j)' /\ pt'[c][Order[j]] = None
  <2>1. c \in Proc /\ Order[j] \in Va
    BY <1>10, OrderTypes
  <2>2. PageOK(c, Order[j])
    BY <1>0, <2>1 DEF CowInv
  <2>3. pt[c][Order[j]] = None
    BY <1>1, <1>10, <2>2 DEF PageOK
  <2>4. ~Passed(p, j)'
    BY <1>4, <1>6, <1>8, OrderTypes DEF Passed, SecondPcs
  <2>. QED
    BY <1>2, <2>3, <2>4
<1>11. Copied(p)'
  BY <1>4, <1>6, <1>8, <1>10 DEF Copied
<1>. QED
  BY <1>2, <1>6, <1>7, <1>9, <1>11, QuietView

\* fork's loop goes on to the next page, or to the second call for this one.
LEMMA CopiedNext ==
  ASSUME CowInv, NEW p \in Proc, Copied(p), Eff(p) \in ChildPcs, NEW c, c = loc[p].child,
         NEW i \in 1..Len(Order), i = loc[p].i, loc'[p].child = c,
         \/ Eff(p)' = "call" /\ loc'[p].i = i + 1
         \/ Eff(p)' = "again" /\ loc'[p].i = i,
         c # None => \A j \in 1..Len(Order) : j # i => /\ pt'[p][Order[j]] = pt[p][Order[j]]
                                                       /\ pt'[c][Order[j]] = pt[c][Order[j]],
         c # None => \/ pt'[p][Order[i]] = None /\ pt'[c][Order[i]] = None
                     \/ Share(p, c, Order[i])'
  PROVE  Copied(p)'
<1>1. ASSUME c # None, NEW j \in 1..Len(Order)
      PROVE  IF Passed(p, j)'
             THEN Order[j] # Stack => \/ pt'[p][Order[j]] = None /\ pt'[c][Order[j]] = None
                                      \/ Share(p, c, Order[j])'
             ELSE pt'[c][Order[j]] = None
  <2>1. Passed(p, j)' <=> j <= i
    BY DEF Passed, SecondPcs
  <2>2. CASE j = i
    BY <1>1, <2>1, <2>2
  <2>3. CASE j # i
    <3>1. Passed(p, j) <=> j <= i
      BY <2>3 DEF Passed
    <3>2. IF Passed(p, j)
          THEN Order[j] # Stack => \/ pt[p][Order[j]] = None /\ pt[c][Order[j]] = None
                                   \/ Share(p, c, Order[j])
          ELSE pt[c][Order[j]] = None
      BY <1>1 DEF Copied
    <3>3. pt'[p][Order[j]] = pt[p][Order[j]] /\ pt'[c][Order[j]] = pt[c][Order[j]]
      BY <1>1, <2>3
    <3>4. Share(p, c, Order[j])' <=> Share(p, c, Order[j])
      BY <3>3 DEF Share
    <3>. QED
      BY <2>1, <3>1, <3>2, <3>3, <3>4
  <2>. QED
    BY <2>2, <2>3
<1>. QED
  BY <1>1 DEF Copied

\* What fork has passed on when it is at a page.
LEMMA NotYet ==
  ASSUME CowInv, NEW p \in Proc, Copied(p), Eff(p) \in {"call", "dup"}, loc[p].i \in 1..Len(Order),
         loc[p].child # None
  PROVE  pt[loc[p].child][Order[loc[p].i]] = None
<1>1. Eff(p) \in ChildPcs /\ ~Passed(p, loc[p].i)
  BY OrderTypes DEF ChildPcs, Passed, SecondPcs
<1>. QED
  BY <1>1 DEF Copied

LEMMA ForkSkipView ==
  ASSUME ViewInv, NEW p \in Proc, At(p, "call"), loc[p].i <= Len(Order),
         pt[p][Order[loc[p].i]] = None, loc' = [loc EXCEPT ![p].i = loc[p].i + 1],
         UNCHANGED <<status, memory, handler, kern, ops>>
  PROVE  RestInv' /\ MemStep
<1>1. Running(p) /\ loc[p].pc = "call" /\ UNCHANGED <<status, pt, ucow, content>>
  BY DEF At, memory
<1>0. CowInv /\ TypeOK /\ Copied(p)
  BY <1>1, RunningOK DEF ViewInv, RestInv
<1>. DEFINE l == [loc[p] EXCEPT !.i = loc[p].i + 1]
<1>2. loc[p] \in Local
  BY <1>0, LocTypes
<1>3. l.pc = "call" /\ l.child = loc[p].child /\ l.i = loc[p].i + 1
  BY <1>1, <1>2 DEF Local
<1>. HIDE DEF l
<1>4. loc'[p] = l /\ \A k \in Proc : k # p => loc'[k] = loc[k]
  BY <1>0 DEF TypeOK, l
<1>5. Eff(p) = "call" /\ Eff(p)' = "call"
  BY <1>1, <1>3, <1>4 DEF Eff, CowPcs
<1>6. CopyOK(p)'
  BY <1>3, <1>4 DEF CopyOK
<1>7. loc[p].i \in 1..Len(Order)
  BY <1>0, ForkPage
<1>8. Copied(p)'
  <2>1. loc[p].child # None => pt[loc[p].child][Order[loc[p].i]] = None
    BY <1>0, <1>5, <1>7, NotYet
  <2>2. Eff(p) \in ChildPcs
    BY <1>5 DEF ChildPcs
  <2>. QED
    BY <1>0, <1>1, <1>3, <1>4, <1>5, <1>7, <2>1, <2>2, CopiedNext
<1>. QED
  BY <1>1, <1>4, <1>6, <1>8, QuietView DEF SameStatus

LEMMA ForkLoopView ==
  ASSUME ViewInv, NEW p \in Proc, fork_loop(p)
  PROVE  RestInv' /\ MemStep
<1>1. At(p, "call") /\ Running(p) /\ loc[p].pc = "call"
  BY DEF fork_loop, At
<1>2. CASE /\ loc[p].i <= Len(Order) /\ pt[p][Order[loc[p].i]] = None
           /\ loc' = [loc EXCEPT ![p].i = loc[p].i + 1]
           /\ UNCHANGED <<status, memory, handler, kern, ops>>
  BY <1>1, <1>2, ForkSkipView
<1>3. CASE Call(p, "dup")
  BY <1>1, <1>3, StoreView, Calls DEF Call
<1>4. CASE loc[p].i > Len(Order) /\ Call(p, "handler")
  BY <1>1, <1>4, StoreView, Calls DEF Call
<1>. QED
  BY <1>2, <1>3, <1>4 DEF fork_loop

\* A call of sys_mem_map puts a page into an address space where there was none, or
\* the same page: no page loses its last mapping.
LEMMA PtSetMapped ==
  ASSUME NEW t \in Proc, NEW v \in Va, NEW g, NEW m, PtSet(t, v, g, m), ucow' = ucow,
         pt[t][v] = None \/ pt[t][v].pp = g
  PROVE  \A h \in Page : h \in Mapped => h \in Mapped'
<1>. SUFFICES ASSUME NEW h \in Page, h \in Mapped PROVE h \in Mapped'
  OBVIOUS
<1>1. CASE \E q \in Proc : ucow[q] = h
  BY <1>1, MappedNext
<1>2. CASE \E q \in Proc, w \in Va : pt[q][w] # None /\ pt[q][w].pp = h
  <2>1. PICK q \in Proc, w \in Va : pt[q][w] # None /\ pt[q][w].pp = h
    BY <1>2
  <2>2. pt'[q][w] # None /\ pt'[q][w].pp = h
    BY <2>1 DEF PtSet
  <2>. QED
    BY <2>2, MappedNext
<1>. QED
  BY <1>1, <1>2, MappedAll

\* duppage gives the child the page of the parent.
LEMMA DupChildView ==
  ASSUME ViewInv, NEW p \in Proc, Running(p), loc[p].pc = "dup", NEW c \in Proc, loc[p].child = c,
         NEW v \in Va, v = Order[loc[p].i], NEW m, PtSet(c, v, pt[p][v].pp, m),
         \A k \in Proc : k # p => loc'[k] = loc[k],
         loc'[p].child = loc[p].child, Eff(p)' = loc'[p].pc,
         \/ loc'[p].pc = "call" /\ loc'[p].i = loc[p].i + 1
         \/ loc'[p].pc = "again" /\ loc'[p].i = loc[p].i,
         UNCHANGED <<status, ucow, content>>
  PROVE  RestInv' /\ MemStep
<1>0. CowInv /\ TypeOK /\ FreeClean /\ LibOK /\ \A k \in Proc : CopyOK(k) /\ Copied(k)
  BY RunningOK DEF ViewInv, RestInv
<1>1. /\ pt[p][v] # None /\ Eff(p) = "dup" /\ Child(p) = c /\ loc[p].i <= Len(Order) /\ c # None
  BY <1>0, DupAt, CowAssumption
<1>2. loc[p].i \in 1..Len(Order)
  BY <1>0, <1>1, ForkPage
<1>3. pt[c][v] = None
  BY <1>0, <1>1, <1>2, NotYet
<1>4. /\ status[c] = "not_runnable" /\ c # p
      /\ \A q \in Proc : q # p => Child(q) # c
  BY <1>0, <1>1, ChildIdle
<1>5. /\ \A k \in Proc : k # c => pt'[k] = pt[k]
      /\ \A w \in Va : w # v => pt'[c][w] = pt[c][w]
      /\ pt'[c][v] # None /\ pt'[c][v].pp = pt[p][v].pp
  BY DEF PtSet
<1>6. FreeClean'
  BY <1>0, <1>3, PtSetMapped DEF FreeClean
<1>7. LibOK'
  BY <1>0, <1>4, <1>5 DEF LibOK, Share
<1>8. ASSUME NEW k \in Proc PROVE CopyOK(k)' /\ Copied(k)'
  <2>1. CASE k = p
    <3>1. CopyOK(p)'
      BY DEF CopyOK
    <3>2. Eff(p) \in ChildPcs
      BY <1>1 DEF ChildPcs
    <3>3. Share(p, c, v)'
      BY <1>1, <1>4, <1>5 DEF Share
    <3>4. ASSUME NEW j \in 1..Len(Order), j # loc[p].i
          PROVE  pt'[p][Order[j]] = pt[p][Order[j]] /\ pt'[c][Order[j]] = pt[c][Order[j]]
      <4>1. Order[j] \in Va /\ Order[j] # v
        BY <1>2, <3>4, OrderTypes, CowAssumption
      <4>. QED
        BY <1>4, <1>5, <4>1
    <3>5. Copied(p)'
      <4>0. PICK i \in 1..Len(Order) : i = loc[p].i
        BY <1>2
      <4>1. /\ Order[i] = v
            /\ \/ Eff(p)' = "call" /\ loc'[p].i = i + 1
               \/ Eff(p)' = "again" /\ loc'[p].i = i
        BY <4>0
      <4>2. \A j \in 1..Len(Order) : j # i => /\ pt'[p][Order[j]] = pt[p][Order[j]]
                                             /\ pt'[c][Order[j]] = pt[c][Order[j]]
        BY <3>4, <4>0
      <4>3. Share(p, c, Order[i])'
        BY <3>3, <4>1
      <4>4. c = loc[p].child /\ loc'[p].child = c /\ i = loc[p].i /\ Copied(p)
        BY <1>0, <4>0
      <4>. QED
        BY <1>0, <3>2, <4>1, <4>2, <4>3, <4>4, CopiedNext
    <3>. QED
      BY <2>1, <3>1, <3>5
  <2>2. CASE k = c
    <3>1. loc[c] = IdleLocal /\ Eff(c) = "user"
      BY <1>0, <1>4, NotRunning
    <3>2. loc'[c].pc = "user" /\ Eff(c)' = "user"
      BY <1>4, <3>1 DEF Eff, IdleLocal, CowPcs
    <3>. QED
      BY <1>0, <2>2, <3>2, CopiedKept DEF CopyOK, ChildPcs
  <2>3. CASE k # p /\ k # c
    <3>1. Child(k) # None => pt'[Child(k)] = pt[Child(k)]
      <4>1. Child(k) # None => Child(k) \in Proc /\ Child(k) # c
        BY <1>0, <1>4, <2>3, ChildIdle
      <4>. QED
        BY <1>5, <4>1
    <3>. QED
      BY <1>0, <1>5, <2>3, <3>1, CopyOther, CopiedOther
  <2>. QED
    BY <2>1, <2>2, <2>3
<1>9. ASSUME NEW q \in running, NEW w \in Va PROVE Sees(q, w)' = Sees(q, w)
  <2>1. q \in Proc /\ q # c
    BY <1>4 DEF running
  <2>. QED
    BY <1>5, <2>1 DEF Sees
<1>10. MemStep
  BY <1>9, SameView DEF SameStatus
<1>. QED
  BY <1>6, <1>7, <1>8, <1>10 DEF RestInv

\* duppage takes PTE_D from the parent's page.
LEMMA DupParentView ==
  ASSUME ViewInv, NEW p \in Proc, Running(p), loc[p].pc = "map",
         NEW v \in Va, v = Order[loc[p].i], NEW m, PtSet(p, v, pt[p][v].pp, m),
         \A k \in Proc : k # p => loc'[k] = loc[k],
         loc'[p].child = loc[p].child, loc'[p].pc = "call", loc'[p].i = loc[p].i + 1,
         UNCHANGED <<status, ucow, content>>
  PROVE  RestInv' /\ MemStep
<1>0. /\ CowInv /\ TypeOK /\ FreeClean /\ LibOK /\ ForkOK(p) /\ status[p] = "runnable"
      /\ \A k \in Proc : CopyOK(k) /\ Copied(k)
  BY RunningOK DEF ViewInv, RestInv
<1>1. pt[p][v] # None /\ Eff(p) = "map" /\ loc[p].i <= Len(Order) /\ Child(p) = loc[p].child
  BY <1>0, DupAt
<1>2. loc[p].i \in 1..Len(Order) /\ Eff(p)' = "call"
  BY <1>0, <1>1, ForkPage DEF Eff, CowPcs
<1>3. /\ \A k \in Proc : k # p => pt'[k] = pt[k]
      /\ \A w \in Va : w # v => pt'[p][w] = pt[p][w]
      /\ pt'[p][v] # None /\ pt'[p][v].pp = pt[p][v].pp
  BY DEF PtSet
<1>4. v \notin Lib
  <2>1. ~pt[p][v].perm.lib
    BY <1>0, <1>1 DEF ForkOK, SecondPcs
  <2>. QED
    BY <1>0, <2>1 DEF LibOK
<1>5. FreeClean'
  BY <1>0, PtSetMapped DEF FreeClean
<1>6. LibOK'
  <2>1. \A k \in Proc, w \in Lib : pt'[k][w] = pt[k][w]
    BY <1>3, <1>4, CowAssumption
  <2>. QED
    BY <1>0, <2>1 DEF LibOK, Share
<1>7. ASSUME NEW k \in Proc PROVE CopyOK(k)' /\ Copied(k)'
  <2>1. Child(k) # None => Child(k) \in Proc /\ pt'[Child(k)] = pt[Child(k)]
    <3>1. Child(k) # None => Child(k) \in Proc /\ Child(k) # p
      BY <1>0, ChildIdle
    <3>. QED
      BY <1>3, <3>1
  <2>2. CASE k = p
    <3>1. CopyOK(p)'
      BY DEF CopyOK
    <3>2. Eff(p) \in ChildPcs
      BY <1>1 DEF ChildPcs
    <3>3. ASSUME NEW j \in 1..Len(Order), j # loc[p].i
          PROVE  pt'[p][Order[j]] = pt[p][Order[j]]
      <4>1. Order[j] \in Va /\ Order[j] # v
        BY <1>2, <3>3, OrderTypes, CowAssumption
      <4>. QED
        BY <1>3, <4>1
    <3>. DEFINE c == loc[p].child
    <3>4. c # None => c \in Proc /\ c # p /\ pt'[c] = pt[c]
      BY <1>0, <1>1, <2>1, <2>2, ChildIdle
    <3>5. CASE v # Stack
      <4>1. c # None => \/ pt[p][v] = None /\ pt[c][v] = None
                        \/ Share(p, c, v)
        <5>1. Passed(p, loc[p].i)
          BY <1>1 DEF Passed, SecondPcs
        <5>. QED
          BY <1>0, <1>2, <3>2, <3>5, <5>1 DEF Copied
      <4>2. c # None => Share(p, c, v)'
        BY <1>1, <1>3, <3>4, <4>1 DEF Share
      <4>. QED
        BY <1>0, <1>2, <2>2, <3>1, <3>2, <3>3, <3>4, <4>2, CopiedNext
    <3>6. CASE v = Stack
      <4>1. ASSUME c # None, NEW j \in 1..Len(Order)
            PROVE  IF Passed(p, j)'
                   THEN Order[j] # Stack => \/ pt'[p][Order[j]] = None /\ pt'[c][Order[j]] = None
                                            \/ Share(p, c, Order[j])'
                   ELSE pt'[c][Order[j]] = None
        <5>1. Passed(p, j)' <=> Passed(p, j)
          BY <1>1, <1>2 DEF Passed, SecondPcs
        <5>2. IF Passed(p, j)
              THEN Order[j] # Stack => \/ pt[p][Order[j]] = None /\ pt[c][Order[j]] = None
                                       \/ Share(p, c, Order[j])
              ELSE pt[c][Order[j]] = None
          BY <1>0, <3>2, <4>1 DEF Copied
        <5>3. Order[j] # Stack => pt'[p][Order[j]] = pt[p][Order[j]]
          BY <3>3, <3>6
        <5>4. Order[j] # Stack => (Share(p, c, Order[j])' <=> Share(p, c, Order[j]))
          BY <3>4, <4>1, <5>3 DEF Share
        <5>. QED
          BY <3>4, <4>1, <5>1, <5>2, <5>3, <5>4
      <4>2. Copied(p)'
        BY <1>2, <4>1 DEF Copied
      <4>. QED
        BY <2>2, <3>1, <4>2
    <3>. QED
      BY <3>5, <3>6
  <2>3. CASE k # p
    BY <1>0, <1>3, <2>1, <2>3, CopyOther, CopiedOther
  <2>. QED
    BY <2>2, <2>3
<1>8. ASSUME NEW q \in running, NEW w \in Va PROVE Sees(q, w)' = Sees(q, w)
  <2>1. q \in Proc
    BY DEF running
  <2>2. CASE q = p /\ w = v
    BY <1>1, <1>3, <2>2 DEF Sees
  <2>3. CASE ~(q = p /\ w = v)
    BY <1>3, <2>1, <2>3 DEF Sees
  <2>. QED
    BY <2>2, <2>3
<1>9. MemStep
  BY <1>8, SameView DEF SameStatus
<1>. QED
  BY <1>5, <1>6, <1>7, <1>9 DEF RestInv

\* There is no child: fork's loop changes nothing but its own variables.
LEMMA DupNoneView ==
  ASSUME ViewInv, NEW p \in Proc, Running(p), loc[p].child = None,
         \A k \in Proc : k # p => loc'[k] = loc[k],
         loc'[p].child = None, loc'[p].pc \in {"call", "again"}, Eff(p)' = loc'[p].pc,
         UNCHANGED <<status, pt, ucow, content>>
  PROVE  RestInv' /\ MemStep
<1>1. CopyOK(p)'
  BY DEF CopyOK
<1>2. Copied(p)'
  BY DEF Copied
<1>. QED
  BY <1>1, <1>2, QuietView DEF SameStatus

LEMMA DupFirstView ==
  ASSUME ViewInv, NEW p \in Proc, NFree > 0, At(p, "dup"), NEW n, n = pt[p][Order[loc[p].i]].perm,
         duppage_map(p, DupPerm(n, Remap(n)), DupTargets(loc[p].child, p, Remap(n)))
  PROVE  RestInv' /\ MemStep
<1>. DEFINE v == Order[loc[p].i]
            c == loc[p].child
            m == DupPerm(n, Remap(n))
            g == pt[p][v].pp
<1>1. Running(p) /\ loc[p].pc = "dup" /\ CowInv
  BY DEF At, ViewInv
<1>0. TypeOK
  BY <1>1, RunningOK
<1>2. loc[p].i <= Len(Order) /\ v \in Va /\ pt[p][v] # None
  BY <1>1, DupAt
<1>3. n \in Perm /\ g \in Page /\ c \in Proc \union {None}
  BY <1>0, <1>2, PtTypes, LocTypes
<1>4. (~n.d => n.cow) /\ (n.cow => ~n.lib)
  <2>1. PageOK(p, v)
    BY <1>1, <1>2 DEF CowInv
  <2>. QED
    BY <1>2, <2>1 DEF PageOK
<1>5. m \in Perm
  BY <1>3, <1>4, DupPermOK
<1>. HIDE DEF m
<1>6. /\ UNCHANGED <<status, ucow, content, handler, kern, ops>>
      /\ MapFails(c) \/ MapDone(p, c, m)
      /\ \A k \in Proc : k # p => loc'[k] = loc[k]
      /\ loc'[p].child = c /\ Eff(p)' = loc'[p].pc
      /\ \/ loc'[p].pc = "call" /\ loc'[p].i = loc[p].i + 1
         \/ loc'[p].pc = "again" /\ loc'[p].i = loc[p].i
  <2>1. CASE Remap(n)
    <3>1. duppage_map(p, m, <<c, p>>)
      BY <2>1 DEF DupTargets, m
    <3>2. /\ loc' = [loc EXCEPT ![p] = [@ EXCEPT !.pc = "again", !.perm = m, !.targets = <<p>>]]
          /\ UNCHANGED <<status, ucow, content, handler, kern, ops>>
          /\ MapFails(c) \/ MapDone(p, c, m)
      BY <3>1, DupMapTwo
    <3>3. /\ \A k \in Proc : k # p => loc'[k] = loc[k]
          /\ loc'[p].pc = "again" /\ loc'[p].i = loc[p].i /\ loc'[p].child = loc[p].child
          /\ Eff(p)' = "again"
      BY <1>0, <1>5, <3>2, DupLocAgain
    <3>. QED
      BY <3>2, <3>3
  <2>2. CASE ~Remap(n)
    <3>1. duppage_map(p, m, <<c>>)
      BY <2>2 DEF DupTargets, m
    <3>2. /\ loc' = [loc EXCEPT ![p] = [@ EXCEPT !.pc = "call", !.i = loc[p].i + 1, !.targets = <<>>,
                                                 !.perm = IdleLocal.perm]]
          /\ UNCHANGED <<status, ucow, content, handler, kern, ops>>
          /\ MapFails(c) \/ MapDone(p, c, m)
      BY <3>1, DupMapOne
    <3>3. /\ \A k \in Proc : k # p => loc'[k] = loc[k]
          /\ loc'[p].pc = "call" /\ loc'[p].i = loc[p].i + 1 /\ loc'[p].child = loc[p].child
          /\ Eff(p)' = "call"
      BY <1>0, <1>2, <3>2, DupLocNext
    <3>. QED
      BY <3>2, <3>3
  <2>. QED
    BY <2>1, <2>2
<1>7. CASE MapFails(c)
  <2>1. c = None /\ UNCHANGED <<pt, aux>>
    BY <1>7 DEF MapFails
  <2>. QED
    BY <1>1, <1>6, <2>1, DupNoneView
<1>8. CASE MapDone(p, c, m)
  <2>1. c \in Proc
    BY <1>3, <1>8 DEF MapDone
  <2>2. PtSet(c, v, g, m)
    BY <1>0, <1>2, <1>3, <1>5, <1>8, <2>1, PtUpdate DEF MapDone
  <2>. QED
    BY <1>1, <1>2, <1>6, <2>1, <2>2, DupChildView
<1>. QED
  BY <1>6, <1>7, <1>8

LEMMA DupSecondView ==
  ASSUME ViewInv, NEW p \in Proc, At(p, "map"), duppage_map(p, loc[p].perm, loc[p].targets)
  PROVE  RestInv' /\ MemStep
<1>. DEFINE v == Order[loc[p].i]
<1>1. Running(p) /\ loc[p].pc = "map" /\ CowInv
  BY DEF At, ViewInv
<1>0. TypeOK /\ ForkOK(p) /\ loc[p].perm \in Perm
  BY <1>1, RunningOK, LocTypes
<1>2. loc[p].i <= Len(Order) /\ v \in Va /\ pt[p][v] # None /\ Eff(p) = "map"
  BY <1>1, DupAt
<1>3. loc[p].targets = <<p>> /\ pt[p][v].pp \in Page /\ "table" \in aux[p] /\ p # None
  <2>1. PageOK(p, v)
    BY <1>1, <1>2 DEF CowInv
  <2>2. "table" \in aux[p]
    BY <1>2, <2>1 DEF PageOK
  <2>3. pt[p][v].pp \in Page
    BY <1>0, <1>2, PtTypes
  <2>4. loc[p].targets = <<p>>
    BY <1>0, <1>2 DEF ForkOK, SecondPcs
  <2>. QED
    BY <2>2, <2>3, <2>4, CowAssumption
<1>4. /\ loc' = [loc EXCEPT ![p] = [@ EXCEPT !.pc = "call", !.i = loc[p].i + 1, !.targets = <<>>,
                                             !.perm = IdleLocal.perm]]
      /\ UNCHANGED <<status, ucow, content, handler, kern, ops>>
      /\ MapDone(p, p, loc[p].perm)
  <2>1. duppage_map(p, loc[p].perm, <<p>>)
    BY <1>3
  <2>. QED
    BY <1>3, <2>1, DupMapOne DEF MapFails
<1>5. PtSet(p, v, pt[p][v].pp, loc[p].perm)
  BY <1>0, <1>2, <1>3, <1>4, PtUpdate DEF MapDone
<1>6. /\ \A k \in Proc : k # p => loc'[k] = loc[k]
      /\ loc'[p].pc = "call" /\ loc'[p].i = loc[p].i + 1 /\ loc'[p].child = loc[p].child
  BY <1>0, <1>2, <1>4, DupLocNext
<1>. QED
  BY <1>1, <1>2, <1>4, <1>5, <1>6, DupParentView

LEMMA DuppageView ==
  ASSUME ViewInv, NEW p \in Proc, NFree > 0, duppage(p)
  PROVE  RestInv' /\ MemStep
<1>1. CASE At(p, "dup") /\ LET n == pt[p][Order[loc[p].i]].perm
                           IN  duppage_map(p, DupPerm(n, Remap(n)), DupTargets(loc[p].child, p, Remap(n)))
  BY <1>1, DupFirstView
<1>2. CASE At(p, "again") /\ Call(p, "map")
  <2>1. Running(p) /\ loc[p].pc = "again"
    BY <1>2 DEF At
  <2>. QED
    BY <1>2, <2>1, StoreView, Calls DEF Call
<1>3. CASE At(p, "map") /\ duppage_map(p, loc[p].perm, loc[p].targets)
  BY <1>3, DupSecondView
<1>. QED
  BY <1>1, <1>2, <1>3 DEF duppage

LEMMA SetHandlerView ==
  ASSUME ViewInv, NEW p \in Proc, fork_set_handler(p)
  PROVE  RestInv' /\ MemStep
<1>. DEFINE c == loc[p].child
            l == IF c = None THEN IdleLocal ELSE [loc[p] EXCEPT !.pc = "status"]
<1>1. /\ Running(p) /\ loc[p].pc = "handler"
      /\ UNCHANGED <<status, pt, ucow, aux, content, kern, ops>> /\ loc' = [loc EXCEPT ![p] = l]
  BY DEF fork_set_handler, At, memory
<1>0. CowInv /\ TypeOK /\ Copied(p)
  BY <1>1, RunningOK DEF ViewInv, RestInv
<1>2. loc[p] \in Local
  BY <1>0, LocTypes
<1>3. \/ l.pc = "user"
      \/ l.pc = "status" /\ l.child = c /\ l.i = loc[p].i
  BY <1>2 DEF Local, IdleLocal
<1>. HIDE DEF l
<1>4. loc'[p] = l /\ \A k \in Proc : k # p => loc'[k] = loc[k]
  BY <1>0, <1>1 DEF TypeOK
<1>5. Eff(p) = "handler" /\ Eff(p)' = l.pc
  BY <1>1, <1>3, <1>4 DEF Eff, CowPcs
<1>6. CopyOK(p)'
  BY <1>3, <1>4 DEF CopyOK
<1>7. Copied(p)'
  <2>1. loc[p].i > Len(Order)
    BY <1>0, <1>5 DEF Copied
  <2>2. CASE l.pc = "user"
    BY <1>0, <1>5, <2>2, CopiedKept DEF ChildPcs
  <2>3. CASE l.pc = "status" /\ l.child = c /\ l.i = loc[p].i
    BY <1>0, <1>1, <1>4, <1>5, <2>1, <2>3, CopiedKept DEF ChildPcs, SecondPcs
  <2>. QED
    BY <1>3, <2>2, <2>3
<1>. QED
  BY <1>1, <1>4, <1>6, <1>7, QuietView DEF SameStatus

\* The child starts with the memory of its parent.
LEMMA SetStatusView ==
  ASSUME ViewInv, NEW p \in Proc, fork_set_status(p)
  PROVE  RestInv' /\ MemStep
<1>. DEFINE c == loc[p].child
<1>1. /\ Running(p) /\ loc[p].pc = "status"
      /\ UNCHANGED <<pt, ucow, aux, content, handler, kern, ops>>
      /\ status' = [status EXCEPT ![c] = "runnable"] /\ loc' = [loc EXCEPT ![p] = IdleLocal]
  BY DEF fork_set_status, At, memory
<1>0. /\ CowInv /\ TypeOK /\ FreeClean /\ LibOK /\ ChildOK(p) /\ status[p] = "runnable"
      /\ \A k \in Proc : CopyOK(k) /\ Copied(k)
  BY <1>1, RunningOK DEF ViewInv, RestInv
<1>2. Eff(p) = "status" /\ Child(p) = c /\ c # None
  BY <1>0, <1>1 DEF Eff, CowPcs, Child, ChildPcs, ChildOK
<1>3. c \in Proc /\ c # p /\ status[c] = "not_runnable"
  BY <1>0, <1>2, ChildIdle
<1>4. ASSUME NEW w \in Va, w # Stack
      PROVE  (pt[p][w] = None /\ pt[c][w] = None) \/ Share(p, c, w)
  <2>1. PICK j \in 1..Len(Order) : Order[j] = w
    BY DEF Va
  <2>2. Passed(p, j)
    BY <1>0, <1>2, OrderTypes, LocTypes DEF Copied, Passed
  <2>. QED
    BY <1>0, <1>2, <1>4, <2>1, <2>2 DEF Copied, ChildPcs
<1>. HIDE DEF c
<1>5. /\ loc'[p] = IdleLocal /\ \A k \in Proc : k # p => loc'[k] = loc[k]
      /\ status'[c] = "runnable" /\ \A k \in Proc : k # c => status'[k] = status[k]
  BY <1>0, <1>1, <1>3, IdleType DEF TypeOK
<1>6. FreeClean'
  <2>1. Mapped' = Mapped
    BY <1>1 DEF Mapped
  <2>. QED
    BY <1>0, <1>1, <2>1 DEF FreeClean
<1>7. LibOK'
  <2>1. ASSUME NEW q \in Proc, NEW v \in Lib, status'[q] = "runnable"
        PROVE  Share(p, q, v) /\ pt[q][v].perm.lib
    <3>0. v \in Va /\ v # Stack
      BY CowAssumption
    <3>1. Share(p, p, v) /\ pt[p][v].perm.lib
      BY <1>0 DEF LibOK
    <3>2. CASE q # c
      BY <1>0, <1>5, <2>1, <3>2 DEF LibOK
    <3>3. CASE q = c
      <4>1. Share(p, c, v)
        BY <1>4, <3>0, <3>1 DEF Share
      <4>2. ShareOK(p, c, v)
        BY <1>0, <1>3, <3>0 DEF CowInv
      <4>. QED
        BY <1>3, <3>1, <3>3, <4>1, <4>2 DEF ShareOK
    <3>. QED
      BY <3>2, <3>3
  <2>2. ASSUME NEW q \in Proc, NEW r \in Proc, NEW v \in Lib,
               status'[q] = "runnable", status'[r] = "runnable"
        PROVE  Share(q, r, v)' /\ pt'[q][v].perm.lib
    <3>1. Share(p, q, v) /\ Share(p, r, v) /\ pt[q][v].perm.lib
      BY <2>1, <2>2
    <3>. QED
      BY <1>1, <3>1 DEF Share
  <2>. QED
    BY <2>2 DEF LibOK
<1>8. ASSUME NEW k \in Proc PROVE CopyOK(k)' /\ Copied(k)'
  <2>1. CASE k = p
    <3>1. loc'[p].pc = "user" /\ Eff(p)' = "user"
      BY <1>5 DEF Eff, IdleLocal, CowPcs
    <3>. QED
      BY <1>0, <2>1, <3>1, CopiedKept DEF CopyOK, ChildPcs
  <2>2. CASE k # p
    BY <1>0, <1>1, <1>5, <2>2, CopyOther, CopiedOther
  <2>. QED
    BY <2>1, <2>2
<1>9. MemStep
  <2>. DEFINE x == Sees(c, Stack)
  <2>1. running' = running \union {c} /\ p \in running /\ c \in Proc \ running
    BY <1>0, <1>3, <1>5 DEF running
  <2>2. x \in Val
    <3>1. pt[c][Stack] # None => pt[c][Stack].pp \in Page
      BY <1>0, <1>3, PtTypes, OrderTypes
    <3>. QED
      BY <1>0, <3>1, CowAssumption DEF Sees, TypeOK
  <2>3. \A w \in Va : w # Stack => Sees(c, w) = Sees(p, w)
    BY <1>4 DEF Sees, Share
  <2>4. \A q \in running, w \in Va : view[q][w] = Sees(q, w)
    BY DEF view, Sees
  <2>5. view' = [q \in running' |-> [w \in Va |-> Sees(q, w)]]
    BY <1>1 DEF view, Sees
  <2>. HIDE DEF x
  <2>6. \A q \in running', w \in Va :
          Sees(q, w) = IF q # c THEN view[q][w] ELSE IF w = Stack THEN x ELSE view[p][w]
    BY <2>1, <2>3, <2>4 DEF x
  <2>7. view' = [q \in running' |-> [w \in Va |->
                  IF q # c THEN view[q][w] ELSE IF w = Stack THEN x ELSE view[p][w]]]
    BY <2>5, <2>6
  <2>8. Private!Fork
    BY <2>1, <2>2, <2>7 DEF Private!Fork
  <2>. QED
    BY <2>8 DEF MemStep
<1>. QED
  BY <1>6, <1>7, <1>8, <1>9 DEF RestInv

LEMMA ExitView ==
  ASSUME ViewInv, NEW p \in Proc, exit(p)
  PROVE  RestInv' /\ MemStep
<1>1. /\ Running(p) /\ loc[p].pc \in {"user", "user_panic"}
      /\ status' = [status EXCEPT ![p] = "free"] /\ pt' = [pt EXCEPT ![p] = [v \in Va |-> None]]
      /\ ucow' = [ucow EXCEPT ![p] = None] /\ loc' = [loc EXCEPT ![p] = IdleLocal]
      /\ content' = Cleared
  BY DEF exit
<1>0. /\ CowInv /\ TypeOK /\ FreeClean /\ LibOK /\ status[p] = "runnable"
      /\ \A k \in Proc : CopyOK(k) /\ Copied(k)
  BY <1>1, RunningOK DEF ViewInv, RestInv
<1>2. /\ \A k \in Proc : k # p => /\ loc'[k] = loc[k] /\ ucow'[k] = ucow[k]
                                  /\ status'[k] = status[k] /\ pt'[k] = pt[k]
      /\ loc'[p] = IdleLocal /\ status'[p] = "free"
  BY <1>0, <1>1 DEF TypeOK
<1>3. FreeClean' /\ \A h \in Page : h \in Mapped' => content'[h] = content[h]
  BY <1>1, ClearedKeeps
<1>4. LibOK'
  BY <1>0, <1>2 DEF LibOK, Share
<1>5. ASSUME NEW k \in Proc PROVE CopyOK(k)' /\ Copied(k)'
  <2>1. CASE k = p
    <3>1. loc'[p].pc = "user" /\ Eff(p)' = "user"
      BY <1>2 DEF Eff, IdleLocal, CowPcs
    <3>. QED
      BY <1>0, <2>1, <3>1, CopiedKept DEF CopyOK, ChildPcs
  <2>2. CASE k # p
    <3>1. Child(k) # None => pt'[Child(k)] = pt[Child(k)]
      <4>1. Child(k) # None => Child(k) \in Proc /\ Child(k) # p
        BY <1>0, ChildIdle
      <4>. QED
        BY <1>2, <4>1
    <3>2. ASSUME loc[k].pc = "remap"
          PROVE  /\ content'[ucow[k]] = content[ucow[k]]
                 /\ content'[pt[k][loc[k].va].pp] = content[pt[k][loc[k].va].pp]
      <4>1. /\ loc[k].va \in Va /\ pt[k][loc[k].va] # None /\ pt[k][loc[k].va].pp \in Page
            /\ ucow[k] \in Page
        BY <1>0, <3>2, RemapFacts
      <4>2. ucow[k] \in Mapped' /\ pt[k][loc[k].va].pp \in Mapped'
        BY <1>2, <2>2, <4>1, MappedNext
      <4>. QED
        BY <1>3, <4>1, <4>2
    <3>. QED
      BY <1>0, <1>2, <2>2, <3>1, <3>2, CopyOther, CopiedOther
  <2>. QED
    BY <2>1, <2>2
<1>6. MemStep
  <2>1. running' = running \ {p} /\ p \in running
    BY <1>0, <1>2 DEF running
  <2>2. ASSUME NEW q \in running', NEW w \in Va PROVE Sees(q, w)' = view[q][w]
    <3>1. q \in Proc /\ q # p /\ q \in running
      BY <2>1 DEF running
    <3>2. view[q][w] = Sees(q, w)
      BY <3>1 DEF view, Sees
    <3>3. pt'[q][w] = pt[q][w]
      BY <1>2, <3>1
    <3>4. pt[q][w] # None => pt[q][w].pp \in Page /\ pt[q][w].pp \in Mapped'
      <4>1. pt[q][w] # None => pt[q][w].pp \in Page
        BY <1>0, <3>1, PtTypes
      <4>2. pt[q][w] # None => pt[q][w].pp \in Mapped'
        BY <3>1, <3>3, MappedNext
      <4>. QED
        BY <4>1, <4>2
    <3>. QED
      BY <1>3, <3>2, <3>3, <3>4 DEF Sees
  <2>3. view' = [q \in running' |-> [w \in Va |-> Sees(q, w)']]
    BY DEF view, Sees
  <2>4. \A q \in running : view[q] = [w \in Va |-> view[q][w]]
    BY DEF view
  <2>5. view' = [q \in running' |-> view[q]]
    BY <2>1, <2>2, <2>3, <2>4
  <2>6. Private!Exit
    BY <2>1, <2>5 DEF Private!Exit
  <2>. QED
    BY <2>6 DEF MemStep
<1>. QED
  BY <1>3, <1>4, <1>5, <1>6 DEF RestInv

\* Every step keeps the invariant and is a step of the abstract memory, if there is
\* memory for the page table of a child.
LEMMA NextView == ViewInv /\ NFree > 0 /\ [Next]_vars => ViewInv' /\ MemStep
<1>. SUFFICES ASSUME ViewInv, NFree > 0, [Next]_vars PROVE RestInv' /\ MemStep
  BY NextCow DEF ViewInv
<1>1. CASE UNCHANGED vars
  <2>1. UNCHANGED <<status, pt, ucow, content, loc>>
    BY <1>1 DEF vars, memory
  <2>2. RestInv'
    BY <2>1 DEF ViewInv, RestInv, FreeClean, Mapped, LibOK, Share, CopyOK, Copied, Passed, Eff
  <2>3. MemStep
    BY <2>1 DEF MemStep, running, view
  <2>. QED
    BY <2>2, <2>3
<1>2. CASE Next
  <2>1. PICK p \in Proc : Write(p) \/ cow_entry(p) \/ fork(p) \/ exit(p)
    BY <1>2 DEF Next
  <2>2. CASE Write(p)
    <3>1. Running(p) /\ loc[p].pc = "user" /\ "user" \in Pcs
      BY <2>2 DEF Write, At, Pcs
    <3>2. PICK v \in Va, x \in Val : Store(p, v, x, "user")
      BY <2>2 DEF Write
    <3>. QED
      BY <3>1, <3>2, StoreView
  <2>3. CASE cow_entry(p)
    BY <2>3, CowAllocView, CowCopyView, CowMapView, CowUnmapView DEF cow_entry
  <2>4. CASE fork(p)
    BY <2>4, ForkBeginView, ExoforkView, ForkLoopView, DuppageView, SetHandlerView, SetStatusView
       DEF fork
  <2>5. CASE exit(p)
    BY <2>5, ExitView
  <2>. QED
    BY <2>1, <2>2, <2>3, <2>4, <2>5
<1>. QED
  BY <1>1, <1>2

LEMMA InitView == Init => ViewInv /\ Private!Init
<1>. SUFFICES ASSUME Init PROVE RestInv /\ Private!Init
  BY InitCow DEF ViewInv
<1>0. TypeOK
  BY InitCow DEF CowInv
<1>1. FreeClean
  BY DEF FreeClean, Init
<1>2. LibOK
  <2>. SUFFICES ASSUME NEW p \in Proc, NEW q \in Proc, NEW v \in Lib,
                       status[p] = "runnable", status[q] = "runnable"
                PROVE  Share(p, q, v) /\ pt[p][v].perm.lib
    BY DEF LibOK
  <2>1. p = Parent /\ q = Parent
    BY DEF Init
  <2>2. v \in Va /\ v \notin Unmapped
    BY CowAssumption
  <2>. DEFINE m == [d |-> TRUE, cow |-> FALSE, lib |-> v \in Lib]
  <2>3. m.lib
    BY Zenon
  <2>4. pt[p][v] = [pp |-> <<p, v, 1>>, perm |-> m]
    BY <2>1, <2>2 DEF Init
  <2>. HIDE DEF m
  <2>5. pt[p][v].perm = m /\ pt[p][v] # None
    <3>1. m \in Perm
      <4>1. (v \in Lib) = TRUE
        OBVIOUS
      <4>2. m = [d |-> TRUE, cow |-> FALSE, lib |-> TRUE]
        BY <4>1, Zenon DEF m
      <4>. QED
        BY <4>2, PermFields
    <3>2. <<p, v, 1>> \in Page
      <4>1. Cardinality(Proc) \in Nat
        BY CowAssumption, FS_CardinalityType
      <4>. QED
        BY <2>2, <4>1 DEF Page
    <3>. QED
      <4>1. pt[p][v] \in [pp : Page, perm : Perm]
        BY <2>4, <3>1, <3>2
      <4>2. pt[p][v] # None
        BY <4>1, CowAssumption
      <4>. QED
        BY <2>4, <4>2
  <2>. QED
    BY <2>1, <2>3, <2>5 DEF Share
<1>3. ASSUME NEW p \in Proc PROVE CopyOK(p) /\ Copied(p)
  <2>1. loc[p].pc = "user" /\ Eff(p) = "user"
    BY DEF Init, Eff, IdleLocal, CowPcs
  <2>. QED
    BY <2>1 DEF CopyOK, Copied, ChildPcs
<1>4. Private!Init
  <2>1. ASSUME NEW p \in running, NEW v \in Va
        PROVE  (IF pt[p][v] = None THEN 0 ELSE content[pt[p][v].pp]) \in Val
    <3>1. p \in Proc
      BY DEF running
    <3>2. pt[p][v] # None => pt[p][v].pp \in Page
      BY <1>0, <3>1, PtTypes
    <3>. QED
      BY <1>0, <3>2, CowAssumption DEF TypeOK
  <2>2. view \in [running -> [Va -> Val]]
    BY <2>1 DEF view
  <2>3. running \in SUBSET Proc
    BY DEF running
  <2>. QED
    BY <2>2, <2>3 DEF Private!Init
<1>. QED
  BY <1>1, <1>2, <1>3, <1>4 DEF RestInv

\* As long as a page is free whenever one is asked for, copy-on-write cannot be told
\* from copying all memory at fork: a store is seen by its own process alone, but
\* for the pages shared on purpose, and faults, copies and the steps of fork of all
\* processes, in any order, change what nobody reads.
THEOREM CowPrivate == Spec /\ [](NFree > 0) => MemoryIsPrivate
  BY InitView, NextView, PTL DEF Spec, MemoryIsPrivate, Private!Spec, MemStep

-----------------------------------------------------------------------------
(* When memory suffices *)

\* A frame for every page of every process, its UCOW, directory, page table and
\* exception stack, and one more.
EnoughMemory == NPage > Cardinality(Proc) * (Len(Order) + 4)

LEMMA NeverOut == ASSUME EnoughMemory, TypeOK PROVE NFree > 0
<1>. DEFINE P == Cardinality(Proc)
            L == Len(Order)
            I == 1..(L + 1)
            S == Proc \X I
            f == [s \in S |-> IF s[2] > L THEN ucow[s[1]]
                              ELSE IF pt[s[1]][Order[s[2]]] = None THEN None
                              ELSE pt[s[1]][Order[s[2]]].pp]
            T == {f[s] : s \in S}
            M == Mapped \ {None}
            A == {"dir", "table", "xstack"}
            W == UNION {{p} \X aux[p] : p \in Proc}
<1>1. IsFiniteSet(Proc) /\ P \in Nat /\ L \in Nat /\ NPage \in Nat
  BY CowAssumption, OrderTypes, FS_CardinalityType
<1>2. IsFiniteSet(I) /\ Cardinality(I) = L + 1
  <2>1. 1 \in Int /\ L + 1 \in Int /\ ~(1 > L + 1) /\ L + 1 - 1 + 1 = L + 1
    BY <1>1
  <2>. QED
    BY <2>1, FS_Interval
<1>3. IsFiniteSet(S) /\ Cardinality(S) = P * (L + 1)
  <2>. HIDE DEF I
  <2>. QED
    BY <1>1, <1>2, FS_Product
<1>4. M \subseteq T
  <2>. SUFFICES ASSUME NEW g \in M PROVE \E s \in S : f[s] = g
    OBVIOUS
  <2>1. CASE \E q \in Proc : ucow[q] = g
    <3>1. PICK q \in Proc : ucow[q] = g
      BY <2>1
    <3>2. <<q, L + 1>> \in S /\ L + 1 > L
      BY <1>1
    <3>3. f[<<q, L + 1>>] = ucow[q]
      BY <3>2
    <3>. QED
      BY <3>1, <3>2, <3>3
  <2>2. CASE \E q \in Proc, v \in Va : pt[q][v] # None /\ pt[q][v].pp = g
    <3>1. PICK q \in Proc, v \in Va : pt[q][v] # None /\ pt[q][v].pp = g
      BY <2>2
    <3>2. PICK j \in 1..L : Order[j] = v
      BY DEF Va
    <3>3. <<q, j>> \in S /\ ~(j > L)
      BY <1>1
    <3>4. f[<<q, j>>] = pt[q][v].pp
      BY <3>1, <3>2, <3>3
    <3>. QED
      BY <3>1, <3>3, <3>4
  <2>. QED
    BY <2>1, <2>2, MappedAll
<1>5. IsFiniteSet(T) /\ Cardinality(T) <= Cardinality(S)
  <2>1. f \in [S -> T] /\ \A t \in T : \E s \in S : f[s] = t
    <3>1. f = [s \in S |-> f[s]]
      OBVIOUS
    <3>. HIDE DEF f
    <3>. QED
      BY <3>1
  <2>. HIDE DEF f, S, T
  <2>2. f \in Surjection(S, T)
    BY <2>1 DEF Surjection
  <2>. QED
    BY <1>3, <2>2, FS_Surjection
<1>6. IsFiniteSet(M) /\ Cardinality(M) <= Cardinality(T)
  <2>. HIDE DEF T, M
  <2>. QED
    BY <1>4, <1>5, FS_Subset
<1>7. IsFiniteSet(A) /\ Cardinality(A) = 3
  <2>1. IsFiniteSet({"dir"}) /\ Cardinality({"dir"}) = 1
    BY FS_Singleton
  <2>2. IsFiniteSet({"dir", "table"}) /\ Cardinality({"dir", "table"}) = 2
    <3>1. {"dir", "table"} = {"dir"} \union {"table"} /\ "table" \notin {"dir"}
      OBVIOUS
    <3>. QED
      BY <2>1, <3>1, FS_AddElement
  <2>3. A = {"dir", "table"} \union {"xstack"} /\ "xstack" \notin {"dir", "table"}
    OBVIOUS
  <2>. QED
    BY <2>2, <2>3, FS_AddElement
<1>8. W \subseteq Proc \X A
  BY DEF TypeOK
<1>9. IsFiniteSet(Proc \X A) /\ Cardinality(Proc \X A) = P * 3
  <2>. HIDE DEF A
  <2>. QED
    BY <1>1, <1>7, FS_Product
<1>10. IsFiniteSet(W) /\ Cardinality(W) <= P * 3
  <2>. HIDE DEF W, A
  <2>. QED
    BY <1>8, <1>9, FS_Subset
<1>11. Cardinality(M) \in Nat /\ Cardinality(W) \in Nat /\ Cardinality(T) \in Nat
  <2>. HIDE DEF M, W, T
  <2>. QED
    BY <1>5, <1>6, <1>10, FS_CardinalityType
<1>12. NFree = NPage - Cardinality(M) - Cardinality(W)
  BY DEF NFree
<1>13. NPage > P * (L + 4)
  BY DEF EnoughMemory
<1>. HIDE DEF P, L, M, W, T, S
<1>14. P * (L + 4) = P * (L + 1) + P * 3
  BY <1>1
<1>15. P * (L + 1) \in Nat /\ P * 3 \in Nat
  BY <1>1
<1>. QED
  BY <1>1, <1>3, <1>5, <1>6, <1>10, <1>11, <1>12, <1>13, <1>14, <1>15

\* With a frame for everything that the processes can map, fork always keeps memory
\* private.
THEOREM CowPrivateEnough ==
  ASSUME EnoughMemory
  PROVE  Spec => MemoryIsPrivate
<1>1. TypeOK => NFree > 0
  BY NeverOut
<1>. QED
  BY <1>1, CowTypes, CowPrivate, PTL
=============================================================================
