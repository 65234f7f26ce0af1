---------------------------- MODULE KernelProofs ----------------------------
(***************************************************************************)
(* Theorems about the kernel, for any number of environments, pages, ASIDs,*)
(* virtual pages and TLB slots.  The first half is about what the          *)
(* operations of the kernel's two data structures preserve: the page       *)
(* tables with their reference counts (pmap.c), then the tail queues       *)
(* (queue.h).                                                              *)
(***************************************************************************)
EXTENDS Kernel, FiniteSetTheorems, TLAPS

-----------------------------------------------------------------------------
(***************************************************************************)
(* What the operations of pmap.c preserve.  Core says that the reference   *)
(* counts are exact and that free pages are unmapped; Shape that page      *)
(* tables are in place and private.  An operation is split into the two    *)
(* elementary changes it is made of: entering a page into an empty entry,  *)
(* and clearing an entry.                                                  *)
(*                                                                         *)
(* RefBound is the hypothesis under which pp_ref does not wrap.            *)
(***************************************************************************)

RefBound == Cardinality(Env \X Va) < RefMod

Core(m) == /\ m \in Mem /\ ~m.assert_failed
           /\ RefsExact(m) /\ FreeUnmapped(m)

Shape(m) == TablesPrivate(m) /\ TablesPresent(m)

\* The addresses, the entries and the address spaces are finite sets.
LEMMA VaFinite == IsFiniteSet(Va) /\ IsFiniteSet(Env \X Va)
<1>1. IsFiniteSet(UserVa \union PtVa)
  BY LayoutAssumption, FS_Union
<1>2. IsFiniteSet(Va)
  BY <1>1, FS_AddElement DEF Va
<1>3. IsFiniteSet(Env \X Va)
  BY <1>2, EnvAssumption, FS_Product
<1> QED BY <1>2, <1>3

LEMMA TableType == ASSUME NEW v \in Va
                   PROVE  Table(v) \in PtVa \union {PdVa} /\ Table(v) \in Va
BY LayoutAssumption DEF Table, Va

\* The set of places that refer to a page is finite and no larger than the
\* number of places there are.
LEMMA RefsFinite ==
  ASSUME NEW m, NEW p
  PROVE  /\ IsFiniteSet(Refs(m, p))
         /\ Cardinality(Refs(m, p)) \in Nat
         /\ Cardinality(Refs(m, p)) <= Cardinality(Env \X Va)
<1>1. Refs(m, p) \in SUBSET (Env \X Va)
  BY DEF Refs
<1> QED BY <1>1, VaFinite, FS_Subset, FS_CardinalityType

\* Core only depends on the counts, the free list and the entries.
LEMMA CoreTlb ==
  ASSUME NEW m, Core(m), NEW n \in Mem,
         n.ref = m.ref, n.free = m.free, n.pt = m.pt,
         n.assert_failed = m.assert_failed, n.leaked = m.leaked
  PROVE  /\ Core(n) /\ \A p : Refs(n, p) = Refs(m, p)
         /\ Shape(m) => Shape(n)
<1>1. \A p : Refs(n, p) = Refs(m, p)
  BY DEF Refs
<1>2. Core(n)
  BY <1>1 DEF Core, RefsExact, FreeUnmapped, Lost
<1>3. Shape(m) => Shape(n)
  BY <1>1 DEF Shape, TablesPrivate, TablesPresent
<1> QED BY <1>1, <1>2, <1>3

\* How changing one entry changes the places that refer to each page.
LEMMA RefsUpdate ==
  ASSUME NEW m \in Mem, NEW n \in Mem, NEW e \in Env, NEW v \in Va, NEW x \in Entry,
         n.pt = [m.pt EXCEPT ![e][v] = x], NEW p \in Page
  PROVE  Refs(n, p) = IF x # NoPte /\ x.pp = p THEN Refs(m, p) \union {<<e, v>>}
                                               ELSE Refs(m, p) \ {<<e, v>>}
<1>1. m.pt \in [Env -> [Va -> Entry]]
  BY DEF Mem
<1>2. n.pt[e][v] = x
  BY <1>1
<1>3. \A y \in Env \X Va : y # <<e, v>> => n.pt[y[1]][y[2]] = m.pt[y[1]][y[2]]
  BY <1>1
<1>4. \A y \in Env \X Va : y = <<e, v>> => y[1] = e /\ y[2] = v
  OBVIOUS
<1> QED BY <1>2, <1>3, <1>4 DEF Refs

\* An empty entry refers to nothing.
LEMMA EmptyEntry ==
  ASSUME NEW m \in Mem, NEW e \in Env, NEW v \in Va, m.pt[e][v] = NoPte, NEW p
  PROVE  <<e, v>> \notin Refs(m, p)
BY DEF Refs

\* n is m with page x.pp entered at v, 'pp_ref++' included.
Entered(m, n, e, v, x) ==
  /\ n \in Mem
  /\ n.ref = [m.ref EXCEPT ![x.pp] = (m.ref[x.pp] + 1) % RefMod]
  /\ n.free = m.free /\ n.tlb = m.tlb /\ n.assert_failed = m.assert_failed
  /\ n.leaked = m.leaked
  /\ n.pt = [m.pt EXCEPT ![e][v] = x]

LEMMA EnterFields ==
  ASSUME NEW m \in Mem, NEW e \in Env, NEW v \in Va, NEW x \in Pte
  PROVE  Entered(m, [page_incref(m, x.pp) EXCEPT !.pt[e][v] = x], e, v, x)
<1> DEFINE pp == x.pp
<1>0. pp \in Page /\ x \in Entry
  BY DEF Pte, Entry
<1> HIDE DEF pp
<1>1. m.ref \in [Page -> 0..(RefMod - 1)] /\ m.pt \in [Env -> [Va -> Entry]]
  BY DEF Mem
<1>2. (m.ref[pp] + 1) % RefMod \in 0..(RefMod - 1)
  BY <1>0, <1>1, PageAssumption
<1>3. [m.ref EXCEPT ![pp] = (m.ref[pp] + 1) % RefMod] \in [Page -> 0..(RefMod - 1)]
  BY <1>1, <1>2
<1>4. [m.pt EXCEPT ![e][v] = x] \in [Env -> [Va -> Entry]]
  BY <1>0, <1>1
<1> QED BY <1>3, <1>4 DEF page_incref, Mem, Entered, pp

\* Entering a page that is not free into an empty entry, with 'pp_ref++'.
LEMMA Enter ==
  ASSUME RefBound, NEW m, Core(m), NEW n, NEW e \in Env, NEW v \in Va, NEW x \in Pte,
         m.pt[e][v] = NoPte, x.pp \notin m.free, x.pp \notin m.leaked,
         Entered(m, n, e, v, x)
  PROVE  /\ Core(n)
         /\ \A p \in Page : Refs(n, p) = IF p = x.pp THEN Refs(m, p) \union {<<e, v>>}
                                                     ELSE Refs(m, p)
<1> DEFINE pp == x.pp
<1>1. x # NoPte /\ x \in Entry /\ pp \in Page
  BY PteAssumption DEF Entry, Pte
<1> USE DEF Entered
<1>2. m \in Mem /\ m.ref \in [Page -> 0..(RefMod - 1)] /\ m.free \in SUBSET Page
  BY DEF Core, Mem
<1>5. \A p \in Page : <<e, v>> \notin Refs(m, p)
  BY <1>2, EmptyEntry
<1>6. ASSUME NEW p \in Page
      PROVE  Refs(n, p) = IF p = pp THEN Refs(m, p) \union {<<e, v>>}
                                    ELSE Refs(m, p)
  <2>1. Refs(n, p) = IF x # NoPte /\ x.pp = p THEN Refs(m, p) \union {<<e, v>>}
                                              ELSE Refs(m, p) \ {<<e, v>>}
    BY <1>1, <1>2, RefsUpdate
  <2> QED BY <1>1, <1>5, <2>1
<1>7. ASSUME NEW p \in Page PROVE n.ref[p] = Cardinality(Refs(n, p)) + Lost(n, p)
  <2>1. m.ref[p] = Cardinality(Refs(m, p)) + Lost(m, p) /\ Lost(n, p) = Lost(m, p)
    BY DEF Core, RefsExact, Lost
  <2>2. CASE p # pp
    <3>1. Refs(n, p) = Refs(m, p)
      BY <1>6, <2>2
    <3>2. n.ref[p] = m.ref[p]
      BY <1>2, <2>2
    <3> QED BY <2>1, <3>1, <3>2
  <2>3. CASE p = pp
    <3> DEFINE S == Refs(m, p)
               k == Cardinality(S)
    <3>0. IsFiniteSet(S) /\ <<e, v>> \notin S /\ k \in Nat
      BY <1>5, RefsFinite
    <3>8. Lost(m, p) = 0
      BY <2>3 DEF Lost
    <3>1. Cardinality(S \union {<<e, v>>}) = k + 1
      <4> HIDE DEF S
      <4> QED BY <3>0, FS_AddElement
    <3>2. Refs(n, p) = S \union {<<e, v>>}
      BY <1>6, <2>3
    <3>3. Cardinality(Refs(n, p)) <= Cardinality(Env \X Va)
      BY RefsFinite
    <3>4. Cardinality(Env \X Va) \in Nat
      BY VaFinite, FS_CardinalityType
    <3> HIDE DEF k, S
    <3>5. k + 1 < RefMod
      BY <3>0, <3>1, <3>2, <3>3, <3>4, PageAssumption DEF RefBound
    <3>6. (k + 1) % RefMod = k + 1
      BY <3>0, <3>5, PageAssumption
    <3>7. n.ref[p] = (m.ref[p] + 1) % RefMod
      BY <1>2, <2>3
    <3> QED BY <2>1, <3>0, <3>1, <3>2, <3>6, <3>7, <3>8 DEF k, S
  <2> QED BY <2>2, <2>3
<1>8. ASSUME NEW p \in n.free PROVE Refs(n, p) = {}
  <2>1. p \in m.free /\ p \in Page /\ p # pp
    BY <1>2
  <2>2. Refs(m, p) = {}
    BY <2>1 DEF Core, FreeUnmapped
  <2> QED BY <1>6, <2>1, <2>2
<1>9. ASSUME NEW p \in n.leaked PROVE Refs(n, p) = {} /\ p \notin n.free
  <2>1. p \in m.leaked /\ p \in Page /\ p # pp
    BY <1>2 DEF Mem
  <2>2. Refs(m, p) = {} /\ p \notin m.free
    BY <2>1 DEF Core, FreeUnmapped
  <2> QED BY <1>6, <2>1, <2>2
<1> QED BY <1>6, <1>7, <1>8, <1>9 DEF Core, RefsExact, FreeUnmapped

\* The fields of a memory after page_decref of a referenced page.
LEMMA DecrefFields ==
  ASSUME NEW m \in Mem, NEW pp \in Page, m.ref[pp] # 0
  PROVE  LET d == page_decref(m, pp)
         IN  /\ d \in Mem
             /\ d.ref = [m.ref EXCEPT ![pp] = m.ref[pp] - 1]
             /\ d.free = IF m.ref[pp] = 1 THEN m.free \union {pp} ELSE m.free
             /\ d.pt = m.pt /\ d.tlb = m.tlb /\ d.assert_failed = m.assert_failed
             /\ d.leaked = m.leaked
<1> DEFINE m1 == [m EXCEPT !.ref[pp] = @ - 1]
<1>1. m.ref \in [Page -> 0..(RefMod - 1)] /\ m.ref[pp] \in 0..(RefMod - 1)
  BY DEF Mem
<1>2. [m.ref EXCEPT ![pp] = @ - 1] \in [Page -> 0..(RefMod - 1)]
  BY <1>1, PageAssumption
<1>3. /\ m1 \in Mem
      /\ m1.ref = [m.ref EXCEPT ![pp] = m.ref[pp] - 1]
      /\ m1.free = m.free /\ m1.pt = m.pt /\ m1.tlb = m.tlb
      /\ m1.assert_failed = m.assert_failed /\ m1.leaked = m.leaked
  BY <1>2 DEF Mem
<1>4. m1.ref[pp] = m.ref[pp] - 1
  BY <1>1, <1>3
<1>5. page_decref(m, pp) = IF m1.ref[pp] = 0 THEN page_free(m1, pp) ELSE m1
  BY DEF page_decref
<1> HIDE DEF m1
<1>6. CASE m.ref[pp] = 1
  <2>1. page_decref(m, pp) = [m1 EXCEPT !.free = m1.free \union {pp}]
    BY <1>4, <1>5, <1>6 DEF page_free
  <2>2. m1.free \union {pp} \in SUBSET Page
    BY <1>3 DEF Mem
  <2>3. [m1 EXCEPT !.free = m1.free \union {pp}] \in Mem
    BY <1>3, <2>2 DEF Mem
  <2>4. LET d == [m1 EXCEPT !.free = m1.free \union {pp}]
        IN  /\ d.ref = m1.ref /\ d.free = m1.free \union {pp} /\ d.pt = m1.pt
            /\ d.tlb = m1.tlb /\ d.assert_failed = m1.assert_failed
            /\ d.leaked = m1.leaked
    BY <1>3 DEF Mem
  <2> QED BY <1>3, <1>6, <2>1, <2>3, <2>4
<1>7. CASE m.ref[pp] # 1
  <2>1. m1.ref[pp] # 0
    BY <1>1, <1>4, <1>7
  <2> QED BY <1>3, <1>5, <1>7, <2>1
<1> QED BY <1>6, <1>7

\* n is m with the valid entry at v cleared and page_decref of its page.
Cleared(m, n, e, v) ==
  LET pp == m.pt[e][v].pp
  IN  /\ n \in Mem
      /\ n.ref = [m.ref EXCEPT ![pp] = m.ref[pp] - 1]
      /\ n.free = IF m.ref[pp] = 1 THEN m.free \union {pp} ELSE m.free
      /\ n.assert_failed = m.assert_failed /\ n.leaked = m.leaked
      /\ n.pt = [m.pt EXCEPT ![e][v] = NoPte]

\* Clearing a valid entry.
LEMMA Clear ==
  ASSUME NEW m, Core(m), NEW n, NEW e \in Env, NEW v \in Va,
         m.pt[e][v] # NoPte, Cleared(m, n, e, v)
  PROVE  /\ Core(n)
         /\ \A p \in Page : Refs(n, p) = Refs(m, p) \ {<<e, v>>}
<1> DEFINE pp == m.pt[e][v].pp
<1>0. /\ n \in Mem
      /\ n.ref = [m.ref EXCEPT ![pp] = m.ref[pp] - 1]
      /\ n.free = IF m.ref[pp] = 1 THEN m.free \union {pp} ELSE m.free
      /\ n.assert_failed = m.assert_failed /\ n.leaked = m.leaked
      /\ n.pt = [m.pt EXCEPT ![e][v] = NoPte]
  BY DEF Cleared
<1>1. /\ m \in Mem /\ m.pt \in [Env -> [Va -> Entry]]
      /\ m.ref \in [Page -> 0..(RefMod - 1)] /\ m.free \in SUBSET Page
  BY DEF Core, Mem
<1>2. pp \in Page
  BY <1>1 DEF Entry, Pte
<1>3. <<e, v>> \in Refs(m, pp)
  BY DEF Refs
<1> HIDE DEF pp
<1>4. ASSUME NEW p \in Page PROVE Refs(n, p) = Refs(m, p) \ {<<e, v>>}
  <2>1. NoPte \in Entry
    BY DEF Entry
  <2>2. ASSUME NEW x \in Entry, x = NoPte
        PROVE  Refs(n, p) = IF x # NoPte /\ x.pp = p
                              THEN Refs(m, p) \union {<<e, v>>}
                              ELSE Refs(m, p) \ {<<e, v>>}
    <3>1. n.pt = [m.pt EXCEPT ![e][v] = x]
      BY <1>0, <2>2
    <3>2. m \in Mem /\ n \in Mem
      BY <1>0, <1>1
    <3> QED BY <3>1, <3>2, RefsUpdate
  <2> QED BY <2>1, <2>2
<1>5. \A p \in Page : p # pp => <<e, v>> \notin Refs(m, p)
  BY DEF Refs, pp
<1>8. pp \notin m.leaked /\ Lost(m, pp) = 0
  BY <1>3 DEF Core, FreeUnmapped, Lost
<1>6. ASSUME NEW p \in Page PROVE n.ref[p] = Cardinality(Refs(n, p)) + Lost(n, p)
  <2> DEFINE S == Refs(m, p)
  <2>1. m.ref[p] = Cardinality(S) + Lost(m, p) /\ Lost(n, p) = Lost(m, p)
    BY <1>0 DEF Core, RefsExact, Lost
  <2>2. CASE p = pp
    <3>1. <<e, v>> \in S /\ IsFiniteSet(S) /\ Refs(n, p) = S \ {<<e, v>>}
      BY <1>3, <1>4, <2>2, RefsFinite
    <3>4. Cardinality(S) \in Nat
      BY RefsFinite
    <3> HIDE DEF S
    <3>2. Cardinality(S \ {<<e, v>>}) = Cardinality(S) - 1
      BY <3>1, FS_RemoveElement
    <3>3. n.ref[p] = m.ref[p] - 1
      BY <1>0, <1>1, <2>2
    <3> QED BY <1>8, <2>1, <2>2, <3>1, <3>2, <3>3, <3>4
  <2>3. CASE p # pp
    <3>1. Refs(n, p) = S
      <4>1. Refs(n, p) = S \ {<<e, v>>} /\ <<e, v>> \notin S
        BY <1>4, <1>5, <2>3
      <4> HIDE DEF S
      <4> QED BY <4>1
    <3>2. n.ref[p] = m.ref[p]
      BY <1>0, <1>1, <2>3
    <3> QED BY <2>1, <3>1, <3>2
  <2> QED BY <2>2, <2>3
<1>7. ASSUME NEW p \in n.free PROVE Refs(n, p) = {}
  <2>1. CASE p \in m.free
    <3>1. Refs(m, p) = {} /\ p \in Page
      BY <1>1, <2>1 DEF Core, FreeUnmapped
    <3> QED BY <1>4, <3>1
  <2>2. CASE p \notin m.free
    <3>1. p = pp /\ m.ref[pp] = 1
      BY <1>0, <2>2
    <3>2. n.ref[p] = 0
      BY <1>0, <1>1, <1>2, <3>1
    <3>3. Cardinality(Refs(n, p)) = 0 /\ IsFiniteSet(Refs(n, p))
      <4>1. Lost(n, p) = 0 /\ Cardinality(Refs(n, p)) \in Nat
        BY <1>0, <1>8, <3>1, RefsFinite DEF Lost
      <4> QED BY <1>2, <1>6, <3>1, <3>2, <4>1, RefsFinite
    <3> QED BY <3>3, FS_EmptySet
  <2> QED BY <2>1, <2>2
<1>9. ASSUME NEW p \in n.leaked PROVE Refs(n, p) = {} /\ p \notin n.free
  <2>1. p \in m.leaked /\ p \in Page /\ p # pp
    BY <1>0, <1>1, <1>8 DEF Mem
  <2>2. Refs(m, p) = {} /\ p \notin m.free
    BY <2>1 DEF Core, FreeUnmapped
  <2> QED BY <1>0, <1>4, <2>1, <2>2
<1> QED BY <1>0, <1>4, <1>6, <1>7, <1>9 DEF Core, RefsExact, FreeUnmapped

-----------------------------------------------------------------------------
(***************************************************************************)
(* The operations.  Frame says what an operation on the address space of e, *)
(* tagged a in the TLB, leaves alone: it is all the TLB argument needs.    *)
(***************************************************************************)
TableVa == PtVa \union {PdVa}

\* No page table or page directory lives in page p, and it is not a page
\* env_free has forgotten.
NotTable(m, p) ==
  /\ p \notin m.leaked
  /\ \A f \in Env, w \in TableVa : m.pt[f][w] # NoPte => m.pt[f][w].pp # p

Frame(m, n, e, a) ==
  /\ \A f \in Env \ {e} : n.pt[f] = m.pt[f]
  /\ n.pt[e][PdVa] = m.pt[e][PdVa] /\ n.leaked = m.leaked
  /\ \A b \in Asid \ {a} : n.tlb[b] = m.tlb[b]
  /\ \A w \in Va : \/ n.tlb[a][w] = NoPte
                   \/ /\ n.tlb[a][w] = m.tlb[a][w]
                      /\ n.pt[e][w] = m.pt[e][w] \/ m.pt[e][w] = NoPte

LEMMA FrameTrans ==
  ASSUME NEW m \in Mem, NEW n \in Mem, NEW o \in Mem, NEW e \in Env, NEW a \in Asid,
         Frame(m, n, e, a), Frame(n, o, e, a)
  PROVE  Frame(m, o, e, a)
BY DEF Frame

\* page_alloc hands out a page that nothing refers to.
LEMMA Take ==
  ASSUME NEW m, Core(m), page_alloc(m) # NoPage
  PROVE  LET p == page_alloc(m)
             n == page_take(m)
         IN  /\ p \in m.free /\ p \in Page
             /\ Core(n) /\ (Shape(m) => Shape(n))
             /\ n.free = m.free \ {p} /\ n.ref = m.ref
             /\ n.pt = m.pt /\ n.tlb = m.tlb
             /\ n.assert_failed = m.assert_failed /\ n.leaked = m.leaked
             /\ Refs(n, p) = {} /\ NotTable(n, p)
<1> DEFINE p == page_alloc(m)
           n == page_take(m)
<1>1. m \in Mem /\ m.free \in SUBSET Page
  BY DEF Core, Mem
<1>2. p \in m.free /\ p \in Page
  BY <1>1 DEF page_alloc, LIST_FIRST
<1>3. /\ n.free = m.free \ {p} /\ n.ref = m.ref /\ n.pt = m.pt /\ n.tlb = m.tlb
      /\ n.assert_failed = m.assert_failed /\ n.leaked = m.leaked
  BY <1>1 DEF page_take, Mem
<1>4. n \in Mem
  BY <1>1 DEF page_take, Mem
<1> HIDE DEF n, p
<1>5. \A q : Refs(n, q) = Refs(m, q)
  BY <1>3 DEF Refs
<1>6. Core(n)
  BY <1>3, <1>4, <1>5 DEF Core, RefsExact, FreeUnmapped, Lost
<1>7. Shape(m) => Shape(n)
  BY <1>3, <1>5 DEF Shape, TablesPrivate, TablesPresent
<1>8. Refs(n, p) = {}
  BY <1>2, <1>5 DEF Core, FreeUnmapped
<1>9. NotTable(n, p)
  <2>1. \A f \in Env, w \in Va : <<f, w>> \notin Refs(n, p)
    BY <1>8
  <2>2. TableVa \subseteq Va
    BY DEF TableVa, Va
  <2>3. p \notin n.leaked
    BY <1>2, <1>3 DEF Core, FreeUnmapped
  <2> QED BY <2>1, <2>2, <2>3 DEF NotTable, Refs
<1> QED BY <1>2, <1>3, <1>6, <1>7, <1>8, <1>9 DEF n, p

\* Making a page the content of an empty entry, in place of the page table
\* it belongs to: page_insert's last step, pgdir_walk and env_setup_vm.
Installed(m, n, e, v, pp, perm) ==
  /\ Core(n) /\ Shape(n) /\ n.free = m.free /\ n.tlb = m.tlb
  /\ n.leaked = m.leaked
  /\ n.pt = [m.pt EXCEPT ![e][v] = [pp |-> pp, perm |-> perm]]
  /\ \A p \in Page : p # pp => Refs(n, p) = Refs(m, p)

LEMMA Install ==
  ASSUME RefBound, NEW m, Core(m), Shape(m), NEW e \in Env, NEW v \in Va,
         NEW pp \in Page, NEW perm \in Perm,
         m.pt[e][v] = NoPte, pp \notin m.free, NotTable(m, pp),
         v \in TableVa => Refs(m, pp) = {},
         v # PdVa => m.pt[e][Table(v)] # NoPte
  PROVE  Installed(m, set_pte(m, e, v, pp, perm), e, v, pp, perm)
<1> DEFINE x == [pp |-> pp, perm |-> perm]
           n == [page_incref(m, pp) EXCEPT !.pt[e][v] = x]
<1>1. x \in Pte /\ x.pp = pp /\ x \in Entry /\ x # NoPte
  BY PteAssumption DEF Pte, Entry
<1>2. m \in Mem /\ m.pt \in [Env -> [Va -> Entry]]
  BY DEF Core, Mem
<1>3. Entered(m, n, e, v, x)
  <2> HIDE DEF x
  <2>1. Entered(m, [page_incref(m, x.pp) EXCEPT !.pt[e][v] = x], e, v, x)
    BY <1>1, <1>2, EnterFields
  <2> QED BY <1>1, <2>1
<1> HIDE DEF n, x
<1>4. /\ Core(n)
      /\ \A p \in Page : Refs(n, p) = IF p = pp THEN Refs(m, p) \union {<<e, v>>}
                                                ELSE Refs(m, p)
  <2>1. x.pp \notin m.free /\ x.pp \notin m.leaked /\ x \in Pte
    BY <1>1 DEF NotTable
  <2>2. /\ Core(n)
        /\ \A p \in Page : Refs(n, p) = IF p = x.pp THEN Refs(m, p) \union {<<e, v>>}
                                                    ELSE Refs(m, p)
    BY <1>3, <2>1, Enter
  <2> QED BY <1>1, <2>2
<1>5. n.pt[e][v] = x /\ \A f \in Env, w \in Va :
         <<f, w>> # <<e, v>> => n.pt[f][w] = m.pt[f][w]
  <2>1. n.pt[e][v] = x
    BY <1>2, <1>3 DEF Entered
  <2>2. ASSUME NEW f \in Env, NEW w \in Va, f # e \/ w # v
        PROVE  n.pt[f][w] = m.pt[f][w]
    BY <1>2, <1>3, <2>2 DEF Entered
  <2> QED BY <2>1, <2>2
<1>6. TablesPrivate(n)
  <2> SUFFICES ASSUME NEW f \in Env, NEW w \in TableVa, n.pt[f][w] # NoPte
               PROVE  Refs(n, n.pt[f][w].pp) = {<<f, w>>}
    BY DEF TablesPrivate, TableVa
  <2>0. w \in Va
    BY DEF TableVa, Va
  <2>1. CASE <<f, w>> = <<e, v>>
    <3>1. f = e /\ w = v
      BY <2>1
    <3>2. n.pt[f][w].pp = pp /\ v \in TableVa /\ Refs(m, pp) = {}
      BY <1>1, <1>5, <3>1
    <3>3. Refs(n, pp) = {} \union {<<e, v>>}
      BY <1>4, <3>2
    <3> QED BY <3>1, <3>2, <3>3
  <2>2. CASE <<f, w>> # <<e, v>>
    <3>1. n.pt[f][w] = m.pt[f][w]
      BY <1>5, <2>0, <2>2
    <3>2. m.pt[f][w].pp # pp /\ m.pt[f][w].pp \in Page
      BY <1>2, <2>0, <3>1 DEF NotTable, Entry, Pte
    <3>3. Refs(m, m.pt[f][w].pp) = {<<f, w>>}
      BY <3>1 DEF Shape, TablesPrivate, TableVa
    <3> QED BY <1>4, <3>1, <3>2, <3>3
  <2> QED BY <2>1, <2>2
<1>7. TablesPresent(n)
  <2> SUFFICES ASSUME NEW f \in Env, NEW w \in Va, n.pt[f][w] # NoPte
               PROVE  n.pt[f][Table(w)] # NoPte
    BY DEF TablesPresent
  <2>1. Table(w) \in Va /\ (w = PdVa => Table(w) = w)
    BY TableType, LayoutAssumption DEF Table
  <2>2. m.pt[f][Table(w)] # NoPte \/ <<f, Table(w)>> = <<e, v>>
    <3>1. CASE <<f, w>> = <<e, v>>
      BY <2>1, <3>1
    <3>2. CASE <<f, w>> # <<e, v>>
      BY <1>5, <3>2 DEF Shape, TablesPresent
    <3> QED BY <3>1, <3>2
  <2> QED BY <1>1, <1>5, <2>1, <2>2
<1>8. Installed(m, n, e, v, pp, perm)
  BY <1>3, <1>4, <1>6, <1>7 DEF Shape, Entered, Installed, x
<1> QED BY <1>8 DEF n, x, set_pte

\* tlb_invalidate changes one TLB entry and nothing else.
LEMMA TlbInvalidate ==
  ASSUME NEW m \in Mem, NEW a \in Asid, NEW v \in Va
  PROVE  LET n == tlb_invalidate(m, a, v)
         IN  /\ n \in Mem /\ n.ref = m.ref /\ n.free = m.free /\ n.pt = m.pt
             /\ n.assert_failed = m.assert_failed /\ n.leaked = m.leaked
             /\ n.tlb[a][v] = NoPte
             /\ \A b \in Asid, w \in Va :
                  b # a \/ w # v => n.tlb[b][w] = m.tlb[b][w]
             /\ \A b \in Asid : b # a => n.tlb[b] = m.tlb[b]
<1>1. m.tlb \in [Asid -> [Va -> Entry]] /\ NoPte \in Entry
  BY DEF Mem, Entry
<1>2. [m.tlb EXCEPT ![a][v] = NoPte] \in [Asid -> [Va -> Entry]]
  BY <1>1
<1>3. tlb_invalidate(m, a, v).tlb = [m.tlb EXCEPT ![a][v] = NoPte]
  BY DEF tlb_invalidate, Mem
<1>4. /\ [m.tlb EXCEPT ![a][v] = NoPte][a][v] = NoPte
      /\ \A b \in Asid : b # a => [m.tlb EXCEPT ![a][v] = NoPte][b] = m.tlb[b]
      /\ \A w \in Va : w # v => [m.tlb EXCEPT ![a][v] = NoPte][a][w] = m.tlb[a][w]
  BY <1>1
<1>5. tlb_invalidate(m, a, v) \in Mem
  BY <1>2 DEF tlb_invalidate, Mem
<1> QED BY <1>3, <1>4, <1>5 DEF tlb_invalidate, Mem

\* Clearing the entry of a user page keeps the tables in place.
LEMMA ClearShape ==
  ASSUME NEW m \in Mem, NEW n \in Mem, Shape(m), NEW e \in Env, NEW v \in UserVa,
         n.pt = [m.pt EXCEPT ![e][v] = NoPte],
         \A p \in Page : Refs(n, p) = Refs(m, p) \ {<<e, v>>}
  PROVE  Shape(n)
<1>1. m.pt \in [Env -> [Va -> Entry]] /\ v \in Va
  BY DEF Mem, Va
<1>2. n.pt[e][v] = NoPte
  BY <1>1
<1>3. ASSUME NEW f \in Env, NEW w \in Va, f # e \/ w # v
      PROVE  n.pt[f][w] = m.pt[f][w]
  BY <1>1, <1>3
<1>4. \A w \in Va : Table(w) # v /\ Table(w) \in Va
  BY TableType, LayoutAssumption DEF Va
<1>5. TablesPresent(n)
  BY <1>2, <1>3, <1>4 DEF Shape, TablesPresent
<1>6. ASSUME NEW f \in Env, NEW w \in TableVa, n.pt[f][w] # NoPte
      PROVE  Refs(n, n.pt[f][w].pp) = {<<f, w>>}
  <2>1. w \in Va /\ w # v
    BY LayoutAssumption DEF TableVa, Va
  <2>2. n.pt[f][w] = m.pt[f][w]
    BY <1>3, <2>1
  <2>3. Refs(m, m.pt[f][w].pp) = {<<f, w>>} /\ m.pt[f][w].pp \in Page
    BY <1>1, <1>6, <2>1, <2>2 DEF Shape, TablesPrivate, TableVa, Entry, Pte
  <2>4. Refs(n, m.pt[f][w].pp) = {<<f, w>>} \ {<<e, v>>}
    BY <2>3
  <2> QED BY <2>1, <2>2, <2>4
<1> QED BY <1>5, <1>6 DEF Shape, TablesPrivate, TableVa

\* What page_remove promises.
Removed(m, n, e, a, v) ==
  /\ Core(n) /\ Shape(n) /\ Frame(m, n, e, a)
  /\ n.pt = [m.pt EXCEPT ![e][v] = NoPte]
  /\ \A p \in Page \ m.free :
        (m.pt[e][v] = NoPte \/ m.pt[e][v].pp # p) => p \notin n.free
  /\ \A p \in Page : Refs(n, p) \subseteq Refs(m, p)

LEMMA PageRemove ==
  ASSUME NEW m, Core(m), Shape(m), NEW e \in Env, NEW a \in Asid, NEW v \in UserVa,
         m.pt[e][v] # NoPte
  PROVE  Removed(m, page_remove(m, e, a, v), e, a, v)
<1> DEFINE pp == m.pt[e][v].pp
           d == page_decref(m, pp)
           t == tlb_invalidate(d, a, v)
           n == page_remove(m, e, a, v)
<1>0. v \in Va
  BY DEF Va
<1>1. m \in Mem /\ m.pt \in [Env -> [Va -> Entry]] /\ m.tlb \in [Asid -> [Va -> Entry]]
  BY DEF Core, Mem
<1>2. pp \in Page
  BY <1>0, <1>1 DEF Entry, Pte
<1>3. m.ref[pp] # 0
  <2>1. <<e, v>> \in Refs(m, pp)
    BY <1>0 DEF Refs
  <2>2. m.ref[pp] = Cardinality(Refs(m, pp)) + Lost(m, pp)
    BY <1>2 DEF Core, RefsExact
  <2>3. Cardinality(Refs(m, pp)) # 0 /\ Cardinality(Refs(m, pp)) \in Nat
    BY <2>1, RefsFinite, FS_EmptySet
  <2> QED BY <2>2, <2>3 DEF Lost
<1>4. n = [t EXCEPT !.pt[e][v] = NoPte]
  BY DEF page_remove, page_lookup
<1> HIDE DEF pp
<1>5. /\ d \in Mem
      /\ d.ref = [m.ref EXCEPT ![pp] = m.ref[pp] - 1]
      /\ d.free = IF m.ref[pp] = 1 THEN m.free \union {pp} ELSE m.free
      /\ d.pt = m.pt /\ d.tlb = m.tlb /\ d.assert_failed = m.assert_failed
      /\ d.leaked = m.leaked
  BY <1>1, <1>2, <1>3, DecrefFields
<1> HIDE DEF d
<1>6. /\ t \in Mem /\ t.ref = d.ref /\ t.free = d.free /\ t.pt = d.pt
      /\ t.assert_failed = d.assert_failed /\ t.leaked = d.leaked
      /\ t.tlb[a][v] = NoPte
      /\ \A b \in Asid, w \in Va : b # a \/ w # v => t.tlb[b][w] = d.tlb[b][w]
      /\ \A b \in Asid : b # a => t.tlb[b] = d.tlb[b]
  BY <1>0, <1>5, TlbInvalidate, SMTT(30)
<1> HIDE DEF t, n
<1>7. /\ n.ref = t.ref /\ n.free = t.free /\ n.tlb = t.tlb
      /\ n.assert_failed = t.assert_failed /\ n.leaked = t.leaked
      /\ n.pt = [t.pt EXCEPT ![e][v] = NoPte]
  BY <1>4, <1>6 DEF Mem
<1>8. n \in Mem
  <2>1. [t.pt EXCEPT ![e][v] = NoPte] \in [Env -> [Va -> Entry]]
    BY <1>0, <1>6 DEF Mem, Entry
  <2> QED BY <1>4, <1>6, <2>1 DEF Mem
<1>9. Cleared(m, n, e, v)
  BY <1>5, <1>6, <1>7, <1>8 DEF Cleared, pp
<1>10. Core(n) /\ \A p \in Page : Refs(n, p) = Refs(m, p) \ {<<e, v>>}
  BY <1>0, <1>9, Clear
<1>11. n.pt = [m.pt EXCEPT ![e][v] = NoPte]
  BY <1>5, <1>6, <1>7
<1>12. Shape(n)
  BY <1>1, <1>8, <1>10, <1>11, ClearShape
<1>13. /\ \A f \in Env \ {e} : n.pt[f] = m.pt[f]
       /\ \A w \in Va : w # v => n.pt[e][w] = m.pt[e][w]
  BY <1>1, <1>11
<1>14. Frame(m, n, e, a)
  <2>1. \A b \in Asid \ {a} : n.tlb[b] = m.tlb[b]
    BY <1>5, <1>6, <1>7
  <2>2. ASSUME NEW w \in Va
        PROVE  \/ n.tlb[a][w] = NoPte
               \/ n.tlb[a][w] = m.tlb[a][w] /\ n.pt[e][w] = m.pt[e][w]
    BY <1>5, <1>6, <1>7, <1>13
  <2>3. PdVa \in Va /\ PdVa # v
    BY LayoutAssumption DEF Va
  <2> QED BY <1>5, <1>6, <1>7, <1>13, <2>1, <2>2, <2>3 DEF Frame
<1>15. \A p \in Page \ m.free :
          (m.pt[e][v] = NoPte \/ m.pt[e][v].pp # p) => p \notin n.free
  BY <1>5, <1>6, <1>7 DEF pp
<1>16. Removed(m, n, e, a, v)
  BY <1>10, <1>11, <1>12, <1>14, <1>15 DEF Removed
<1> QED BY <1>16 DEF n

\* A TLB entry may be dropped at any time.
LEMMA InvalidateFrame ==
  ASSUME NEW m, Core(m), Shape(m), NEW e \in Env, NEW a \in Asid, NEW v \in Va
  PROVE  LET n == tlb_invalidate(m, a, v)
         IN  /\ Core(n) /\ Shape(n) /\ Frame(m, n, e, a)
             /\ n.pt = m.pt /\ n.free = m.free /\ n.tlb[a][v] = NoPte
             /\ \A p \in Page : Refs(n, p) = Refs(m, p)
<1> DEFINE n == tlb_invalidate(m, a, v)
<1>1. m \in Mem
  BY DEF Core
<1>2. /\ n \in Mem /\ n.ref = m.ref /\ n.free = m.free /\ n.pt = m.pt
      /\ n.assert_failed = m.assert_failed /\ n.tlb[a][v] = NoPte
      /\ n.leaked = m.leaked
      /\ \A b \in Asid, w \in Va : b # a \/ w # v => n.tlb[b][w] = m.tlb[b][w]
      /\ \A b \in Asid : b # a => n.tlb[b] = m.tlb[b]
  BY <1>1, TlbInvalidate
<1> HIDE DEF n
<1>3. Core(n) /\ Shape(n) /\ \A p : Refs(n, p) = Refs(m, p)
  BY <1>2, CoreTlb
<1>4. Frame(m, n, e, a)
  BY <1>2 DEF Frame
<1>5. /\ Core(n) /\ Shape(n) /\ Frame(m, n, e, a)
      /\ n.pt = m.pt /\ n.free = m.free /\ n.tlb[a][v] = NoPte
      /\ \A p \in Page : Refs(n, p) = Refs(m, p)
  BY <1>2, <1>3, <1>4
<1> QED BY <1>5 DEF n

\* What Install means for the address space and its TLB entries.
LEMMA InstallFrame ==
  ASSUME NEW m \in Mem, NEW n, NEW e \in Env, NEW a \in Asid, NEW v \in Va,
         NEW pp, NEW perm, m.pt[e][v] = NoPte, v # PdVa,
         Installed(m, n, e, v, pp, perm)
  PROVE  /\ Frame(m, n, e, a) /\ n.pt[e][v] = [pp |-> pp, perm |-> perm]
         /\ \A w \in Va : w # v => n.pt[e][w] = m.pt[e][w]
<1> DEFINE x == [pp |-> pp, perm |-> perm]
<1>0. n.tlb = m.tlb /\ n.leaked = m.leaked /\ n.pt = [m.pt EXCEPT ![e][v] = x]
  BY DEF Installed
<1> HIDE DEF x
<1>1. m.pt \in [Env -> [Va -> Entry]] /\ PdVa \in Va
  BY DEF Mem, Va
<1>2. \A f \in Env \ {e} : n.pt[f] = m.pt[f]
  BY <1>0, <1>1
<1>3. n.pt[e][v] = x /\ \A w \in Va : w # v => n.pt[e][w] = m.pt[e][w]
  BY <1>0, <1>1
<1> QED BY <1>0, <1>1, <1>2, <1>3 DEF Frame, x

\* What page_insert promises, whether or not it succeeds.
Inserted(m, n, e, a) ==
  Core(n) /\ Shape(n) /\ Frame(m, n, e, a)

\* The end of page_insert: the entry is empty, the table may have to be made.
LEMMA WalkInsert ==
  ASSUME RefBound, NEW m, Core(m), Shape(m), NEW e \in Env, NEW a \in Asid,
         NEW v \in Va \ {PdVa}, NEW pp \in Page, NEW perm \in Perm,
         m.pt[e][v] = NoPte, m.pt[e][PdVa] # NoPte,
         pp \notin m.free, NotTable(m, pp), v \in PtVa => Refs(m, pp) = {},
         ~(table_missing(m, e, v) /\ page_alloc(m) = NoPage)
  PROVE  Inserted(m, set_pte(pgdir_walk(m, e, v), e, v, pp, perm), e, a)
<1> DEFINE w == pgdir_walk(m, e, v)
           n == set_pte(w, e, v, pp, perm)
<1>0. m \in Mem /\ Table(v) \in TableVa /\ Table(v) \in Va /\ Table(v) # v /\ PdVa \in Va
  BY TableType, LayoutAssumption DEF Core, TableVa, Table, Va
<1>1. /\ Core(w) /\ Shape(w) /\ Frame(m, w, e, a)
      /\ w.pt[e][v] = NoPte /\ w.pt[e][Table(v)] # NoPte
      /\ pp \notin w.free /\ NotTable(w, pp) /\ (v \in PtVa => Refs(w, pp) = {})
  <2>1. CASE ~table_missing(m, e, v)
    <3>1. w = m
      BY <2>1 DEF pgdir_walk
    <3>2. Frame(m, m, e, a)
      BY DEF Frame
    <3> QED BY <2>1, <3>1, <3>2 DEF table_missing
  <2>2. CASE table_missing(m, e, v)
    <3> DEFINE k == page_take(m)
               q == page_alloc(m)
               x == [pp |-> q, perm |-> PTE_D]
    <3>1. v \in UserVa /\ Table(v) \in PtVa /\ Table(v) # PdVa
      BY <2>2, LayoutAssumption DEF table_missing, Table, Va
    <3>2. q # NoPage
      BY <2>2
    <3>3. w = set_pte(k, e, Table(v), q, PTE_D)
      BY <2>2 DEF pgdir_walk
    <3>4. /\ q \in m.free /\ q \in Page /\ Core(k) /\ Shape(k)
          /\ k.free = m.free \ {q} /\ k.pt = m.pt /\ k.tlb = m.tlb
          /\ k.leaked = m.leaked /\ Refs(k, q) = {} /\ NotTable(k, q)
      BY <3>2, Take
    <3> HIDE DEF k, q, w
    <3>5. k.pt[e][Table(v)] = NoPte /\ k.pt[e][Table(Table(v))] # NoPte
      BY <2>2, <3>1, <3>4, LayoutAssumption DEF table_missing, Table
    <3>6. PTE_D \in Perm /\ q \notin k.free
      BY <3>4, PageAssumption
    <3>7. Installed(k, w, e, Table(v), q, PTE_D)
      <4>1. Table(v) \in TableVa => Refs(k, q) = {}
        BY <3>4
      <4>2. Installed(k, set_pte(k, e, Table(v), q, PTE_D), e, Table(v), q, PTE_D)
        BY <1>0, <3>4, <3>5, <3>6, <4>1, Install
      <4> QED BY <3>3, <4>2
    <3>8. k \in Mem /\ w \in Mem
      BY <3>4, <3>7 DEF Core, Installed
    <3>9. /\ Frame(k, w, e, a) /\ w.pt[e][Table(v)] = x
          /\ \A u \in Va : u # Table(v) => w.pt[e][u] = k.pt[e][u]
      BY <1>0, <3>1, <3>5, <3>7, <3>8, InstallFrame
    <3>10. Frame(m, w, e, a)
      BY <3>4, <3>9 DEF Frame
    <3>11. x # NoPte /\ x.pp = q
      BY <3>4, PageAssumption, PteAssumption DEF Pte, x
    <3>12. pp # q /\ pp \notin w.free
      BY <3>4, <3>7 DEF Installed
    <3>13. NotTable(w, pp)
      <4> SUFFICES ASSUME NEW f \in Env, NEW u \in TableVa, w.pt[f][u] # NoPte
                   PROVE  w.pt[f][u].pp # pp
        BY <3>4, <3>7 DEF NotTable, Installed
      <4>1. u \in Va
        BY DEF TableVa, Va
      <4>2. CASE f = e /\ u = Table(v)
        BY <3>9, <3>11, <3>12, <4>2
      <4>3. CASE ~(f = e /\ u = Table(v))
        <5>1. w.pt[f][u] = m.pt[f][u]
          BY <3>4, <3>9, <4>1, <4>3 DEF Frame
        <5> QED BY <5>1 DEF NotTable
      <4> QED BY <4>2, <4>3
    <3>14. v \notin PtVa
      BY <3>1, LayoutAssumption
    <3>15. w.pt[e][v] = NoPte
      BY <1>0, <3>4, <3>9
    <3> QED BY <3>7, <3>9, <3>10, <3>11, <3>12, <3>13, <3>14, <3>15 DEF Installed
  <2> QED BY <2>1, <2>2
<1> HIDE DEF w
<1>2. v \in TableVa => Refs(w, pp) = {}
  BY <1>1 DEF TableVa
<1>3. Installed(w, n, e, v, pp, perm)
  BY <1>1, <1>2, Install
<1> HIDE DEF n
<1>4. w \in Mem /\ n \in Mem
  BY <1>1, <1>3 DEF Core, Installed
<1>5. Frame(w, n, e, a)
  BY <1>1, <1>3, <1>4, InstallFrame
<1>6. Inserted(m, n, e, a)
  BY <1>0, <1>1, <1>3, <1>4, <1>5, FrameTrans DEF Inserted, Installed
<1> QED BY <1>6 DEF n, w

\* page_insert of the page that is already there only changes permissions.
LEMMA SamePage ==
  ASSUME NEW m, Core(m), Shape(m), NEW e \in Env, NEW a \in Asid, NEW v \in UserVa,
         NEW x \in Pte, m.pt[e][v] # NoPte, m.pt[e][v].pp = x.pp
  PROVE  Inserted(m, [tlb_invalidate(m, a, v) EXCEPT !.pt[e][v] = x], e, a)
<1> DEFINE t == tlb_invalidate(m, a, v)
           n == [t EXCEPT !.pt[e][v] = x]
<1>0. v \in Va /\ m \in Mem /\ m.pt \in [Env -> [Va -> Entry]] /\ x \in Entry
      /\ x # NoPte /\ x.pp \in Page
  BY PteAssumption DEF Va, Core, Mem, Entry, Pte
<1>1. /\ t \in Mem /\ t.ref = m.ref /\ t.free = m.free /\ t.pt = m.pt
      /\ t.assert_failed = m.assert_failed /\ t.tlb[a][v] = NoPte
      /\ t.leaked = m.leaked
      /\ \A b \in Asid, w \in Va : b # a \/ w # v => t.tlb[b][w] = m.tlb[b][w]
      /\ \A b \in Asid : b # a => t.tlb[b] = m.tlb[b]
  BY <1>0, TlbInvalidate
<1> HIDE DEF t
<1>2. [t.pt EXCEPT ![e][v] = x] \in [Env -> [Va -> Entry]]
  BY <1>0, <1>1
<1>3. n \in Mem
  BY <1>1, <1>2 DEF Mem
<1>4. /\ n.ref = m.ref /\ n.free = m.free /\ n.tlb = t.tlb
      /\ n.assert_failed = m.assert_failed /\ n.leaked = m.leaked
      /\ n.pt = [m.pt EXCEPT ![e][v] = x]
  BY <1>1 DEF Mem
<1> HIDE DEF n
<1>5. ASSUME NEW p \in Page PROVE Refs(n, p) = Refs(m, p)
  <2>1. Refs(n, p) = IF x # NoPte /\ x.pp = p THEN Refs(m, p) \union {<<e, v>>}
                                              ELSE Refs(m, p) \ {<<e, v>>}
    BY <1>0, <1>3, <1>4, RefsUpdate
  <2>2. <<e, v>> \in Refs(m, p) <=> x.pp = p
    BY <1>0 DEF Refs
  <2> QED BY <1>0, <2>1, <2>2
<1>6. /\ n.pt[e][v] = x
      /\ \A f \in Env \ {e} : n.pt[f] = m.pt[f]
      /\ \A w \in Va : w # v => n.pt[e][w] = m.pt[e][w]
  BY <1>0, <1>4
<1>7. Core(n)
  <2>1. n.free \subseteq Page /\ n.leaked \subseteq Page
    BY <1>3 DEF Mem
  <2> QED BY <1>3, <1>4, <1>5, <2>1 DEF Core, RefsExact, FreeUnmapped, Lost
<1>8. ASSUME NEW f \in Env, NEW w \in Va, w # v PROVE n.pt[f][w] = m.pt[f][w]
  BY <1>6, <1>8
<1>9. TablesPrivate(n)
  <2> SUFFICES ASSUME NEW f \in Env, NEW w \in TableVa, n.pt[f][w] # NoPte
               PROVE  Refs(n, n.pt[f][w].pp) = {<<f, w>>}
    BY DEF TablesPrivate, TableVa
  <2>1. w \in Va /\ w # v
    BY LayoutAssumption DEF TableVa, Va
  <2>2. n.pt[f][w] = m.pt[f][w]
    BY <1>8, <2>1
  <2>3. m.pt[f][w].pp \in Page
    BY <1>0, <2>1, <2>2 DEF Entry, Pte
  <2>4. Refs(m, m.pt[f][w].pp) = {<<f, w>>}
    BY <2>2 DEF Shape, TablesPrivate, TableVa
  <2> QED BY <1>5, <2>2, <2>3, <2>4
<1>10. TablesPresent(n)
  <2> SUFFICES ASSUME NEW f \in Env, NEW w \in Va, n.pt[f][w] # NoPte
               PROVE  n.pt[f][Table(w)] # NoPte
    BY DEF TablesPresent
  <2>1. Table(w) \in Va /\ Table(w) # v
    BY TableType, LayoutAssumption
  <2>2. m.pt[f][w] # NoPte
    BY <1>6
  <2>3. m.pt[f][Table(w)] # NoPte
    BY <2>2 DEF Shape, TablesPresent
  <2> QED BY <1>8, <2>1, <2>3
<1>11. Frame(m, n, e, a)
  <2>1. PdVa \in Va /\ PdVa # v
    BY LayoutAssumption DEF Va
  <2>2. \A b \in Asid \ {a} : n.tlb[b] = m.tlb[b]
    BY <1>1, <1>4
  <2>3. \A w \in Va : \/ n.tlb[a][w] = NoPte
                      \/ n.tlb[a][w] = m.tlb[a][w] /\ n.pt[e][w] = m.pt[e][w]
    BY <1>1, <1>4, <1>6
  <2> QED BY <1>4, <1>6, <2>1, <2>2, <2>3 DEF Frame
<1>12. Inserted(m, n, e, a)
  BY <1>7, <1>9, <1>10, <1>11 DEF Inserted, Shape
<1> QED BY <1>12 DEF n, t

\* page_insert keeps the counts exact, free pages unmapped and tables in place,
\* whether it succeeds or runs out of memory.
LEMMA PageInsert ==
  ASSUME RefBound, NEW m, Core(m), Shape(m), NEW e \in Env, NEW a \in Asid,
         NEW v \in Va \ {PdVa}, NEW pp \in Page, NEW perm \in Perm,
         m.pt[e][PdVa] # NoPte, pp \notin m.free, NotTable(m, pp),
         v \in PtVa => m.pt[e][v] = NoPte /\ Refs(m, pp) = {}
  PROVE  Inserted(m, page_insert(m, e, a, pp, v, perm).mem, e, a)
<1> DEFINE new == [pp |-> pp, perm |-> perm]
           r == page_remove(m, e, a, v)
           m1 == tlb_invalidate(r, a, v)
           n == page_insert(m, e, a, pp, v, perm).mem
<1>0. m \in Mem /\ v \in Va /\ PdVa \in Va /\ m.pt \in [Env -> [Va -> Entry]]
  BY DEF Va, Core, Mem
<1>1. CASE m.pt[e][v] # NoPte /\ m.pt[e][v].pp = pp
  <2>1. v \in UserVa
    BY <1>0, <1>1 DEF Va
  <2>2. new \in Pte /\ new.pp = pp
    BY DEF Pte
  <2>3. n = [tlb_invalidate(m, a, v) EXCEPT !.pt[e][v] = new]
    BY <1>1 DEF page_insert
  <2> HIDE DEF new, n
  <2>4. Inserted(m, [tlb_invalidate(m, a, v) EXCEPT !.pt[e][v] = new], e, a)
    BY <1>1, <2>1, <2>2, SamePage
  <2>5. Inserted(m, n, e, a)
    BY <2>3, <2>4
  <2> QED BY <2>5 DEF n
<1>2. CASE ~(m.pt[e][v] # NoPte /\ m.pt[e][v].pp = pp)
  <2>1. n = IF table_missing(m1, e, v) /\ page_alloc(m1) = NoPage THEN m1
            ELSE set_pte(pgdir_walk(m1, e, v), e, v, pp, perm)
    BY <1>2 DEF page_insert
  <2> HIDE DEF n
  <2>2. /\ Core(r) /\ Shape(r) /\ Frame(m, r, e, a) /\ pp \notin r.free
        /\ r.pt[e][v] = NoPte
        /\ \A f \in Env, w \in TableVa : r.pt[f][w] = m.pt[f][w]
        /\ v \in PtVa => Refs(r, pp) = {}
    <3>1. CASE m.pt[e][v] = NoPte
      <4>1. r = m
        BY <3>1 DEF page_remove, page_lookup
      <4>2. Frame(m, m, e, a)
        BY DEF Frame
      <4> QED BY <3>1, <4>1, <4>2
    <3>2. CASE m.pt[e][v] # NoPte
      <4>1. v \in UserVa /\ v \notin TableVa
        BY <1>0, <3>2, LayoutAssumption DEF Va, TableVa
      <4>2. Removed(m, r, e, a, v)
        BY <3>2, <4>1, PageRemove
      <4> HIDE DEF r
      <4>3. r.pt = [m.pt EXCEPT ![e][v] = NoPte]
        BY <4>2 DEF Removed
      <4>4. r.pt[e][v] = NoPte /\ \A f \in Env, w \in TableVa : r.pt[f][w] = m.pt[f][w]
        BY <1>0, <4>1, <4>3 DEF TableVa, Va
      <4>5. pp \notin r.free
        BY <1>2, <3>2, <4>2 DEF Removed
      <4> QED BY <4>1, <4>2, <4>4, <4>5 DEF Removed, TableVa
    <3> QED BY <3>1, <3>2
  <2> HIDE DEF r
  <2>3. /\ Core(m1) /\ Shape(m1) /\ Frame(r, m1, e, a)
        /\ m1.pt = r.pt /\ m1.free = r.free
        /\ \A p \in Page : Refs(m1, p) = Refs(r, p)
    BY <1>0, <2>2, InvalidateFrame
  <2> HIDE DEF m1
  <2>4. r \in Mem /\ m1 \in Mem
    BY <2>2, <2>3 DEF Core
  <2>5. Frame(m, m1, e, a)
    BY <1>0, <2>2, <2>3, <2>4, FrameTrans
  <2>6. Inserted(m, m1, e, a)
    BY <2>3, <2>5 DEF Inserted
  <2>7. CASE table_missing(m1, e, v) /\ page_alloc(m1) = NoPage
    <3>1. n = m1
      BY <2>1, <2>7
    <3>2. Inserted(m, n, e, a)
      BY <2>6, <3>1
    <3> QED BY <3>2 DEF n
  <2>8. CASE ~(table_missing(m1, e, v) /\ page_alloc(m1) = NoPage)
    <3>1. n = set_pte(pgdir_walk(m1, e, v), e, v, pp, perm)
      BY <2>1, <2>8
    <3>2. NotTable(m1, pp)
      BY <2>2, <2>3, <2>5 DEF NotTable, Frame
    <3>3. m1.pt[e][PdVa] # NoPte
      BY <2>5 DEF Frame
    <3>4. m1.pt[e][v] = NoPte /\ pp \notin m1.free /\ (v \in PtVa => Refs(m1, pp) = {})
      BY <2>2, <2>3
    <3>5. Inserted(m1, n, e, a)
      BY <2>3, <2>8, <3>1, <3>2, <3>3, <3>4, WalkInsert
    <3>6. Core(n) /\ Shape(n) /\ n \in Mem /\ Frame(m1, n, e, a)
      BY <3>5 DEF Inserted, Core
    <3>7. Inserted(m, n, e, a)
      BY <1>0, <2>4, <2>5, <3>6, FrameTrans DEF Inserted
    <3> QED BY <3>7 DEF n
  <2> QED BY <2>7, <2>8
<1> QED BY <1>1, <1>2

\* sys_mem_alloc, load_icode_mapper and passive_alloc.
LEMMA AllocInsert ==
  ASSUME RefBound, NEW m, Core(m), Shape(m), NEW e \in Env, NEW a \in Asid,
         NEW v \in Va \ {PdVa}, NEW perm \in Perm,
         m.pt[e][PdVa] # NoPte, v \in PtVa => m.pt[e][v] = NoPte
  PROVE  Inserted(m, alloc_insert(m, e, a, v, perm).mem, e, a)
<1> DEFINE k == page_take(m)
           q == page_alloc(m)
           n == alloc_insert(m, e, a, v, perm).mem
<1>0. m \in Mem
  BY DEF Core
<1>1. CASE q = NoPage
  <2>1. n = m
    BY <1>1 DEF alloc_insert
  <2>2. Frame(m, m, e, a)
    BY DEF Frame
  <2> HIDE DEF n
  <2>3. Inserted(m, n, e, a)
    BY <2>1, <2>2 DEF Inserted
  <2> QED BY <2>3 DEF n
<1>2. CASE q # NoPage
  <2>1. n = page_insert(k, e, a, q, v, perm).mem
    BY <1>2 DEF alloc_insert
  <2>2. /\ q \in Page /\ Core(k) /\ Shape(k) /\ k.free = m.free \ {q}
        /\ k.pt = m.pt /\ k.tlb = m.tlb /\ Refs(k, q) = {} /\ NotTable(k, q)
        /\ k.leaked = m.leaked
    BY <1>2, Take
  <2> HIDE DEF k, q, n
  <2>3. q \notin k.free
    BY <2>2
  <2>4. Inserted(k, page_insert(k, e, a, q, v, perm).mem, e, a)
    BY <2>2, <2>3, PageInsert
  <2>5. Inserted(m, n, e, a)
    BY <2>1, <2>2, <2>4 DEF Inserted, Frame
  <2> QED BY <2>5 DEF n
<1> QED BY <1>1, <1>2

\* env_setup_vm gives an environment without an address space a directory.
LEMMA SetupVm ==
  ASSUME RefBound, NEW m, Core(m), Shape(m), NEW e \in Env, m.free # {},
         m.pt[e][PdVa] = NoPte
  PROVE  LET n == env_setup_vm(m, e)
         IN  /\ Core(n) /\ Shape(n) /\ n.tlb = m.tlb /\ n.leaked = m.leaked
             /\ \A f \in Env \ {e} : n.pt[f] = m.pt[f]
             /\ n.pt[e][PdVa] # NoPte
             /\ \A w \in Va : w # PdVa => n.pt[e][w] = m.pt[e][w]
<1> DEFINE k == page_take(m)
           q == page_alloc(m)
           n == env_setup_vm(m, e)
           x == [pp |-> q, perm |-> PTE_R]
<1>0. m.free \in SUBSET Page /\ PdVa \in Va /\ PdVa \in TableVa /\ PTE_R \in Perm
  BY PageAssumption DEF Core, Mem, Va, TableVa
<1>1. q # NoPage
  BY <1>0, PageAssumption DEF page_alloc, LIST_FIRST
<1>2. /\ q \in Page /\ Core(k) /\ Shape(k) /\ k.free = m.free \ {q}
      /\ k.pt = m.pt /\ k.tlb = m.tlb /\ Refs(k, q) = {} /\ NotTable(k, q)
      /\ k.leaked = m.leaked
  BY <1>1, Take
<1>3. n = set_pte(k, e, PdVa, q, PTE_R)
  BY DEF env_setup_vm
<1> HIDE DEF k, q, n
<1>4. q \notin k.free /\ k.pt[e][PdVa] = NoPte
  BY <1>2
<1>5. Installed(k, n, e, PdVa, q, PTE_R)
  BY <1>0, <1>2, <1>3, <1>4, Install
<1>6. x # NoPte
  BY <1>0, <1>2, PteAssumption DEF Pte
<1>7. n.pt = [m.pt EXCEPT ![e][PdVa] = x] /\ n.tlb = m.tlb /\ n.leaked = m.leaked
  BY <1>2, <1>5 DEF Installed
<1>8. m.pt \in [Env -> [Va -> Entry]]
  BY DEF Core, Mem
<1> HIDE DEF x
<1>9. /\ \A f \in Env \ {e} : n.pt[f] = m.pt[f]
      /\ n.pt[e][PdVa] # NoPte
      /\ \A w \in Va : w # PdVa => n.pt[e][w] = m.pt[e][w]
  BY <1>0, <1>6, <1>7, <1>8
<1>10. /\ Core(n) /\ Shape(n) /\ n.tlb = m.tlb /\ n.leaked = m.leaked
       /\ \A f \in Env \ {e} : n.pt[f] = m.pt[f]
       /\ n.pt[e][PdVa] # NoPte
       /\ \A w \in Va : w # PdVa => n.pt[e][w] = m.pt[e][w]
  BY <1>5, <1>7, <1>9 DEF Installed
<1> QED BY <1>10 DEF n

\* env_free gives back every page of the address space: the counts stay exact
\* because a page loses one reference for each entry that named it.
LEMMA FreeVm ==
  ASSUME NEW m, Core(m), Shape(m), NEW e \in Env, NEW a \in Asid
  PROVE  LET n == env_free_vm(m, e, a)
         IN  /\ Core(n) /\ Shape(n)
             /\ \A f \in Env \ {e} : n.pt[f] = m.pt[f]
             /\ \A w \in Va : n.pt[e][w] = NoPte
             /\ \A b \in Asid \ {a} : n.tlb[b] = m.tlb[b]
             /\ \A w \in Va : n.tlb[a][w] = IF m.pt[e][w] # NoPte /\ w \notin HighVa
                                              THEN NoPte ELSE m.tlb[a][w]
             /\ n.leaked = m.leaked \union Missed(m, e)
<1> DEFINE left(p) == m.ref[p] - Cardinality(Found(m, e, p))
           gone    == {p \in Page : Found(m, e, p) # {} /\ left(p) = 0}
           n       == env_free_vm(m, e, a)
           nothing == [v \in Va |-> NoPte]
           ta      == [v \in Va |-> IF m.pt[e][v] # NoPte /\ v \notin HighVa
                                      THEN NoPte ELSE m.tlb[a][v]]
           nref    == [p \in Page |-> left(p)]
           nleak   == m.leaked \union Missed(m, e)
<1>1. /\ m \in Mem /\ m.pt \in [Env -> [Va -> Entry]] /\ m.tlb \in [Asid -> [Va -> Entry]]
      /\ m.ref \in [Page -> 0..(RefMod - 1)] /\ m.free \in SUBSET Page
      /\ m.leaked \in SUBSET Page /\ Missed(m, e) \in SUBSET Page
  BY DEF Core, Mem, Missed
<1>2. ASSUME NEW p \in Page
      PROVE  /\ left(p) = Cardinality(Refs(m, p) \ Found(m, e, p)) + Lost(m, p)
             /\ IsFiniteSet(Refs(m, p) \ Found(m, e, p))
             /\ left(p) \in 0..(RefMod - 1)
  <2> DEFINE S == Refs(m, p)
             T == Found(m, e, p)
  <2>1. IsFiniteSet(S) /\ T \subseteq S /\ m.ref[p] = Cardinality(S) + Lost(m, p)
    BY RefsFinite DEF Core, RefsExact, Found
  <2>7. Lost(m, p) \in {0, 1}
    BY DEF Lost
  <2>2. m.ref[p] \in 0..(RefMod - 1)
    BY <1>1
  <2> HIDE DEF S, T
  <2>3. S \intersect T = T
    BY <2>1
  <2>4. Cardinality(S \ T) = Cardinality(S) - Cardinality(T) /\ IsFiniteSet(S \ T)
    <3>1. /\ Cardinality(S \ T) = Cardinality(S) - Cardinality(S \intersect T)
          /\ IsFiniteSet(S \ T)
      BY <2>1, FS_Difference
    <3> QED BY <2>3, <3>1
  <2>5. Cardinality(S \ T) \in Nat /\ Cardinality(T) \in Nat
    BY <2>1, <2>4, FS_CardinalityType, FS_Subset
  <2>6. m.ref[p] - Cardinality(T) \in 0..(RefMod - 1)
    <3>1. ASSUME NEW r \in 0..(RefMod - 1), NEW c \in Nat, NEW d \in Nat, c - d \in Nat,
                 NEW l \in {0, 1}, r = c + l
          PROVE  r - d \in 0..(RefMod - 1)
      BY <3>1, PageAssumption
    <3>2. Cardinality(S) \in Nat /\ Cardinality(S) - Cardinality(T) \in Nat
      BY <2>1, <2>4, <2>5, FS_CardinalityType
    <3> QED BY <2>1, <2>2, <2>5, <2>7, <3>1, <3>2
  <2>8. m.ref[p] - Cardinality(T) = Cardinality(S \ T) + Lost(m, p)
    <3>1. Cardinality(S) \in Nat
      BY <2>1, FS_CardinalityType
    <3> QED BY <2>1, <2>4, <2>5, <2>7, <3>1
  <2> QED BY <2>4, <2>6, <2>8 DEF S, T
<1>3. n = [m EXCEPT !.ref  = nref,
                    !.free = m.free \union gone,
                    !.leaked = nleak,
                    !.pt[e] = nothing,
                    !.tlb[a] = ta]
  <2>1. ~ \E p \in Page : left(p) < 0
    <3> SUFFICES ASSUME NEW p \in Page PROVE ~(left(p) < 0)
      OBVIOUS
    <3>1. left(p) \in 0..(RefMod - 1)
      BY <1>2
    <3> HIDE DEF left
    <3> QED BY <3>1, PageAssumption
  <2> QED BY <2>1 DEF env_free_vm
<1>4. nref \in [Page -> 0..(RefMod - 1)] /\ \A p \in Page : nref[p] = left(p)
  BY <1>2
<1>5. gone \in SUBSET Page /\ nleak \in SUBSET Page
  BY <1>1
<1>6. nothing \in [Va -> Entry] /\ ta \in [Va -> Entry]
  BY <1>1 DEF Entry
<1>7. /\ \A w \in Va : nothing[w] = NoPte
      /\ \A w \in Va : ta[w] = IF m.pt[e][w] # NoPte /\ w \notin HighVa
                                 THEN NoPte ELSE m.tlb[a][w]
  OBVIOUS
<1>8. \A p \in gone : p \in Page /\ left(p) = 0 /\ Found(m, e, p) # {}
  OBVIOUS
<1> HIDE DEF nref, gone, nothing, ta, n, nleak
<1>9. n \in Mem
  BY <1>1, <1>3, <1>4, <1>5, <1>6 DEF Mem
<1>10. /\ n.ref = nref /\ n.free = m.free \union gone
       /\ n.assert_failed = m.assert_failed /\ n.leaked = nleak
       /\ n.pt = [m.pt EXCEPT ![e] = nothing] /\ n.tlb = [m.tlb EXCEPT ![a] = ta]
  BY <1>1, <1>3 DEF Mem
<1>11. /\ n.pt[e] = nothing /\ \A f \in Env \ {e} : n.pt[f] = m.pt[f]
       /\ n.tlb[a] = ta /\ \A b \in Asid \ {a} : n.tlb[b] = m.tlb[b]
  BY <1>1, <1>10
<1>12. ASSUME NEW p PROVE Refs(n, p) = {x \in Refs(m, p) : x[1] # e}
  <2>1. ASSUME NEW x \in Env \X Va
        PROVE  x \in Refs(n, p) <=> x \in Refs(m, p) /\ x[1] # e
    <3>1. CASE x[1] = e
      BY <1>7, <1>11, <3>1 DEF Refs
    <3>2. CASE x[1] # e
      <4>1. n.pt[x[1]] = m.pt[x[1]]
        BY <1>11, <3>2
      <4> QED BY <3>2, <4>1 DEF Refs
    <3> QED BY <3>1, <3>2
  <2>2. Refs(n, p) \subseteq Env \X Va /\ Refs(m, p) \subseteq Env \X Va
    BY DEF Refs
  <2> QED BY <2>1, <2>2
\* A page missed is named by one entry only, so it has lost all of them.
<1>20. ASSUME NEW p \in Missed(m, e)
       PROVE  /\ p \in Page /\ p \notin m.leaked /\ p \notin m.free
              /\ Found(m, e, p) = {} /\ Refs(n, p) = {}
              /\ Cardinality(Refs(m, p)) = 1
  <2>1. PICK v \in HighVa : <<e, v>> \in Refs(m, p)
    BY DEF Missed
  <2>2. p \in Page /\ v \in TableVa /\ m.pt[e][v] # NoPte /\ m.pt[e][v].pp = p
    BY <2>1, LayoutAssumption DEF Missed, Refs, TableVa
  <2>3. Refs(m, p) = {<<e, v>>}
    BY <2>2 DEF Shape, TablesPrivate, TableVa
  <2>4. p \notin m.leaked /\ p \notin m.free
    BY <2>3 DEF Core, FreeUnmapped
  <2>5. Found(m, e, p) = {} /\ Refs(n, p) = {}
    BY <1>12, <2>1, <2>3 DEF Found
  <2> QED BY <2>2, <2>3, <2>4, <2>5, FS_Singleton
<1>21. ASSUME NEW p \in Page, p \notin Missed(m, e)
       PROVE  Refs(n, p) = Refs(m, p) \ Found(m, e, p) /\ Lost(n, p) = Lost(m, p)
  <2>1. \A x \in Refs(m, p) : x[1] = e => x[2] \notin HighVa
    <3> SUFFICES ASSUME NEW x \in Refs(m, p), x[1] = e, x[2] \in HighVa PROVE FALSE
      OBVIOUS
    <3>1. x = <<e, x[2]>>
      BY DEF Refs
    <3> QED BY <1>21, <3>1 DEF Missed
  <2>2. Refs(n, p) = Refs(m, p) \ Found(m, e, p)
    BY <1>12, <2>1 DEF Found
  <2>3. p \in n.leaked <=> p \in m.leaked
    BY <1>10, <1>21 DEF nleak
  <2> QED BY <2>2, <2>3 DEF Lost
<1>13. RefsExact(n)
  <2> SUFFICES ASSUME NEW p \in Page
               PROVE  n.ref[p] = Cardinality(Refs(n, p)) + Lost(n, p)
    BY DEF RefsExact
  <2>1. n.ref[p] = left(p)
    BY <1>4, <1>10
  <2>2. CASE p \notin Missed(m, e)
    BY <1>2, <1>21, <2>1, <2>2
  <2>3. CASE p \in Missed(m, e)
    <3>1. Lost(n, p) = 1 /\ Lost(m, p) = 0
      BY <1>10, <1>20, <2>3 DEF Lost, nleak
    <3>2. m.ref[p] = 1 /\ Cardinality(Found(m, e, p)) = 0
      BY <1>20, <2>3, <3>1, FS_EmptySet DEF Core, RefsExact
    <3>3. left(p) = 1
      BY <3>2
    <3>4. Cardinality(Refs(n, p)) = 0
      BY <1>20, <2>3, FS_EmptySet
    <3> QED BY <2>1, <3>1, <3>3, <3>4
  <2> QED BY <2>2, <2>3
<1>22. ASSUME NEW p \in n.leaked PROVE Refs(n, p) = {} /\ p \notin n.free
  <2>1. CASE p \in Missed(m, e)
    <3>1. p \notin gone
      BY <1>8, <1>20, <2>1
    <3> QED BY <1>10, <1>20, <2>1, <3>1
  <2>2. CASE p \in m.leaked
    <3>1. Refs(m, p) = {} /\ p \notin m.free
      BY <2>2 DEF Core, FreeUnmapped
    <3>2. Found(m, e, p) = {}
      BY <3>1 DEF Found
    <3> QED BY <1>8, <1>10, <1>12, <3>1, <3>2
  <2> QED BY <1>10, <2>1, <2>2 DEF nleak
<1>14. FreeUnmapped(n)
  <2> SUFFICES ASSUME NEW p \in n.free PROVE Refs(n, p) = {}
    BY <1>22 DEF FreeUnmapped
  <2>1. CASE p \in m.free
    <3>1. Refs(m, p) = {}
      BY <2>1 DEF Core, FreeUnmapped
    <3> QED BY <1>12, <3>1
  <2>2. CASE p \in gone
    <3>1. p \in Page /\ n.ref[p] = 0
      BY <1>4, <1>8, <1>10, <2>2
    <3>2. Cardinality(Refs(n, p)) = 0
      <4>1. Cardinality(Refs(n, p)) \in Nat /\ Lost(n, p) \in {0, 1}
        BY RefsFinite DEF Lost
      <4> QED BY <1>13, <3>1, <4>1 DEF RefsExact
    <3> QED BY <3>2, RefsFinite, FS_EmptySet
  <2> QED BY <1>10, <2>1, <2>2
<1>15. TablesPrivate(n)
  <2> SUFFICES ASSUME NEW f \in Env, NEW w \in TableVa, n.pt[f][w] # NoPte
               PROVE  Refs(n, n.pt[f][w].pp) = {<<f, w>>}
    BY DEF TablesPrivate, TableVa
  <2>1. w \in Va
    BY DEF TableVa, Va
  <2>2. f # e
    BY <1>7, <1>11, <2>1
  <2>3. n.pt[f][w] = m.pt[f][w]
    BY <1>11, <2>2
  <2>4. Refs(m, m.pt[f][w].pp) = {<<f, w>>}
    BY <2>3 DEF Shape, TablesPrivate, TableVa
  <2> QED BY <1>12, <2>2, <2>3, <2>4
<1>16. TablesPresent(n)
  <2> SUFFICES ASSUME NEW f \in Env, NEW w \in Va, n.pt[f][w] # NoPte
               PROVE  n.pt[f][Table(w)] # NoPte
    BY DEF TablesPresent
  <2>1. f # e
    BY <1>7, <1>11
  <2> QED BY <1>11, <2>1 DEF Shape, TablesPresent
<1>17. Core(n) /\ Shape(n)
  BY <1>9, <1>10, <1>13, <1>14, <1>15, <1>16 DEF Core, Shape
<1>18. /\ Core(n) /\ Shape(n)
       /\ \A f \in Env \ {e} : n.pt[f] = m.pt[f]
       /\ \A w \in Va : n.pt[e][w] = NoPte
       /\ \A b \in Asid \ {a} : n.tlb[b] = m.tlb[b]
       /\ \A w \in Va : n.tlb[a][w] = IF m.pt[e][w] # NoPte /\ w \notin HighVa
                                        THEN NoPte ELSE m.tlb[a][w]
       /\ n.leaked = m.leaked \union Missed(m, e)
  BY <1>7, <1>10, <1>11, <1>17 DEF nleak
<1> QED BY <1>18 DEF n

-----------------------------------------------------------------------------
(***************************************************************************)
(* Type correctness, which needs none of the invariants above: a memory    *)
(* whose counts are wrong is still a memory.                               *)
(***************************************************************************)
LEMMA SetPteType ==
  ASSUME NEW m \in Mem, NEW e \in Env, NEW v \in Va, NEW pp \in Page, NEW perm \in Perm
  PROVE  set_pte(m, e, v, pp, perm) \in Mem
<1> DEFINE x == [pp |-> pp, perm |-> perm]
<1>1. x \in Pte /\ x.pp = pp
  BY DEF Pte
<1> HIDE DEF x
<1>2. Entered(m, [page_incref(m, x.pp) EXCEPT !.pt[e][v] = x], e, v, x)
  BY <1>1, EnterFields
<1>3. [page_incref(m, x.pp) EXCEPT !.pt[e][v] = x] \in Mem
  BY <1>2 DEF Entered
<1>4. set_pte(m, e, v, pp, perm) = [page_incref(m, x.pp) EXCEPT !.pt[e][v] = x]
  BY <1>1 DEF set_pte, x
<1> QED BY <1>3, <1>4

LEMMA TakeType ==
  ASSUME NEW m \in Mem
  PROVE  /\ page_take(m) \in Mem
         /\ page_alloc(m) # NoPage => page_alloc(m) \in Page
         /\ m.free # {} => page_alloc(m) \in Page
BY DEF page_take, page_alloc, LIST_FIRST, Mem

LEMMA DecrefType ==
  ASSUME NEW m \in Mem, NEW pp \in Page
  PROVE  page_decref(m, pp) \in Mem
<1>1. CASE m.ref[pp] # 0
  BY <1>1, DecrefFields
<1>2. CASE m.ref[pp] = 0
  <2>1. page_decref(m, pp) = [m EXCEPT !.assert_failed = TRUE]
    BY <1>2 DEF page_decref
  <2> QED BY <2>1 DEF Mem
<1> QED BY <1>1, <1>2

LEMMA SetEntryType ==
  ASSUME NEW m \in Mem, NEW e \in Env, NEW v \in Va, NEW x \in Entry
  PROVE  [m EXCEPT !.pt[e][v] = x] \in Mem
<1>1. [m.pt EXCEPT ![e][v] = x] \in [Env -> [Va -> Entry]]
  BY DEF Mem
<1> QED BY <1>1 DEF Mem

LEMMA RemoveType ==
  ASSUME NEW m \in Mem, NEW e \in Env, NEW a \in Asid, NEW v \in Va
  PROVE  page_remove(m, e, a, v) \in Mem
<1>1. CASE m.pt[e][v] = NoPte
  BY <1>1 DEF page_remove, page_lookup
<1>2. CASE m.pt[e][v] # NoPte
  <2> DEFINE d == page_decref(m, m.pt[e][v].pp)
             t == tlb_invalidate(d, a, v)
  <2>1. m.pt[e][v].pp \in Page
    BY <1>2 DEF Mem, Entry, Pte
  <2>2. d \in Mem
    BY <2>1, DecrefType
  <2> HIDE DEF d
  <2>3. t \in Mem
    BY <2>2, TlbInvalidate
  <2> HIDE DEF t
  <2>4. [t EXCEPT !.pt[e][v] = NoPte] \in Mem
    BY <2>3, SetEntryType DEF Entry
  <2> QED BY <1>2, <2>4 DEF page_remove, page_lookup, d, t
<1> QED BY <1>1, <1>2

LEMMA InsertType ==
  ASSUME NEW m \in Mem, NEW e \in Env, NEW a \in Asid, NEW v \in Va,
         NEW pp \in Page, NEW perm \in Perm
  PROVE  page_insert(m, e, a, pp, v, perm).mem \in Mem
<1> DEFINE new == [pp |-> pp, perm |-> perm]
           t == tlb_invalidate(m, a, v)
           r == page_remove(m, e, a, v)
           m1 == tlb_invalidate(r, a, v)
           w == pgdir_walk(m1, e, v)
           n == page_insert(m, e, a, pp, v, perm).mem
<1>1. \/ n = [t EXCEPT !.pt[e][v] = new]
      \/ n = m1
      \/ /\ ~(table_missing(m1, e, v) /\ page_alloc(m1) = NoPage)
         /\ n = set_pte(w, e, v, pp, perm)
  BY DEF page_insert
<1>2. new \in Entry
  BY DEF Entry, Pte
<1>3. t \in Mem
  BY TlbInvalidate
<1>4. r \in Mem
  BY RemoveType
<1> HIDE DEF r, t, new
<1>5. m1 \in Mem
  BY <1>4, TlbInvalidate
<1> HIDE DEF m1, n
<1>6. [t EXCEPT !.pt[e][v] = new] \in Mem
  BY <1>2, <1>3, SetEntryType
<1>7. ASSUME ~(table_missing(m1, e, v) /\ page_alloc(m1) = NoPage)
      PROVE  w \in Mem
  <2>1. CASE ~table_missing(m1, e, v)
    BY <1>5, <2>1 DEF pgdir_walk
  <2>2. CASE table_missing(m1, e, v)
    <3>1. page_alloc(m1) \in Page /\ page_take(m1) \in Mem
      BY <1>5, <1>7, <2>2, TakeType
    <3>2. Table(v) \in Va /\ PTE_D \in Perm
      BY TableType, PageAssumption
    <3>3. set_pte(page_take(m1), e, Table(v), page_alloc(m1), PTE_D) \in Mem
      BY <3>1, <3>2, SetPteType
    <3> QED BY <2>2, <3>3 DEF pgdir_walk
  <2> QED BY <2>1, <2>2
<1> HIDE DEF w
<1>8. n \in Mem
  BY <1>1, <1>5, <1>6, <1>7, SetPteType
<1> QED BY <1>8 DEF n

LEMMA AllocInsertType ==
  ASSUME NEW m \in Mem, NEW e \in Env, NEW a \in Asid, NEW v \in Va, NEW perm \in Perm
  PROVE  alloc_insert(m, e, a, v, perm).mem \in Mem
<1>1. CASE page_alloc(m) = NoPage
  BY <1>1 DEF alloc_insert
<1>2. CASE page_alloc(m) # NoPage
  <2>1. page_take(m) \in Mem /\ page_alloc(m) \in Page
    BY <1>2, TakeType
  <2>2. page_insert(page_take(m), e, a, page_alloc(m), v, perm).mem \in Mem
    BY <2>1, InsertType
  <2> QED BY <1>2, <2>2 DEF alloc_insert
<1> QED BY <1>1, <1>2

LEMMA SetupVmType ==
  ASSUME NEW m \in Mem, NEW e \in Env, m.free # {}
  PROVE  env_setup_vm(m, e) \in Mem
<1>1. page_take(m) \in Mem /\ page_alloc(m) \in Page
  BY TakeType
<1>2. PdVa \in Va /\ PTE_R \in Perm
  BY PageAssumption DEF Va
<1> QED BY <1>1, <1>2, SetPteType DEF env_setup_vm

LEMMA FreeVmType ==
  ASSUME NEW m \in Mem, NEW e \in Env, NEW a \in Asid
  PROVE  env_free_vm(m, e, a) \in Mem
<1> DEFINE left(p) == m.ref[p] - Cardinality(Found(m, e, p))
           gone    == {p \in Page : Found(m, e, p) # {} /\ left(p) = 0}
           nothing == [v \in Va |-> NoPte]
           ta      == [v \in Va |-> IF m.pt[e][v] # NoPte /\ v \notin HighVa
                                      THEN NoPte ELSE m.tlb[a][v]]
           nref    == [p \in Page |-> left(p)]
           nleak   == m.leaked \union Missed(m, e)
<1>1. CASE \E p \in Page : left(p) < 0
  <2>1. env_free_vm(m, e, a) = [m EXCEPT !.assert_failed = TRUE]
    BY <1>1 DEF env_free_vm
  <2> QED BY <2>1 DEF Mem
<1>2. CASE ~ \E p \in Page : left(p) < 0
  <2>1. env_free_vm(m, e, a) = [m EXCEPT !.ref  = nref,
                                         !.free = m.free \union gone,
                                         !.leaked = nleak,
                                         !.pt[e] = nothing,
                                         !.tlb[a] = ta]
    BY <1>2 DEF env_free_vm
  <2>2. ASSUME NEW p \in Page PROVE left(p) \in 0..(RefMod - 1)
    <3>1. Found(m, e, p) \in SUBSET Refs(m, p) /\ IsFiniteSet(Refs(m, p))
      BY RefsFinite DEF Found
    <3>2. Cardinality(Found(m, e, p)) \in Nat
      BY <3>1, FS_Subset, FS_CardinalityType
    <3>3. m.ref[p] \in 0..(RefMod - 1)
      BY DEF Mem
    <3>4. ~(left(p) < 0)
      BY <1>2
    <3> QED BY <3>2, <3>3, <3>4, PageAssumption
  <2>3. nref \in [Page -> 0..(RefMod - 1)]
    BY <2>2
  <2>4. nothing \in [Va -> Entry] /\ ta \in [Va -> Entry]
    BY DEF Entry, Mem
  <2>5. gone \in SUBSET Page /\ nleak \in SUBSET Page
    BY DEF Missed, Mem
  <2> HIDE DEF nref, gone, nothing, ta, nleak
  <2>6. /\ [m.pt EXCEPT ![e] = nothing] \in [Env -> [Va -> Entry]]
        /\ [m.tlb EXCEPT ![a] = ta] \in [Asid -> [Va -> Entry]]
        /\ m.free \union gone \in SUBSET Page
    BY <2>4, <2>5 DEF Mem
  <2> QED BY <2>1, <2>3, <2>5, <2>6 DEF Mem
<1> QED BY <1>1, <1>2

LEMMA TlbwrType ==
  ASSUME NEW m \in Mem, NEW a \in Asid, NEW v \in Va, NEW x \in Entry,
         NEW victim \in Asid \X Va
  PROVE  LET n == tlbwr(m, a, v, x, victim)
         IN  /\ n \in Mem /\ n.ref = m.ref /\ n.free = m.free /\ n.pt = m.pt
             /\ n.assert_failed = m.assert_failed /\ n.leaked = m.leaked
             /\ n.tlb[a][v] = x
             /\ \A b \in Asid, w \in Va : b # a \/ w # v
                   => n.tlb[b][w] \in {NoPte, m.tlb[b][w]}
<1> DEFINE t1 == [m.tlb EXCEPT ![victim[1]][victim[2]] = NoPte]
           t2 == [t1 EXCEPT ![a][v] = x]
           n == tlbwr(m, a, v, x, victim)
<1>1. m.tlb \in [Asid -> [Va -> Entry]] /\ NoPte \in Entry
  BY DEF Mem, Entry
<1>2. /\ t1 \in [Asid -> [Va -> Entry]]
      /\ \A b \in Asid, w \in Va : t1[b][w] \in {NoPte, m.tlb[b][w]}
  BY <1>1
<1>3. n.tlb = t2
  BY DEF tlbwr, Mem
<1>4. /\ n.ref = m.ref /\ n.free = m.free /\ n.pt = m.pt
      /\ n.assert_failed = m.assert_failed /\ n.leaked = m.leaked
  BY DEF tlbwr, Mem
<1> HIDE DEF t1
<1>5. t2 \in [Asid -> [Va -> Entry]] /\ t2[a][v] = x
  BY <1>2
<1>6. ASSUME NEW b \in Asid, NEW w \in Va, b # a \/ w # v
      PROVE  t2[b][w] = t1[b][w]
  BY <1>2, <1>6
<1>7. n \in Mem
  BY <1>3, <1>4, <1>5 DEF tlbwr, Mem
<1> HIDE DEF t2, n
<1>8. /\ n \in Mem /\ n.ref = m.ref /\ n.free = m.free /\ n.pt = m.pt
      /\ n.assert_failed = m.assert_failed /\ n.leaked = m.leaked
      /\ n.tlb[a][v] = x
      /\ \A b \in Asid, w \in Va : b # a \/ w # v
            => n.tlb[b][w] \in {NoPte, m.tlb[b][w]}
  BY <1>2, <1>3, <1>4, <1>5, <1>6, <1>7
<1> QED BY <1>8 DEF n

-----------------------------------------------------------------------------
(***************************************************************************)
(* What the tail queue macros do to a well-shaped queue: they behave like  *)
(* the operations on sequences they are meant to be, provided an inserted  *)
(* element is not in the queue and a removed element is.                   *)
(***************************************************************************)

USE EnvAssumption, HeadAssumption

\* A freshly initialised queue is the empty sequence.
LEMMA InitRepresents == Represents(TAILQ_INIT, <<>>)
BY DEF Represents, TAILQ_INIT, NoDup

\* The macros stay within the type of the queue.
LEMMA TailqType ==
  ASSUME NEW q \in Tailq, NEW e \in Env
  PROVE  /\ TAILQ_INSERT_HEAD(q, e) \in Tailq
         /\ TAILQ_INSERT_TAIL(q, e) \in Tailq
         /\ TAILQ_REMOVE(q, e) \in Tailq
<1>1. TAILQ_INSERT_HEAD(q, e) \in Tailq
  BY DEF Tailq, TAILQ_INSERT_HEAD
<1>2. ASSUME NEW r \in Tailq, NEW p \in Env \union {HEAD, NULL},
             NEW v \in Env \union {NULL}
      PROVE  Store(r, p, v) \in Tailq
  BY <1>2 DEF Tailq, Store
<1>3. TAILQ_INSERT_TAIL(q, e) \in Tailq
  <2> DEFINE q1 == [q EXCEPT !.next[e] = NULL, !.prev[e] = q.last]
  <2>1. q1 \in Tailq /\ q1.last \in Env \union {HEAD, NULL}
    BY DEF Tailq
  <2>2. Store(q1, q1.last, e) \in Tailq
    BY <1>2, <2>1
  <2> QED BY <2>2 DEF TAILQ_INSERT_TAIL, Tailq
<1>4. TAILQ_REMOVE(q, e) \in Tailq
  <2> DEFINE q1 == IF q.next[e] # NULL
                     THEN [q EXCEPT !.prev[q.next[e]] = q.prev[e]]
                     ELSE [q EXCEPT !.last = q.prev[e]]
  <2>1. q1 \in Tailq
    BY DEF Tailq
  <2>2. q1.prev[e] \in Env \union {HEAD, NULL} /\ q1.next[e] \in Env \union {NULL}
    BY <2>1 DEF Tailq
  <2>3. TAILQ_REMOVE(q, e) = Store(q1, q1.prev[e], q1.next[e])
    BY DEF TAILQ_REMOVE
  <2> HIDE DEF q1
  <2> QED BY <1>2, <2>1, <2>2, <2>3
<1> QED BY <1>1, <1>3, <1>4

\* TAILQ_INSERT_TAIL of an element that is not queued appends it.
LEMMA InsertTail ==
  ASSUME NEW q \in Tailq, NEW s, Represents(q, s), NEW e \in Env, e \notin Elems(s)
  PROVE  Represents(TAILQ_INSERT_TAIL(q, e), Append(s, e))
<1> DEFINE t == Append(s, e)
           r == TAILQ_INSERT_TAIL(q, e)
<1>1. /\ s \in Seq(Env) /\ Len(s) \in Nat
      /\ t \in Seq(Env) /\ Len(t) = Len(s) + 1
      /\ t[Len(s) + 1] = e
      /\ \A i \in 1..Len(s) : t[i] = s[i] /\ s[i] \in Env /\ s[i] # e
  <2>1. s \in Seq(Env) /\ Len(s) \in Nat
    BY DEF Represents
  <2>2. \A i \in 1..Len(s) : s[i] \in Env /\ s[i] # e
    BY <2>1 DEF Elems
  <2>3. /\ t \in Seq(Env) /\ Len(t) = Len(s) + 1
        /\ t[Len(s) + 1] = e
        /\ \A i \in 1..Len(s) : t[i] = s[i]
    BY <2>1
  <2> QED BY <2>1, <2>2, <2>3
<1>2. NoDup(t)
  <2>1. NoDup(s)
    BY DEF Represents
  <2> SUFFICES ASSUME NEW i \in 1..Len(t), NEW j \in 1..Len(t), t[i] = t[j]
               PROVE  i = j
    BY DEF NoDup
  <2>2. CASE i = Len(t) \/ j = Len(t)
    BY <1>1, <2>2
  <2>3. CASE i # Len(t) /\ j # Len(t)
    <3>1. i \in 1..Len(s) /\ j \in 1..Len(s) /\ s[i] = s[j]
      BY <1>1, <2>3
    <3> QED BY <2>1, <3>1 DEF NoDup
  <2> QED BY <2>2, <2>3
<1>3. CASE s = <<>>
  <2>1. /\ r.first = e /\ r.last = e /\ ~r.fault
        /\ r.next[e] = NULL /\ r.prev[e] = HEAD
    BY <1>3 DEF Represents, TAILQ_INSERT_TAIL, Store, Tailq
  <2>2. Len(t) = 1 /\ t[1] = e /\ t # <<>>
    BY <1>1, <1>3
  <2> QED BY <1>1, <1>2, <2>1, <2>2 DEF Represents
<1>4. CASE s # <<>>
  <2> DEFINE n == Len(s)
  <2>1. n \in Nat \ {0} /\ t # <<>> /\ t[1] = s[1]
    BY <1>1, <1>4
  <2>2. q.last = s[n] /\ s[n] \in Env /\ s[n] # e
    BY <1>1, <1>4, <2>1 DEF Represents
  <2>3. /\ r.first = q.first /\ r.last = e /\ ~r.fault
        /\ r.next = [q.next EXCEPT ![e] = NULL, ![s[n]] = e]
        /\ r.prev = [q.prev EXCEPT ![e] = s[n]]
    <3> DEFINE q1 == [q EXCEPT !.next[e] = NULL, !.prev[e] = q.last]
    <3>1. q1.last = s[n] /\ s[n] # HEAD /\ s[n] # NULL
      BY <2>2 DEF Tailq
    <3>2. Store(q1, q1.last, e) = [q1 EXCEPT !.next[s[n]] = e]
      BY <3>1 DEF Store
    <3>3. r = [[q1 EXCEPT !.next[s[n]] = e] EXCEPT !.last = e]
      BY <3>2 DEF TAILQ_INSERT_TAIL
    <3> QED BY <2>2, <3>3 DEF Tailq, Represents
  <2>4. q.next \in [Env -> Env \union {NULL}] /\ q.prev \in [Env -> Env \union {HEAD, NULL}]
    BY DEF Tailq
  <2>5. ASSUME NEW i \in 1..Len(t)
        PROVE  /\ r.next[t[i]] = IF i = Len(t) THEN NULL ELSE t[i+1]
               /\ r.prev[t[i]] = IF i = 1 THEN HEAD ELSE t[i-1]
    <3>1. CASE i = n + 1
      BY <1>1, <2>1, <2>2, <2>3, <2>4, <3>1
    <3>2. CASE i = n
      BY <1>1, <2>1, <2>2, <2>3, <2>4, <3>2, SMTT(30) DEF Represents
    <3>3. CASE i < n
      <4>1. s[i] # s[n]
        BY <1>1, <2>1, <3>3 DEF Represents, NoDup
      <4> QED BY <1>1, <2>1, <2>2, <2>3, <2>4, <3>3, <4>1 DEF Represents
    <3> QED BY <1>1, <2>1, <3>1, <3>2, <3>3
  <2> QED BY <1>1, <1>2, <1>4, <2>1, <2>3, <2>5 DEF Represents
<1> QED BY <1>3, <1>4

\* TAILQ_INSERT_HEAD of an element that is not queued puts it in front.
LEMMA InsertHead ==
  ASSUME NEW q \in Tailq, NEW s, Represents(q, s), NEW e \in Env, e \notin Elems(s)
  PROVE  Represents(TAILQ_INSERT_HEAD(q, e), <<e>> \o s)
<1> DEFINE t == <<e>> \o s
           r == TAILQ_INSERT_HEAD(q, e)
           n == Len(s)
<1>1. /\ s \in Seq(Env) /\ n \in Nat
      /\ t \in Seq(Env) /\ Len(t) = n + 1 /\ t # <<>>
      /\ t[1] = e
      /\ \A i \in 1..n : t[i+1] = s[i] /\ s[i] \in Env /\ s[i] # e
  BY DEF Represents, Elems
<1>2. NoDup(t)
  <2> SUFFICES ASSUME NEW i \in 1..Len(t), NEW j \in 1..Len(t), t[i] = t[j]
               PROVE  i = j
    BY DEF NoDup
  <2>1. \A k \in 1..Len(t) : k # 1 => k - 1 \in 1..n /\ t[k] = s[k-1]
    BY <1>1
  <2> QED BY <1>1, <2>1 DEF NoDup, Represents
<1>3. CASE s = <<>>
  <2>1. /\ r.first = e /\ r.last = e /\ ~r.fault
        /\ r.next[e] = NULL /\ r.prev[e] = HEAD
    BY <1>3 DEF Represents, TAILQ_INSERT_HEAD, Tailq
  <2> QED BY <1>1, <1>2, <1>3, <2>1 DEF Represents
<1>4. CASE s # <<>>
  <2>1. n \in Nat \ {0} /\ t[n+1] = s[n]
    BY <1>1, <1>4
  <2>2. q.first = s[1] /\ s[1] \in Env /\ s[1] # e /\ s[1] # NULL
    BY <1>1, <1>4, <2>1 DEF Represents
  <2>3. /\ r.first = e /\ r.last = q.last /\ ~r.fault
        /\ r.next = [q.next EXCEPT ![e] = s[1]]
        /\ r.prev = [q.prev EXCEPT ![s[1]] = e, ![e] = HEAD]
    BY <2>2 DEF Represents, TAILQ_INSERT_HEAD, Tailq
  <2>4. q.next \in [Env -> Env \union {NULL}] /\ q.prev \in [Env -> Env \union {HEAD, NULL}]
    BY DEF Tailq
  <2>5. ASSUME NEW i \in 1..Len(t)
        PROVE  /\ r.next[t[i]] = IF i = Len(t) THEN NULL ELSE t[i+1]
               /\ r.prev[t[i]] = IF i = 1 THEN HEAD ELSE t[i-1]
    <3>1. CASE i = 1
      BY <1>1, <2>1, <2>2, <2>3, <2>4, <3>1
    <3>2. CASE i = 2
      <4>1. t[2] = s[1]
        BY <1>1, <2>1
      <4> QED BY <1>1, <2>1, <2>2, <2>3, <2>4, <3>2, <4>1 DEF Represents
    <3>3. CASE i > 2
      <4> DEFINE k == i - 1
      <4>1. k \in 2..n /\ t[i] = s[k] /\ t[i-1] = s[k-1] /\ s[k] # e
        BY <1>1, <3>3
      <4>2. s[k] # s[1]
        BY <1>1, <2>1, <4>1 DEF Represents, NoDup
      <4>3. r.next[s[k]] = q.next[s[k]] /\ r.prev[s[k]] = q.prev[s[k]]
        BY <1>1, <2>2, <2>3, <2>4, <4>1, <4>2
      <4>4. k # n => t[i+1] = s[k+1]
        BY <1>1, <4>1
      <4>5. /\ q.next[s[k]] = IF k = n THEN NULL ELSE s[k+1]
            /\ q.prev[s[k]] = s[k-1]
        BY <1>1, <4>1, SMTT(30) DEF Represents
      <4>6. r.next[t[i]] = IF i = Len(t) THEN NULL ELSE t[i+1]
        BY <1>1, <4>1, <4>3, <4>4, <4>5
      <4>7. r.prev[t[i]] = t[i-1]
        BY <4>1, <4>3, <4>5
      <4> QED BY <3>3, <4>6, <4>7
    <3> QED BY <1>1, <3>1, <3>2, <3>3
  <2> QED BY <1>1, <1>2, <1>4, <2>1, <2>3, <2>5 DEF Represents
<1> QED BY <1>3, <1>4

\* Without drops exactly the one occurrence of e.
LEMMA WithoutElems ==
  ASSUME NEW s \in Seq(Env), NoDup(s), NEW k \in 1..Len(s)
  PROVE  /\ Without(s, s[k]) \in Seq(Env)
         /\ Len(Without(s, s[k])) = Len(s) - 1
         /\ \A i \in 1..(Len(s) - 1) :
               Without(s, s[k])[i] = IF i < k THEN s[i] ELSE s[i+1]
         /\ NoDup(Without(s, s[k]))
         /\ Elems(Without(s, s[k])) = Elems(s) \ {s[k]}
<1> DEFINE n == Len(s)
           w == [i \in 1..(n - 1) |-> IF i < k THEN s[i] ELSE s[i+1]]
<1>1. Without(s, s[k]) = w
  <2>1. (CHOOSE j \in 1..n : s[j] = s[k]) = k
    BY DEF NoDup
  <2> QED BY <2>1 DEF Without
<1>2. n \in Nat /\ n - 1 \in Nat /\ \A i \in 1..n : s[i] \in Env
  OBVIOUS
<1>3. w \in Seq(Env) /\ Len(w) = n - 1
  <2>1. \A i \in 1..(n - 1) : (IF i < k THEN s[i] ELSE s[i+1]) \in Env
    BY <1>2
  <2>2. w \in [1..(n - 1) -> Env]
    BY <2>1
  <2> QED BY <1>2, <2>2
<1>4. \A i \in 1..(n - 1) : w[i] = IF i < k THEN s[i] ELSE s[i+1]
  OBVIOUS
<1>5. NoDup(w)
  BY <1>2, <1>3, <1>4 DEF NoDup
<1>6. Elems(w) = Elems(s) \ {s[k]}
  <2>1. ASSUME NEW i \in 1..Len(w) PROVE w[i] \in Elems(s) \ {s[k]}
    BY <1>2, <1>3, <1>4 DEF NoDup, Elems
  <2>2. ASSUME NEW j \in 1..n, s[j] # s[k] PROVE s[j] \in Elems(w)
    <3>1. CASE j < k
      <4>1. j \in 1..Len(w) /\ w[j] = s[j]
        BY <1>2, <1>3, <1>4, <3>1
      <4> QED BY <4>1 DEF Elems
    <3>2. CASE j > k
      <4>1. j - 1 \in 1..Len(w) /\ w[j-1] = s[j]
        BY <1>2, <1>3, <1>4, <3>2
      <4> QED BY <4>1 DEF Elems
    <3> QED BY <2>2, <3>1, <3>2
  <2> QED BY <2>1, <2>2 DEF Elems
<1> QED BY <1>1, <1>3, <1>4, <1>5, <1>6

\* TAILQ_REMOVE of a queued element takes it out and keeps the others' order.
LEMMA Remove ==
  ASSUME NEW q \in Tailq, NEW s, Represents(q, s), NEW e \in Elems(s)
  PROVE  Represents(TAILQ_REMOVE(q, e), Without(s, e))
<1> DEFINE n == Len(s)
<1>0. s \in Seq(Env) /\ n \in Nat /\ NoDup(s) /\ \A i \in 1..n : s[i] \in Env
  BY DEF Represents
<1> PICK k \in 1..n : e = s[k]
  BY DEF Elems
<1> DEFINE w == Without(s, e)
           r == TAILQ_REMOVE(q, e)
<1>1. /\ w \in Seq(Env) /\ Len(w) = n - 1 /\ NoDup(w)
      /\ \A i \in 1..(n - 1) : w[i] = IF i < k THEN s[i] ELSE s[i+1]
  BY <1>0, WithoutElems
<1>2. /\ q.next[e] = IF k = n THEN NULL ELSE s[k+1]
      /\ q.prev[e] = IF k = 1 THEN HEAD ELSE s[k-1]
      /\ ~q.fault
  BY DEF Represents
<1>3. /\ q.next \in [Env -> Env \union {NULL}]
      /\ q.prev \in [Env -> Env \union {HEAD, NULL}]
  BY DEF Tailq
<1>4. /\ ~r.fault
      /\ r.first = IF k = 1 THEN q.next[e] ELSE q.first
      /\ r.last = IF k = n THEN q.prev[e] ELSE q.last
      /\ r.next = IF k = 1 THEN q.next ELSE [q.next EXCEPT ![s[k-1]] = q.next[e]]
      /\ r.prev = IF k = n THEN q.prev ELSE [q.prev EXCEPT ![s[k+1]] = q.prev[e]]
  <2> DEFINE q1 == IF q.next[e] # NULL
                     THEN [q EXCEPT !.prev[q.next[e]] = q.prev[e]]
                     ELSE [q EXCEPT !.last = q.prev[e]]
  <2>1. r = Store(q1, q1.prev[e], q1.next[e])
    BY DEF TAILQ_REMOVE
  <2>2. k # n => s[k+1] \in Env /\ s[k+1] # NULL /\ s[k+1] # e
    BY <1>0 DEF NoDup
  <2>3. k # 1 => s[k-1] \in Env /\ s[k-1] # NULL /\ s[k-1] # HEAD
    BY <1>0
  <2>4. /\ q1 \in Tailq /\ ~q1.fault
        /\ q1.first = q.first
        /\ q1.last = IF k = n THEN q.prev[e] ELSE q.last
        /\ q1.next = q.next
        /\ q1.prev = IF k = n THEN q.prev ELSE [q.prev EXCEPT ![s[k+1]] = q.prev[e]]
    BY <1>0, <1>2, <1>3, <2>2 DEF Tailq
  <2>5. q1.prev[e] = q.prev[e]
    BY <1>0, <1>3, <2>2, <2>4
  <2> HIDE DEF q1
  <2>6. CASE k = 1
    BY <1>2, <2>1, <2>4, <2>5, <2>6 DEF Store, Tailq
  <2>7. CASE k # 1
    BY <1>2, <2>1, <2>3, <2>4, <2>5, <2>7 DEF Store, Tailq
  <2> QED BY <2>6, <2>7
<1>5. r.first = IF w = <<>> THEN NULL ELSE w[1]
  <2>1. q.first = s[1]
    BY <1>0 DEF Represents
  <2> QED BY <1>0, <1>1, <1>2, <1>4, <2>1
<1>6. r.last = IF w = <<>> THEN HEAD ELSE w[Len(w)]
  <2>1. q.last = s[n]
    BY <1>0 DEF Represents
  <2>2. CASE n = 1
    BY <1>0, <1>1, <1>2, <1>4, <2>2
  <2>3. CASE n # 1 /\ k = n
    <3>1. w # <<>> /\ w[Len(w)] = s[n-1]
      BY <1>0, <1>1, <2>3
    <3> QED BY <1>2, <1>4, <2>3, <3>1
  <2>4. CASE k # n
    <3>1. w # <<>> /\ w[Len(w)] = s[n]
      BY <1>0, <1>1, <2>4
    <3> QED BY <1>4, <2>1, <2>4, <3>1
  <2> QED BY <2>2, <2>3, <2>4
<1>7. ASSUME NEW i \in 1..Len(w)
      PROVE  /\ r.next[w[i]] = IF i = Len(w) THEN NULL ELSE w[i+1]
             /\ r.prev[w[i]] = IF i = 1 THEN HEAD ELSE w[i-1]
  <2> DEFINE j == IF i < k THEN i ELSE i + 1
  <2>1. j \in 1..n /\ j # k /\ w[i] = s[j]
    BY <1>0, <1>1
  <2>2. /\ q.next[s[j]] = IF j = n THEN NULL ELSE s[j+1]
        /\ q.prev[s[j]] = IF j = 1 THEN HEAD ELSE s[j-1]
    BY <2>1 DEF Represents
  <2>3. r.next[s[j]] = IF k # 1 /\ j = k - 1 THEN q.next[e] ELSE q.next[s[j]]
    <3>1. k # 1 => s[k-1] \in Env /\ (s[j] = s[k-1] => j = k - 1)
      BY <1>0, <2>1 DEF NoDup
    <3> QED BY <1>0, <1>3, <1>4, <2>1, <3>1
  <2>4. r.prev[s[j]] = IF k # n /\ j = k + 1 THEN q.prev[e] ELSE q.prev[s[j]]
    <3>1. k # n => s[k+1] \in Env /\ (s[j] = s[k+1] => j = k + 1)
      BY <1>0, <2>1 DEF NoDup
    <3> QED BY <1>0, <1>3, <1>4, <2>1, <3>1
  <2>5. r.next[w[i]] = IF i = Len(w) THEN NULL ELSE w[i+1]
    <3>1. CASE i < k - 1
      <4>1. j = i /\ i # Len(w) /\ w[i+1] = s[i+1]
        BY <1>0, <1>1, <3>1
      <4> QED BY <2>1, <2>2, <2>3, <3>1, <4>1
    <3>2. CASE i = k - 1
      <4>1. j = i /\ k # 1 /\ (i = Len(w) <=> k = n) /\ (k # n => w[i+1] = s[k+1])
        BY <1>0, <1>1, <3>2
      <4> QED BY <1>2, <2>1, <2>3, <3>2, <4>1
    <3>3. CASE i >= k
      <4>1. j = i + 1 /\ (i = Len(w) <=> j = n) /\ (j # n => w[i+1] = s[j+1])
        BY <1>0, <1>1, <3>3
      <4> QED BY <2>1, <2>2, <2>3, <3>3, <4>1
    <3> QED BY <1>0, <1>1, <3>1, <3>2, <3>3
  <2>6. r.prev[w[i]] = IF i = 1 THEN HEAD ELSE w[i-1]
    <3>1. CASE i < k
      <4>1. j = i /\ (i # 1 => w[i-1] = s[i-1])
        BY <1>0, <1>1, <3>1, SMTT(30)
      <4> QED BY <2>1, <2>2, <2>4, <3>1, <4>1
    <3>2. CASE i = k
      <4>1. j = k + 1 /\ k # n /\ (i # 1 => w[i-1] = s[k-1])
        BY <1>0, <1>1, <2>1, <3>2
      <4> QED BY <1>2, <2>1, <2>4, <3>2, <4>1
    <3>3. CASE i > k
      <4>1. j = i + 1 /\ i # 1 /\ w[i-1] = s[j-1] /\ j # 1 /\ j # k + 1
        BY <1>0, <1>1, <2>1, <3>3
      <4> QED BY <2>1, <2>2, <2>4, <3>3, <4>1
    <3> QED BY <1>0, <1>1, <3>1, <3>2, <3>3
  <2> QED BY <2>5, <2>6
<1> QED BY <1>1, <1>4, <1>5, <1>6, <1>7 DEF Represents

-----------------------------------------------------------------------------
(***************************************************************************)
(* Type correctness.                                                       *)
(***************************************************************************)

LEMMA NullVaType == NullVa \in UserVa /\ NullVa \in Va /\ PdVa \in Va /\ UserVa \subseteq Va
BY LayoutAssumption DEF Va

\* schedule() picks an environment of the queue and leaves a queue.
LEMMA ScheduleType ==
  ASSUME TypeOK, NEW yield \in BOOLEAN, NEW e \in Env \union {NULL},
         NEW es \in [Env -> EnvRec], NEW q \in Tailq
  PROVE  LET s == schedule(yield, e, es, q)
         IN  /\ s.cur \in Env \union {NULL} /\ s.count \in Int /\ s.queue \in Tailq
             /\ s.kern \in {"up"} \union Panics
<1> DEFINE runnable == e # NULL /\ es[e].status = ENV_RUNNABLE
           moved == IF runnable THEN TAILQ_INSERT_TAIL(TAILQ_REMOVE(q, e), e) ELSE q
           f == TAILQ_FIRST(moved)
           s == schedule(yield, e, es, q)
<1>1. moved \in Tailq
  <2>1. CASE runnable
    <3>1. e \in Env
      BY <2>1
    <3>2. TAILQ_REMOVE(q, e) \in Tailq
      BY <3>1, TailqType
    <3>3. TAILQ_INSERT_TAIL(TAILQ_REMOVE(q, e), e) \in Tailq
      BY <3>1, <3>2, TailqType
    <3> QED BY <2>1, <3>3
  <2>2. CASE ~runnable
    BY <2>2
  <2> QED BY <2>1, <2>2
<1>2. count \in Int /\ count - 1 \in Int
  BY DEF TypeOK
<1>3. \/ runnable /\ s = env_run(es, e, count - 1, q)
      \/ s = [cur |-> e, count |-> count - 1, queue |-> moved,
              kern |-> IF moved.fault THEN "null_link" ELSE "no_runnable"]
      \/ ~TAILQ_EMPTY(moved) /\ s = env_run(es, f, es[f].pri, moved)
  BY DEF schedule
<1> HIDE DEF moved, s
<1>4. ASSUME ~TAILQ_EMPTY(moved) PROVE f \in Env /\ es[f].pri \in Int
  <2>1. f \in Env
    BY <1>1, <1>4 DEF TAILQ_EMPTY, TAILQ_FIRST, Tailq
  <2>2. es[f].pri \in Pri \union {0}
    BY <2>1 DEF EnvRec
  <2>3. \A x \in Pri \union {0} : x \in Int
    BY KernelAssumption
  <2> QED BY <2>1, <2>2, <2>3
<1>5. /\ s.cur \in Env \union {NULL} /\ s.count \in Int /\ s.queue \in Tailq
      /\ s.kern \in {"up"} \union Panics
  <2>1. CASE runnable /\ s = env_run(es, e, count - 1, q)
    BY <1>2, <2>1 DEF env_run, Panics
  <2>2. CASE s = [cur |-> e, count |-> count - 1, queue |-> moved,
                  kern |-> IF moved.fault THEN "null_link" ELSE "no_runnable"]
    BY <1>1, <1>2, <2>2 DEF Panics
  <2>3. CASE ~TAILQ_EMPTY(moved) /\ s = env_run(es, f, es[f].pri, moved)
    BY <1>1, <1>4, <2>3 DEF env_run, Panics
  <2> QED BY <1>3, <2>1, <2>2, <2>3
<1> QED BY <1>5 DEF s

\* The part of the state that a handler sets through Switch or Return.
CoreType ==
  /\ mem \in Mem
  /\ envs \in [Env -> EnvRec]
  /\ env_sched_list \in Tailq
  /\ curenv \in Env \union {NULL}
  /\ count \in Int
  /\ kern \in {"boot", "up", "cgetc"} \union Panics

LEMMA SwitchType ==
  ASSUME TypeOK, NEW yield \in BOOLEAN, NEW e \in Env \union {NULL},
         NEW es \in [Env -> EnvRec], NEW q \in Tailq, NEW m \in Mem,
         Switch(yield, e, es, q, m)
  PROVE  CoreType'
<1>1. LET s == schedule(yield, e, es, q)
      IN  /\ s.cur \in Env \union {NULL} /\ s.count \in Int /\ s.queue \in Tailq
          /\ s.kern \in {"up"} \union Panics
  BY ScheduleType
<1>2. Outcome(q, m) \in {"up"} \union Panics
  BY DEF Outcome, Panics
<1> QED BY <1>1, <1>2 DEF Switch, CoreType, TypeOK

LEMMA ReturnType ==
  ASSUME TypeOK, NEW es \in [Env -> EnvRec], NEW q \in Tailq, NEW m \in Mem,
         Return(es, q, m)
  PROVE  CoreType'
<1>1. Outcome(q, m) \in {"up"} \union Panics
  BY DEF Outcome, Panics
<1> QED BY <1>1 DEF Return, CoreType, TypeOK

\* envid2env yields a slot or NULL.
LEMMA NamedType ==
  ASSUME TypeOK, NEW checkperm \in BOOLEAN, NEW e \in Named(checkperm)
  PROVE  e \in Env \union {NULL}
<1> PICK id \in EnvId : e = envid2env(id, checkperm)
  BY DEF Named
<1> QED BY DEF envid2env, EnvId, NoId, TypeOK

\* env_alloc fills the slot with values of the right type.
LEMMA EnvAllocType ==
  ASSUME TypeOK, NEW e \in Env, NEW a \in Asid, NEW parent \in EnvId, next_id < MaxId
  PROVE  /\ env_alloc(e, a, parent) \in EnvRec
         /\ next_id + 1 \in 0..MaxId
<1>1. next_id + 1 \in 1..MaxId
  BY KernelAssumption DEF TypeOK
<1>2. mkenvid(e) \in EnvId
  BY <1>1 DEF mkenvid, EnvId
<1>3. envs[e] \in EnvRec
  BY DEF TypeOK
<1>4. [envs[e] EXCEPT !.id = mkenvid(e), !.asid = a, !.parent_id = parent] \in EnvRec
  BY <1>2, <1>3 DEF EnvRec
<1> QED BY <1>1, <1>4 DEF env_alloc

LEMMA TypeInit == Init => TypeOK
<1> SUFFICES ASSUME Init PROVE TypeOK
  OBVIOUS
<1>1. page_init \in Mem
  BY PageAssumption DEF page_init, Mem, Entry
<1>2. TAILQ_INIT \in Tailq
  BY DEF TAILQ_INIT, Tailq
<1>3. 0 \in Asid /\ NoId \in EnvId
  BY PageAssumption DEF Asid, EnvId
<1>4. envs \in [Env -> EnvRec]
  BY <1>3, LayoutAssumption DEF Init, EnvRec, ENV_FREE
<1>5. count \in Int /\ next_id \in 0..MaxId
  BY KernelAssumption DEF Init
<1> QED BY <1>1, <1>2, <1>4, <1>5 DEF Init, TypeOK

\* A handler that leaves the pools alone.
LEMMA QuietType ==
  ASSUME TypeOK, CoreType', Quiet
  PROVE  TypeOK'
BY DEF TypeOK, CoreType, Quiet

LEMMA TypeError == ASSUME TypeOK, Error PROVE TypeOK'
BY DEF TypeOK, Error, vars

LEMMA TypePanic == ASSUME TypeOK, NEW reason \in Panics, Panic(reason) PROVE TypeOK'
BY DEF TypeOK, Panic

\* Waiting for a key moves nothing.
LEMMA ConsoleSteps ==
  ASSUME sys_cgetc \/ scancharc
  PROVE  /\ UNCHANGED <<mem, envs, env_free_list, asid_bitmap, env_sched_list, curenv,
                        count, next_id>>
         /\ \/ UserRuns /\ kern' = "cgetc"
            \/ kern = "cgetc" /\ kern' = "up"
BY DEF sys_cgetc, scancharc, Quiet

LEMMA MeType ==
  ASSUME TypeOK, UserRuns
  PROVE  /\ curenv \in Env /\ Me \in EnvRec /\ Me.asid \in Asid /\ Me.id \in EnvId
         /\ Me.pri \in Pri \union {0}
BY DEF TypeOK, UserRuns, Me, EnvRec

LEMMA TypeEnvCreate == ASSUME TypeOK, EnvCreate PROVE TypeOK'
<1> PICK e \in env_free_list, a \in asid_alloc, pri \in Pri,
         va \in IF ImageVa = {} THEN {NullVa} ELSE ImageVa : env_create(e, a, va, pri)
  BY DEF EnvCreate
<1>1. e \in Env /\ a \in Asid /\ va \in Va /\ NoId \in EnvId /\ PTE_D \in Perm
  BY KernelAssumption, NullVaType, PageAssumption DEF TypeOK, asid_alloc, EnvId
<1> DEFINE m1 == env_setup_vm(mem, e)
<1>2. m1 \in Mem
  BY <1>1, SetupVmType DEF TypeOK, env_create
<1> HIDE DEF m1
<1>3. alloc_insert(m1, e, a, va, PTE_D).mem \in Mem
  BY <1>1, <1>2, AllocInsertType
<1>4. mem' \in Mem /\ kern' \in {"boot", "up"} \union Panics
  BY <1>2, <1>3 DEF env_create, Panics, m1
<1>5. env_alloc(e, a, NoId) \in EnvRec /\ next_id + 1 \in 0..MaxId
  BY <1>1, EnvAllocType DEF env_create
<1>6. [env_alloc(e, a, NoId) EXCEPT !.pri = pri, !.status = ENV_RUNNABLE] \in EnvRec
  BY <1>5 DEF EnvRec
<1>7. envs' \in [Env -> EnvRec]
  BY <1>6 DEF env_create, TypeOK
<1>8. env_sched_list' \in Tailq
  BY <1>1, TailqType DEF env_create, TypeOK
<1>9. env_free_list' \in SUBSET Env /\ asid_bitmap' \in SUBSET Asid
  BY <1>1 DEF env_create, TypeOK
<1>10. next_id' \in 0..MaxId /\ curenv' = curenv /\ count' = count
  BY <1>5 DEF env_create
<1> QED BY <1>4, <1>7, <1>8, <1>9, <1>10 DEF TypeOK

LEMMA TypeExofork == ASSUME TypeOK, sys_exofork PROVE TypeOK'
<1>1. CASE Error
  BY <1>1, TypeError
<1>2. CASE Panic("no_asid")
  BY <1>2, TypePanic DEF Panics
<1>3. ASSUME NEW e \in env_free_list, NEW a \in asid_alloc,
             LET child == [env_alloc(e, a, Me.id)
                             EXCEPT !.status = ENV_NOT_RUNNABLE, !.pri = Me.pri]
             IN  /\ mem.free # {}
                 /\ Return([envs EXCEPT ![e] = child], env_sched_list,
                           env_setup_vm(mem, e))
                 /\ env_free_list' = env_free_list \ {e}
                 /\ asid_bitmap' = asid_bitmap \union {a}
                 /\ next_id' = next_id + 1
      PROVE  TypeOK'
  <2> DEFINE child == [env_alloc(e, a, Me.id)
                         EXCEPT !.status = ENV_NOT_RUNNABLE, !.pri = Me.pri]
  <2>1. e \in Env /\ a \in Asid
    BY DEF TypeOK, asid_alloc
  <2>2. /\ curenv \in Env /\ Me \in EnvRec /\ Me.asid \in Asid /\ Me.id \in EnvId
        /\ Me.pri \in Pri \union {0} /\ next_id < MaxId
    BY MeType DEF sys_exofork
  <2>3. env_alloc(e, a, Me.id) \in EnvRec /\ next_id + 1 \in 0..MaxId
    BY <2>1, <2>2, EnvAllocType
  <2>4. child \in EnvRec
    BY <2>2, <2>3 DEF EnvRec
  <2> HIDE DEF child
  <2>5. [envs EXCEPT ![e] = child] \in [Env -> EnvRec]
    BY <2>4 DEF TypeOK
  <2>6. env_setup_vm(mem, e) \in Mem
    BY <1>3, <2>1, SetupVmType DEF TypeOK
  <2>7. Return([envs EXCEPT ![e] = child], env_sched_list, env_setup_vm(mem, e))
    BY <1>3 DEF child
  <2>8. CoreType'
    BY <2>5, <2>6, <2>7, ReturnType DEF TypeOK
  <2>9. env_free_list' \in SUBSET Env /\ asid_bitmap' \in SUBSET Asid
    BY <1>3, <2>1 DEF TypeOK
  <2>10. next_id' \in 0..MaxId
    BY <1>3, <2>3
  <2> QED BY <2>8, <2>9, <2>10 DEF TypeOK, CoreType
<1> QED BY <1>1, <1>2, <1>3 DEF sys_exofork

LEMMA TypeDestroy ==
  ASSUME TypeOK, NEW e \in Env \union {NULL}, sys_env_destroy(e)
  PROVE  TypeOK'
<1>1. CASE Error
  BY <1>1, TypeError
<1>2. CASE ~Error
  <2> DEFINE es == [envs EXCEPT ![e].status = ENV_FREE]
             q == TAILQ_REMOVE(env_sched_list, e)
             m == env_free_vm(mem, e, envs[e].asid)
  <2>1. /\ UserRuns /\ e \in Env
        /\ asid_bitmap' = asid_bitmap \ {envs[e].asid}
        /\ env_free_list' = env_free_list \union {e}
        /\ IF e = curenv THEN Switch(TRUE, NULL, es, q, m) ELSE Return(es, q, m)
        /\ next_id' = next_id
    BY <1>2 DEF sys_env_destroy
  <2>2. es \in [Env -> EnvRec]
    BY <2>1 DEF TypeOK, EnvRec
  <2>3. q \in Tailq
    BY <2>1, TailqType DEF TypeOK
  <2>4. m \in Mem
    BY <2>1, FreeVmType DEF TypeOK, EnvRec
  <2> HIDE DEF es, q, m
  <2>5. CoreType'
    BY <2>1, <2>2, <2>3, <2>4, SwitchType, ReturnType
  <2> QED BY <2>1, <2>5 DEF TypeOK, CoreType
<1> QED BY <1>1, <1>2

LEMMA TypeSetStatus ==
  ASSUME TypeOK, NEW e \in Env \union {NULL}, NEW status, sys_set_env_status(e, status)
  PROVE  TypeOK'
<1>1. CASE Error
  BY <1>1, TypeError
<1>2. CASE ~Error
  <2> DEFINE es == [envs EXCEPT ![e].status = status]
             q == IF status = ENV_RUNNABLE THEN TAILQ_INSERT_TAIL(env_sched_list, e)
                                           ELSE TAILQ_REMOVE(env_sched_list, e)
  <2>1. /\ e \in Env /\ status \in {ENV_RUNNABLE, ENV_NOT_RUNNABLE}
        /\ Return(es, q, mem) /\ Quiet
    BY <1>2 DEF sys_set_env_status, Quiet
  <2>2. es \in [Env -> EnvRec]
    BY <2>1 DEF TypeOK, EnvRec
  <2>3. q \in Tailq
    BY <2>1, TailqType DEF TypeOK
  <2> HIDE DEF es, q
  <2>4. CoreType'
    BY <2>1, <2>2, <2>3, ReturnType DEF TypeOK
  <2> QED BY <2>1, <2>4, QuietType
<1> QED BY <1>1, <1>2

LEMMA TypeYield == ASSUME TypeOK, sys_yield \/ handle_int PROVE TypeOK'
<1>1. \/ Switch(TRUE, curenv, envs, env_sched_list, mem)
      \/ Switch(FALSE, curenv, envs, env_sched_list, mem)
  BY DEF sys_yield, handle_int
<1>2. CoreType'
  BY <1>1, SwitchType DEF TypeOK
<1> QED BY <1>2, QuietType DEF sys_yield, handle_int, Quiet

LEMMA TypeMemAlloc ==
  ASSUME TypeOK, NEW e \in Env \union {NULL}, NEW va \in UserVa, NEW perm \in Perm,
         sys_mem_alloc(e, va, perm)
  PROVE  TypeOK'
<1>1. CASE Error
  BY <1>1, TypeError
<1>2. CASE ~Error
  <2> DEFINE m == alloc_insert(mem, e, envs[e].asid, va, perm).mem
  <2>1. e \in Env /\ Return(envs, env_sched_list, m) /\ Quiet
    BY <1>2 DEF sys_mem_alloc
  <2>2. envs[e].asid \in Asid /\ va \in Va
    BY <2>1, NullVaType DEF TypeOK, EnvRec
  <2>3. m \in Mem
    BY <2>1, <2>2, AllocInsertType DEF TypeOK
  <2> HIDE DEF m
  <2> QED BY <2>1, <2>3, ReturnType, QuietType DEF TypeOK
<1> QED BY <1>1, <1>2

LEMMA TypeMemMap ==
  ASSUME TypeOK, NEW src \in Env \union {NULL}, NEW dst \in Env \union {NULL},
         NEW srcva \in UserVa, NEW dstva \in UserVa, NEW perm \in Perm,
         sys_mem_map(src, srcva, dst, dstva, perm)
  PROVE  TypeOK'
<1>1. CASE Error
  BY <1>1, TypeError
<1>2. CASE ~Error
  <2> DEFINE pp == page_lookup(mem, src, srcva).pp
             m == page_insert(mem, dst, envs[dst].asid, pp, dstva, perm).mem
  <2>1. /\ src \in Env /\ dst \in Env /\ page_lookup(mem, src, srcva) # NoPte
        /\ Return(envs, env_sched_list, m) /\ Quiet
    BY <1>2 DEF sys_mem_map
  <2>2. envs[dst].asid \in Asid /\ srcva \in Va /\ dstva \in Va
    BY <2>1, NullVaType DEF TypeOK, EnvRec
  <2>3. pp \in Page
    BY <2>1, <2>2 DEF TypeOK, Mem, Entry, Pte, page_lookup
  <2> HIDE DEF pp
  <2>4. m \in Mem
    BY <2>1, <2>2, <2>3, InsertType DEF TypeOK
  <2> HIDE DEF m
  <2> QED BY <2>1, <2>4, ReturnType, QuietType DEF TypeOK
<1> QED BY <1>1, <1>2

LEMMA TypeMemUnmap ==
  ASSUME TypeOK, NEW e \in Env \union {NULL}, NEW va \in UserVa, sys_mem_unmap(e, va)
  PROVE  TypeOK'
<1>1. CASE Error
  BY <1>1, TypeError
<1>2. CASE ~Error
  <2> DEFINE m == page_remove(mem, e, envs[e].asid, va)
  <2>1. e \in Env /\ Return(envs, env_sched_list, m) /\ Quiet
    BY <1>2 DEF sys_mem_unmap
  <2>2. envs[e].asid \in Asid /\ va \in Va
    BY <2>1, NullVaType DEF TypeOK, EnvRec
  <2>3. m \in Mem
    BY <2>1, <2>2, RemoveType DEF TypeOK
  <2> HIDE DEF m
  <2> QED BY <2>1, <2>3, ReturnType, QuietType DEF TypeOK
<1> QED BY <1>1, <1>2

LEMMA VictimType ==
  ASSUME TypeOK, UserRuns, NEW va \in Va
  PROVE  Victims(va) \subseteq Asid \X Va
BY MeType DEF Victims, Cached

LEMMA TypeRefill ==
  ASSUME TypeOK, NEW va \in Va, do_tlb_refill(va)
  PROVE  TypeOK'
<1> DEFINE filled == alloc_insert(mem, curenv, Me.asid, va, PTE_D)
           refill(m) == \E victim \in Victims(va) :
             mem' = tlbwr(m, Me.asid, va, page_lookup(m, curenv, va), victim)
<1>1. UserRuns /\ curenv \in Env /\ Me.asid \in Asid /\ PTE_D \in Perm
  BY MeType, PageAssumption DEF do_tlb_refill
<1>2. filled.mem \in Mem
  BY <1>1, AllocInsertType DEF TypeOK
<1>3. ASSUME NEW m \in Mem, refill(m) PROVE mem' \in Mem
  <2>1. PICK victim \in Victims(va) :
             mem' = tlbwr(m, Me.asid, va, page_lookup(m, curenv, va), victim)
    BY <1>3
  <2>2. victim \in Asid \X Va
    BY <1>1, VictimType
  <2>3. page_lookup(m, curenv, va) \in Entry
    BY <1>1 DEF page_lookup, Mem
  <2> QED BY <1>1, <2>1, <2>2, <2>3, TlbwrType
<1>4. /\ \/ refill(mem) /\ kern' = kern
         \/ mem' = mem /\ kern' = "bad_va"
         \/ refill(filled.mem) /\ kern' = kern
         \/ mem' = filled.mem /\ kern' = "no_mem"
      /\ UNCHANGED <<envs, env_free_list, asid_bitmap, env_sched_list, curenv,
                     count, next_id>>
  BY DEF do_tlb_refill
<1> HIDE DEF filled, refill
<1>5. mem \in Mem /\ mem' \in Mem
  BY <1>2, <1>3, <1>4 DEF TypeOK
<1>6. kern' \in {"boot", "up", "cgetc"} \union Panics
  BY <1>4 DEF TypeOK, Panics
<1> QED BY <1>4, <1>5, <1>6 DEF TypeOK

\* The fields sys_ipc_recv fills in.
LEMMA WaitingType ==
  ASSUME TypeOK, NEW e \in Env, NEW va \in UserVa
  PROVE  [envs EXCEPT ![e].ipc_recving = TRUE, ![e].ipc_dstva = va,
                      ![e].status = ENV_NOT_RUNNABLE] \in [Env -> EnvRec]
<1> DEFINE r1 == [envs[e] EXCEPT !.ipc_recving = TRUE]
           s1 == [envs EXCEPT ![e].ipc_recving = TRUE]
           s2 == [s1 EXCEPT ![e].ipc_dstva = va]
           s3 == [s2 EXCEPT ![e].status = ENV_NOT_RUNNABLE]
<1>1. envs \in [Env -> EnvRec] /\ envs[e] \in EnvRec
  BY DEF TypeOK
<1>2. r1 \in EnvRec
  BY <1>1 DEF EnvRec
<1>3. s1 \in [Env -> EnvRec]
  BY <1>1, <1>2
<1>4. s1[e] \in EnvRec
  BY <1>3
<1> HIDE DEF s1
<1>5. [s1[e] EXCEPT !.ipc_dstva = va] \in EnvRec
  BY <1>4 DEF EnvRec
<1>6. s2 \in [Env -> EnvRec] /\ s2[e] \in EnvRec
  BY <1>3, <1>5
<1> HIDE DEF s2
<1>7. [s2[e] EXCEPT !.status = ENV_NOT_RUNNABLE] \in EnvRec
  BY <1>6 DEF EnvRec
<1>8. s3 \in [Env -> EnvRec]
  BY <1>6, <1>7
<1> QED BY <1>8 DEF s1, s2

LEMMA TypeRecv ==
  ASSUME TypeOK, NEW va \in IpcVa, sys_ipc_recv(va)
  PROVE  TypeOK'
<1>1. CASE Error
  BY <1>1, TypeError
<1>2. CASE ~Error
  <2> DEFINE es == [envs EXCEPT ![curenv].ipc_recving = TRUE,
                                ![curenv].ipc_dstva = va,
                                ![curenv].status = ENV_NOT_RUNNABLE]
             q == TAILQ_REMOVE(env_sched_list, curenv)
  <2>1. /\ UserRuns
        /\ va = NullVa \/ ~is_illegal_va(va)
        /\ Switch(TRUE, curenv, es, q, mem) /\ Quiet
    BY <1>2 DEF sys_ipc_recv
  <2>2. curenv \in Env /\ va \in UserVa
    BY <2>1, MeType, NullVaType DEF is_illegal_va
  <2>3. es \in [Env -> EnvRec]
    BY <2>2, WaitingType
  <2>4. q \in Tailq
    BY <2>2, TailqType DEF TypeOK
  <2> HIDE DEF es, q
  <2>5. CoreType'
    BY <2>1, <2>2, <2>3, <2>4, SwitchType DEF TypeOK
  <2> QED BY <2>1, <2>5, QuietType
<1> QED BY <1>1, <1>2

LEMMA TypeSend ==
  ASSUME TypeOK, NEW e \in Env \union {NULL}, NEW va \in IpcVa, NEW perm \in Perm,
         sys_ipc_try_send(e, va, perm)
  PROVE  TypeOK'
<1>1. CASE Error
  BY <1>1, TypeError
<1>2. CASE ~Error
  <2> DEFINE es == [envs EXCEPT ![e].ipc_recving = FALSE,
                                ![e].status = ENV_RUNNABLE]
             q == TAILQ_INSERT_TAIL(env_sched_list, e)
             pte == page_lookup(mem, curenv, va)
             m == page_insert(mem, e, envs[e].asid, pte.pp, envs[e].ipc_dstva, perm).mem
  <2>1. /\ UserRuns /\ e \in Env
        /\ va = NullVa \/ ~is_illegal_va(va)
        /\ Return(es, q, mem) \/ (pte # NoPte /\ Return(es, q, m))
        /\ Quiet
    BY <1>2 DEF sys_ipc_try_send
  <2>2. curenv \in Env /\ va \in Va
    BY <2>1, MeType, NullVaType DEF is_illegal_va
  <2>3. es \in [Env -> EnvRec]
    BY <2>1, ZenonT(60) DEF TypeOK, EnvRec
  <2>4. q \in Tailq
    BY <2>1, TailqType DEF TypeOK
  <2>5. envs[e].asid \in Asid /\ envs[e].ipc_dstva \in Va
    BY <2>1, NullVaType DEF TypeOK, EnvRec
  <2>6. pte # NoPte => pte.pp \in Page
    BY <2>2 DEF TypeOK, Mem, Entry, Pte, page_lookup
  <2> HIDE DEF pte
  <2>7. pte # NoPte => m \in Mem
    BY <2>1, <2>5, <2>6, InsertType DEF TypeOK
  <2> HIDE DEF es, q, m
  <2>8. CoreType'
    BY <2>1, <2>3, <2>4, <2>7, ReturnType DEF TypeOK
  <2> QED BY <2>1, <2>8, QuietType
<1> QED BY <1>1, <1>2

\* Every step of any program, by cases on the handler.
LEMMA TypeNext == TypeOK /\ [Next]_vars => TypeOK'
<1> SUFFICES ASSUME TypeOK, [Next]_vars PROVE TypeOK'
  OBVIOUS
<1>1. CASE UNCHANGED vars
  BY <1>1 DEF TypeOK, vars
<1>2. CASE EnvCreate
  BY <1>2, TypeEnvCreate
<1>3. CASE kclock_init
  BY <1>3 DEF kclock_init, TypeOK
<1>4. CASE sys_exofork
  BY <1>4, TypeExofork
<1>5. CASE sys_yield \/ handle_int
  BY <1>5, TypeYield
<1>6. CASE MemSyscall
  BY <1>6, NamedType, TypeMemAlloc, TypeMemMap, TypeMemUnmap, TypeRefill DEF MemSyscall
<1>7. CASE Ipc
  BY <1>7, NamedType, TypeRecv, TypeSend DEF Ipc
<1>8. CASE \E e \in Named(TRUE) : sys_env_destroy(e)
  BY <1>8, NamedType, TypeDestroy
<1>9. CASE \E e \in Named(TRUE) : \E status : sys_set_env_status(e, status)
  BY <1>9, NamedType, TypeSetStatus
<1>10. CASE sys_cgetc \/ scancharc
  BY <1>10, ConsoleSteps DEF TypeOK
<1> QED BY <1>1, <1>2, <1>3, <1>4, <1>5, <1>6, <1>7, <1>8, <1>9, <1>10 DEF Next, Common

\* Whatever system calls programs make, the kernel's data structures keep
\* their types: no counter of struct Page leaves its range, curenv, the run
\* queue and its links point at environments or nowhere.
THEOREM TypeCorrect == Spec => []TypeOK
<1> QED BY TypeInit, TypeNext, PTL DEF Spec

-----------------------------------------------------------------------------
(***************************************************************************)
(* Memory safety of the kernel for any program: exact reference counts,    *)
(* free pages unmapped, page tables private and present, a coherent TLB and*)
(* exact ASIDs.  The hypothesis is RefBound: pp_ref is wide enough to count*)
(* every entry of every address space.                                     *)
(***************************************************************************)
\* What relates the memory m, the environment table es and the bitmap bm.
Coherent(m, es, bm) ==
  /\ Core(m) /\ Shape(m)
  /\ \A e \in Env : es[e].status = ENV_FREE => \A v \in Va : m.pt[e][v] = NoPte
  /\ \A e \in Env : es[e].status # ENV_FREE => m.pt[e][PdVa] # NoPte /\ es[e].asid \in bm
  /\ \A a \in bm : \E e \in Env : es[e].status # ENV_FREE /\ es[e].asid = a
  /\ \A e, f \in Env : es[e].status # ENV_FREE /\ es[f].status # ENV_FREE
                         /\ es[e].asid = es[f].asid => e = f
  /\ \A e \in Env : es[e].status # ENV_FREE =>
        \A v \in Va : m.tlb[es[e].asid][v] \in {NoPte, m.pt[e][v]}
                        \/ Leftover(m, es[e].asid, v)
  /\ \A a \in Asid \ bm : \A v \in Va : m.tlb[a][v] = NoPte \/ Leftover(m, a, v)

\* What env_free left in the TLB stays there as long as the entry does.
LEMMA LeftoverKept ==
  ASSUME NEW m, NEW n, NEW a, NEW v, n.tlb[a][v] = m.tlb[a][v],
         m.leaked \subseteq n.leaked, Leftover(m, a, v)
  PROVE  Leftover(n, a, v)
BY DEF Leftover

\* The inductive invariant.
MemRest ==
  /\ Coherent(mem, envs, asid_bitmap)
  /\ env_free_list = Env \ Live
  /\ kern = "boot" => curenv = NULL
  /\ UserRuns => curenv \in Live
  /\ kern = "cgetc" => curenv \in Live

MemInv == TypeOK /\ MemRest

\* A page operation on the address space of a living environment.
LEMMA InsertCoherent ==
  ASSUME NEW m \in Mem, NEW es \in [Env -> EnvRec], NEW bm \in SUBSET Asid,
         Coherent(m, es, bm), NEW e \in Env, es[e].status # ENV_FREE,
         NEW n, Inserted(m, n, e, es[e].asid)
  PROVE  Coherent(n, es, bm)
<1> DEFINE a == es[e].asid
<1>0. a \in Asid /\ a \in bm /\ PdVa \in Va
  BY NullVaType DEF EnvRec, Coherent
<1>1. /\ Core(n) /\ Shape(n)
      /\ \A f \in Env \ {e} : n.pt[f] = m.pt[f]
      /\ n.pt[e][PdVa] = m.pt[e][PdVa] /\ n.leaked = m.leaked
      /\ \A b \in Asid \ {a} : n.tlb[b] = m.tlb[b]
      /\ \A w \in Va : \/ n.tlb[a][w] = NoPte
                       \/ /\ n.tlb[a][w] = m.tlb[a][w]
                          /\ n.pt[e][w] = m.pt[e][w] \/ m.pt[e][w] = NoPte
  BY DEF Inserted, Frame
<1>2. \A f \in Env : es[f].status = ENV_FREE => \A v \in Va : n.pt[f][v] = NoPte
  BY <1>1 DEF Coherent
<1>3. \A f \in Env : es[f].status # ENV_FREE => n.pt[f][PdVa] # NoPte /\ es[f].asid \in bm
  BY <1>1 DEF Coherent
<1>4. ASSUME NEW f \in Env, es[f].status # ENV_FREE, NEW v \in Va
      PROVE  n.tlb[es[f].asid][v] \in {NoPte, n.pt[f][v]} \/ Leftover(n, es[f].asid, v)
  <2>1. m.tlb[es[f].asid][v] \in {NoPte, m.pt[f][v]} \/ Leftover(m, es[f].asid, v)
    BY <1>4 DEF Coherent
  <2>2. CASE f = e
    BY <1>1, <2>1, <2>2, LeftoverKept
  <2>3. CASE f # e
    <3>1. es[f].asid # a /\ es[f].asid \in Asid
      BY <1>4, <2>3 DEF Coherent, EnvRec
    <3> QED BY <1>1, <2>1, <2>3, <3>1, LeftoverKept
  <2> QED BY <2>2, <2>3
<1>5. ASSUME NEW b \in Asid \ bm, NEW v \in Va
      PROVE  n.tlb[b][v] = NoPte \/ Leftover(n, b, v)
  <2>1. b # a /\ (m.tlb[b][v] = NoPte \/ Leftover(m, b, v))
    BY <1>0 DEF Coherent
  <2> QED BY <1>1, <2>1, LeftoverKept
<1> QED BY <1>1, <1>2, <1>3, <1>4, <1>5 DEF Coherent

\* Fields other than the ASID, and the status as long as it is not ENV_FREE,
\* do not matter.
LEMMA StatusCoherent ==
  ASSUME NEW m, NEW es, NEW bm, Coherent(m, es, bm), NEW fs,
         \A e \in Env : fs[e].asid = es[e].asid
                        /\ (fs[e].status = ENV_FREE <=> es[e].status = ENV_FREE)
  PROVE  Coherent(m, fs, bm)
BY DEF Coherent

\* A new environment in a free slot, with a fresh directory and ASID.
LEMMA AllocCoherent ==
  ASSUME RefBound, NEW m \in Mem, NEW es \in [Env -> EnvRec], NEW bm \in SUBSET Asid,
         Coherent(m, es, bm), NEW e \in Env, es[e].status = ENV_FREE, m.free # {},
         NEW a \in Asid \ bm, NEW x, x.asid = a, x.status # ENV_FREE
  PROVE  Coherent(env_setup_vm(m, e), [es EXCEPT ![e] = x], bm \union {a})
<1> DEFINE n == env_setup_vm(m, e)
           fs == [es EXCEPT ![e] = x]
<1>0. PdVa \in Va /\ Core(m) /\ Shape(m) /\ \A v \in Va : m.pt[e][v] = NoPte
  BY NullVaType DEF Coherent
<1>1. /\ Core(n) /\ Shape(n) /\ n.tlb = m.tlb /\ n.leaked = m.leaked
      /\ \A f \in Env \ {e} : n.pt[f] = m.pt[f]
      /\ n.pt[e][PdVa] # NoPte
      /\ \A w \in Va : w # PdVa => n.pt[e][w] = m.pt[e][w]
  BY <1>0, SetupVm
<1>2. fs[e] = x /\ \A f \in Env \ {e} : fs[f] = es[f]
  OBVIOUS
<1> HIDE DEF n, fs
<1>3. \A f \in Env : fs[f].status # ENV_FREE =>
         f = e \/ (es[f].status # ENV_FREE /\ fs[f].asid = es[f].asid /\ es[f].asid # a)
  BY <1>2 DEF Coherent
<1>4. \A f \in Env : fs[f].status = ENV_FREE => f # e /\ es[f].status = ENV_FREE
  BY <1>2
<1>5. \A f \in Env : fs[f].status = ENV_FREE => \A v \in Va : n.pt[f][v] = NoPte
  BY <1>1, <1>4 DEF Coherent
<1>6. \A f \in Env : fs[f].status # ENV_FREE
                        => n.pt[f][PdVa] # NoPte /\ fs[f].asid \in bm \union {a}
  BY <1>1, <1>2, <1>3 DEF Coherent
<1>7. \A b \in bm \union {a} : \E f \in Env : fs[f].status # ENV_FREE /\ fs[f].asid = b
  <2> SUFFICES ASSUME NEW b \in bm \union {a}
               PROVE  \E f \in Env : fs[f].status # ENV_FREE /\ fs[f].asid = b
    OBVIOUS
  <2>1. CASE b = a
    BY <1>2, <2>1
  <2>2. CASE b \in bm
    <3>1. PICK f \in Env : es[f].status # ENV_FREE /\ es[f].asid = b
      BY <2>2 DEF Coherent
    <3>2. f # e
      BY <3>1
    <3> QED BY <1>2, <3>1, <3>2
  <2> QED BY <2>1, <2>2
<1>8. \A f, g \in Env : fs[f].status # ENV_FREE /\ fs[g].status # ENV_FREE
                          /\ fs[f].asid = fs[g].asid => f = g
  BY <1>2, <1>3 DEF Coherent
<1>12. \A b, v : Leftover(m, b, v) => Leftover(n, b, v)
  BY <1>1, LeftoverKept
<1>9. ASSUME NEW f \in Env, fs[f].status # ENV_FREE, NEW v \in Va
      PROVE  n.tlb[fs[f].asid][v] \in {NoPte, n.pt[f][v]} \/ Leftover(n, fs[f].asid, v)
  <2>1. CASE f = e
    <3>1. m.tlb[a][v] = NoPte \/ Leftover(m, a, v)
      BY DEF Coherent
    <3> QED BY <1>1, <1>2, <1>12, <2>1, <3>1
  <2>2. CASE f # e
    <3>1. es[f].status # ENV_FREE /\ fs[f] = es[f] /\ n.pt[f] = m.pt[f]
      BY <1>1, <1>2, <1>9, <2>2
    <3>2. m.tlb[es[f].asid][v] \in {NoPte, m.pt[f][v]} \/ Leftover(m, es[f].asid, v)
      BY <3>1 DEF Coherent
    <3> QED BY <1>1, <1>12, <3>1, <3>2
  <2> QED BY <2>1, <2>2
<1>10. ASSUME NEW b \in Asid \ (bm \union {a}), NEW v \in Va
       PROVE  n.tlb[b][v] = NoPte \/ Leftover(n, b, v)
  <2>1. m.tlb[b][v] = NoPte \/ Leftover(m, b, v)
    BY DEF Coherent
  <2> QED BY <1>1, <1>12, <2>1
<1>11. Coherent(n, fs, bm \union {a})
  BY <1>1, <1>5, <1>6, <1>7, <1>8, <1>9, <1>10 DEF Coherent
<1> QED BY <1>11 DEF n, fs

\* env_free: the address space is empty, and nothing of it is left in the TLB
\* under the ASID that is given back but pages that are lost.
LEMMA FreeCoherent ==
  ASSUME NEW m \in Mem, NEW es \in [Env -> EnvRec], NEW bm \in SUBSET Asid,
         Coherent(m, es, bm), NEW e \in Env, es[e].status # ENV_FREE
  PROVE  Coherent(env_free_vm(m, e, es[e].asid),
                  [es EXCEPT ![e].status = ENV_FREE], bm \ {es[e].asid})
<1> DEFINE a == es[e].asid
           n == env_free_vm(m, e, a)
           fs == [es EXCEPT ![e].status = ENV_FREE]
<1>0. a \in Asid /\ Core(m) /\ Shape(m) /\ a \in bm
  BY DEF Coherent, EnvRec
<1> HIDE DEF a
<1>1. /\ Core(n) /\ Shape(n)
      /\ \A f \in Env \ {e} : n.pt[f] = m.pt[f]
      /\ \A w \in Va : n.pt[e][w] = NoPte
      /\ \A b \in Asid \ {a} : n.tlb[b] = m.tlb[b]
      /\ \A w \in Va : n.tlb[a][w] = IF m.pt[e][w] # NoPte /\ w \notin HighVa
                                       THEN NoPte ELSE m.tlb[a][w]
      /\ n.leaked = m.leaked \union Missed(m, e)
  BY <1>0, FreeVm
<1>2. fs[e].status = ENV_FREE /\ \A f \in Env \ {e} : fs[f] = es[f]
  BY DEF EnvRec
<1> HIDE DEF n, fs
<1>3. ASSUME NEW f \in Env, fs[f].status # ENV_FREE
      PROVE  /\ f # e /\ fs[f] = es[f] /\ es[f].status # ENV_FREE
             /\ es[f].asid \in Asid \ {a} /\ es[f].asid \in bm
  <2>1. f # e /\ fs[f] = es[f] /\ es[f].status # ENV_FREE
    BY <1>2, <1>3
  <2>2. es[f].asid \in Asid /\ es[f].asid \in bm
    BY <2>1 DEF Coherent, EnvRec
  <2>3. es[f].asid # a
    BY <2>1 DEF Coherent, a
  <2> QED BY <2>1, <2>2, <2>3
<1>4. \A f \in Env : fs[f].status = ENV_FREE => \A v \in Va : n.pt[f][v] = NoPte
  BY <1>1, <1>2 DEF Coherent
<1>5. \A f \in Env : fs[f].status # ENV_FREE
                        => n.pt[f][PdVa] # NoPte /\ fs[f].asid \in bm \ {a}
  BY <1>1, <1>3 DEF Coherent
<1>6. \A b \in bm \ {a} : \E f \in Env : fs[f].status # ENV_FREE /\ fs[f].asid = b
  <2> SUFFICES ASSUME NEW b \in bm \ {a}
               PROVE  \E f \in Env : fs[f].status # ENV_FREE /\ fs[f].asid = b
    OBVIOUS
  <2>1. PICK f \in Env : es[f].status # ENV_FREE /\ es[f].asid = b
    BY DEF Coherent
  <2>2. f # e
    BY <2>1 DEF a
  <2> QED BY <1>2, <2>1, <2>2
<1>7. \A f, g \in Env : fs[f].status # ENV_FREE /\ fs[g].status # ENV_FREE
                          /\ fs[f].asid = fs[g].asid => f = g
  BY <1>3 DEF Coherent
<1>8. ASSUME NEW f \in Env, fs[f].status # ENV_FREE, NEW v \in Va
      PROVE  n.tlb[fs[f].asid][v] \in {NoPte, n.pt[f][v]} \/ Leftover(n, fs[f].asid, v)
  <2>1. /\ f # e /\ fs[f] = es[f] /\ es[f].status # ENV_FREE
        /\ es[f].asid \in Asid \ {a}
    BY <1>3, <1>8
  <2>2. m.tlb[es[f].asid][v] \in {NoPte, m.pt[f][v]} \/ Leftover(m, es[f].asid, v)
    BY <2>1 DEF Coherent
  <2> QED BY <1>1, <2>1, <2>2, LeftoverKept
<1>9. ASSUME NEW b \in Asid \ (bm \ {a}), NEW v \in Va
      PROVE  n.tlb[b][v] = NoPte \/ Leftover(n, b, v)
  <2>1. CASE b = a
    <3>1. m.tlb[a][v] \in {NoPte, m.pt[e][v]} \/ Leftover(m, a, v)
      BY DEF Coherent, a
    <3>2. CASE Leftover(m, a, v)
      <4>1. n.tlb[a][v] = m.tlb[a][v]
        BY <1>1, <3>2 DEF Leftover
      <4> QED BY <1>1, <2>1, <3>2, <4>1, LeftoverKept
    <3>3. CASE m.tlb[a][v] = m.pt[e][v] /\ m.pt[e][v] # NoPte /\ v \in HighVa
      <4>1. m.pt[e][v].pp \in Missed(m, e)
        <5>1. m.pt[e][v].pp \in Page
          BY <3>3 DEF Mem, Entry, Pte
        <5>2. <<e, v>> \in Refs(m, m.pt[e][v].pp)
          BY <3>3 DEF Refs
        <5> QED BY <3>3, <5>1, <5>2 DEF Missed
      <4> QED BY <1>1, <2>1, <3>3, <4>1 DEF Leftover
    <3>4. CASE m.tlb[a][v] \in {NoPte, m.pt[e][v]} /\ (m.pt[e][v] = NoPte \/ v \notin HighVa)
      BY <1>1, <2>1, <3>4
    <3> QED BY <1>1, <2>1, <3>1, <3>2, <3>3, <3>4
  <2>2. CASE b # a
    <3>1. m.tlb[b][v] = NoPte \/ Leftover(m, b, v)
      BY <2>2 DEF Coherent
    <3> QED BY <1>1, <2>2, <3>1, LeftoverKept
  <2> QED BY <2>1, <2>2
<1>10. Coherent(n, fs, bm \ {a})
  BY <1>1, <1>4, <1>5, <1>6, <1>7, <1>8, <1>9 DEF Coherent
<1> QED BY <1>10 DEF n, fs, a

\* A TLB refill brings in the entry of the page table.
LEMMA RefillCoherent ==
  ASSUME NEW m \in Mem, NEW es \in [Env -> EnvRec], NEW bm \in SUBSET Asid,
         Coherent(m, es, bm), NEW e \in Env, es[e].status # ENV_FREE, NEW v \in Va,
         NEW victim \in Asid \X Va
  PROVE  Coherent(tlbwr(m, es[e].asid, v, page_lookup(m, e, v), victim), es, bm)
<1> DEFINE a == es[e].asid
           x == page_lookup(m, e, v)
           n == tlbwr(m, a, v, x, victim)
<1>0. a \in Asid /\ a \in bm /\ x \in Entry /\ x = m.pt[e][v]
  BY DEF Coherent, EnvRec, page_lookup, Mem
<1> HIDE DEF a, x
<1>1. /\ n \in Mem /\ n.ref = m.ref /\ n.free = m.free /\ n.pt = m.pt
      /\ n.assert_failed = m.assert_failed /\ n.leaked = m.leaked
      /\ n.tlb[a][v] = x
      /\ \A b \in Asid, w \in Va : b # a \/ w # v
            => n.tlb[b][w] \in {NoPte, m.tlb[b][w]}
  BY <1>0, TlbwrType, SMTT(30)
<1> HIDE DEF n
<1>2. Core(n) /\ Shape(n)
  BY <1>1, CoreTlb DEF Coherent
<1>3. ASSUME NEW f \in Env, es[f].status # ENV_FREE, NEW w \in Va
      PROVE  n.tlb[es[f].asid][w] \in {NoPte, n.pt[f][w]} \/ Leftover(n, es[f].asid, w)
  <2>1. /\ m.tlb[es[f].asid][w] \in {NoPte, m.pt[f][w]} \/ Leftover(m, es[f].asid, w)
        /\ es[f].asid \in Asid
    BY <1>3 DEF Coherent, EnvRec
  <2>2. CASE f = e /\ w = v
    BY <1>0, <1>1, <2>2 DEF a
  <2>3. CASE ~(f = e /\ w = v)
    <3>1. es[f].asid # a \/ w # v
      BY <1>3, <2>3 DEF Coherent, a
    <3>2. n.tlb[es[f].asid][w] \in {NoPte, m.tlb[es[f].asid][w]}
      BY <1>1, <2>1, <3>1
    <3> QED BY <1>1, <2>1, <3>2, LeftoverKept
  <2> QED BY <2>2, <2>3
<1>4. ASSUME NEW b \in Asid \ bm, NEW w \in Va
      PROVE  n.tlb[b][w] = NoPte \/ Leftover(n, b, w)
  <2>1. b # a /\ (m.tlb[b][w] = NoPte \/ Leftover(m, b, w))
    BY <1>0 DEF Coherent
  <2>2. n.tlb[b][w] \in {NoPte, m.tlb[b][w]}
    BY <1>1, <2>1
  <2> QED BY <1>1, <2>1, <2>2, LeftoverKept
<1>5. Coherent(n, es, bm)
  BY <1>1, <1>2, <1>3, <1>4 DEF Coherent
<1> QED BY <1>5 DEF n, a, x

-----------------------------------------------------------------------------
(***************************************************************************)
(* Every handler preserves the invariant.                                  *)
(***************************************************************************)

\* schedule() ends in env_run, which asserts that the environment is runnable.
LEMMA SwitchLive ==
  ASSUME TypeOK, NEW yield \in BOOLEAN, NEW e \in Env \union {NULL},
         NEW es \in [Env -> EnvRec], NEW q \in Tailq, NEW m \in Mem,
         Switch(yield, e, es, q, m)
  PROVE  /\ envs' = es /\ mem' = m /\ kern' \notin {"boot", "cgetc"}
         /\ UserRuns' => curenv' \in Env /\ es[curenv'].status = ENV_RUNNABLE
<1> DEFINE s == schedule(yield, e, es, q)
<1>0. envs' = es /\ mem' = m
  BY DEF Switch
<1>1. s.kern = "up" => es[s.cur].status = ENV_RUNNABLE
  BY DEF schedule, env_run
<1>2. /\ s.cur \in Env \union {NULL}
      /\ s.kern \notin {"boot", "cgetc"} /\ Outcome(q, m) \notin {"boot", "cgetc"}
  BY ScheduleType DEF Panics, Outcome
<1> HIDE DEF s
<1>3. \/ kern' = Outcome(q, m) /\ Outcome(q, m) # "up"
      \/ curenv' = s.cur /\ kern' = s.kern
  BY DEF Switch, s
<1>4. UserRuns' => kern' = "up" /\ curenv' # NULL
  BY DEF UserRuns
<1> QED BY <1>0, <1>1, <1>2, <1>3, <1>4

\* envid2env only yields living environments.
LEMMA NamedLive ==
  ASSUME MemInv, UserRuns, NEW checkperm \in BOOLEAN, NEW e \in Named(checkperm)
  PROVE  e = NULL \/ (e \in Env /\ e \in Live /\ envs[e].status # ENV_FREE)
<1>1. e \in Env \union {NULL} /\ curenv \in Live
  BY NamedType DEF MemInv, MemRest
<1>2. PICK id \in EnvId : e = envid2env(id, checkperm)
  BY DEF Named
<1>3. e = curenv \/ e = NULL \/ envs[e].status # ENV_FREE
  BY <1>2 DEF envid2env
<1> QED BY <1>1, <1>3 DEF Live

\* A page mapped at a user address is not free and holds no table.
LEMMA MappedPage ==
  ASSUME NEW m, Core(m), Shape(m), NEW e \in Env, NEW v \in UserVa, m.pt[e][v] # NoPte
  PROVE  m.pt[e][v].pp \in Page /\ m.pt[e][v].pp \notin m.free /\ NotTable(m, m.pt[e][v].pp)
<1> DEFINE p == m.pt[e][v].pp
<1>0. v \in Va /\ m.pt \in [Env -> [Va -> Entry]] /\ v \notin TableVa
  BY LayoutAssumption DEF Va, Core, Mem, TableVa
<1>1. p \in Page
  BY <1>0 DEF Entry, Pte
<1>2. <<e, v>> \in Refs(m, p)
  BY <1>0 DEF Refs
<1>3. p \notin m.free
  BY <1>2 DEF Core, FreeUnmapped
<1>5. p \notin m.leaked
  BY <1>2 DEF Core, FreeUnmapped
<1>4. ASSUME NEW f \in Env, NEW w \in TableVa, m.pt[f][w] # NoPte, m.pt[f][w].pp = p
      PROVE  FALSE
  <2>1. Refs(m, p) = {<<f, w>>}
    BY <1>4 DEF Shape, TablesPrivate, TableVa
  <2>2. v = w
    BY <1>2, <2>1
  <2> QED BY <1>0, <2>2
<1> QED BY <1>1, <1>3, <1>4, <1>5 DEF NotTable

\* How the handlers that keep the set of living environments end.
LEMMA ReturnRest ==
  ASSUME MemInv, UserRuns, NEW es, NEW q, NEW m, Return(es, q, m), Quiet,
         \A e \in Env : es[e].status = ENV_FREE <=> envs[e].status = ENV_FREE,
         Coherent(m, es, asid_bitmap)
  PROVE  MemRest'
<1>1. envs' = es /\ mem' = m /\ curenv' = curenv /\ asid_bitmap' = asid_bitmap
      /\ env_free_list' = env_free_list /\ kern' \notin {"boot", "cgetc"}
  BY DEF Return, Quiet, Outcome
<1>2. Live' = Live
  BY <1>1 DEF Live
<1>3. curenv \in Live /\ env_free_list = Env \ Live
  BY DEF MemInv, MemRest
<1> QED BY <1>1, <1>2, <1>3 DEF MemRest

LEMMA SwitchRest ==
  ASSUME MemInv, NEW yield \in BOOLEAN, NEW e \in Env \union {NULL},
         NEW es \in [Env -> EnvRec], NEW q \in Tailq,
         Switch(yield, e, es, q, mem), Quiet,
         \A f \in Env : es[f].status = ENV_FREE <=> envs[f].status = ENV_FREE,
         Coherent(mem, es, asid_bitmap)
  PROVE  MemRest'
<1>0. TypeOK /\ mem \in Mem
  BY DEF MemInv, TypeOK
<1>1. /\ envs' = es /\ mem' = mem /\ kern' \notin {"boot", "cgetc"}
      /\ UserRuns' => curenv' \in Env /\ es[curenv'].status = ENV_RUNNABLE
  BY <1>0, SwitchLive
<1>2. asid_bitmap' = asid_bitmap /\ env_free_list' = env_free_list
  BY DEF Quiet
<1>3. Live' = Live /\ env_free_list = Env \ Live
  BY <1>1 DEF Live, MemInv, MemRest
<1>4. UserRuns' => curenv' \in Live'
  BY <1>1 DEF Live, ENV_FREE, ENV_RUNNABLE
<1> QED BY <1>1, <1>2, <1>3, <1>4 DEF MemRest

LEMMA RestError == ASSUME MemInv, Error PROVE MemRest'
BY DEF MemInv, MemRest, Error, vars, Live, UserRuns

LEMMA RestPanic == ASSUME MemInv, NEW reason \in Panics, Panic(reason) PROVE MemRest'
BY DEF MemInv, MemRest, Panic, Panics, Live, UserRuns

\* A handler that changes memory by one page operation.
LEMMA RestInsert ==
  ASSUME MemInv, UserRuns, NEW e \in Env, envs[e].status # ENV_FREE, NEW n,
         Inserted(mem, n, e, envs[e].asid), Return(envs, env_sched_list, n), Quiet
  PROVE  MemRest'
<1>1. mem \in Mem /\ envs \in [Env -> EnvRec] /\ asid_bitmap \in SUBSET Asid
      /\ Coherent(mem, envs, asid_bitmap)
  BY DEF MemInv, MemRest, TypeOK
<1>2. Coherent(n, envs, asid_bitmap)
  BY <1>1, InsertCoherent
<1> QED BY <1>2, ReturnRest

LEMMA RestMemAlloc ==
  ASSUME RefBound, MemInv, NEW e \in Named(TRUE), NEW va \in UserVa, NEW perm \in Perm,
         sys_mem_alloc(e, va, perm)
  PROVE  MemRest'
<1>1. CASE Error
  BY <1>1, RestError
<1>2. CASE ~Error
  <2> DEFINE n == alloc_insert(mem, e, envs[e].asid, va, perm).mem
  <2>1. UserRuns /\ e # NULL /\ Return(envs, env_sched_list, n) /\ Quiet
    BY <1>2 DEF sys_mem_alloc
  <2>2. e \in Env /\ envs[e].status # ENV_FREE
    BY <2>1, NamedLive
  <2>3. /\ Core(mem) /\ Shape(mem) /\ mem.pt[e][PdVa] # NoPte
        /\ envs[e].asid \in Asid
    BY <2>2 DEF MemInv, MemRest, Coherent, TypeOK, EnvRec
  <2>4. va \in Va \ {PdVa} /\ va \notin PtVa
    BY LayoutAssumption DEF Va
  <2>5. Inserted(mem, n, e, envs[e].asid)
    BY <2>2, <2>3, <2>4, AllocInsert
  <2> HIDE DEF n
  <2> QED BY <2>1, <2>2, <2>5, RestInsert
<1> QED BY <1>1, <1>2

LEMMA RestMemMap ==
  ASSUME RefBound, MemInv, NEW src \in Named(TRUE), NEW dst \in Named(TRUE),
         NEW srcva \in UserVa, NEW dstva \in UserVa, NEW perm \in Perm,
         sys_mem_map(src, srcva, dst, dstva, perm)
  PROVE  MemRest'
<1>1. CASE Error
  BY <1>1, RestError
<1>2. CASE ~Error
  <2> DEFINE pp == page_lookup(mem, src, srcva).pp
             n == page_insert(mem, dst, envs[dst].asid, pp, dstva, perm).mem
  <2>1. /\ UserRuns /\ src # NULL /\ dst # NULL
        /\ page_lookup(mem, src, srcva) # NoPte
        /\ Return(envs, env_sched_list, n) /\ Quiet
    BY <1>2 DEF sys_mem_map
  <2>2. src \in Env /\ dst \in Env /\ envs[dst].status # ENV_FREE
    BY <2>1, NamedLive
  <2>3. /\ Core(mem) /\ Shape(mem) /\ mem.pt[dst][PdVa] # NoPte
        /\ envs[dst].asid \in Asid
    BY <2>2 DEF MemInv, MemRest, Coherent, TypeOK, EnvRec
  <2>4. dstva \in Va \ {PdVa} /\ dstva \notin PtVa
    BY LayoutAssumption DEF Va
  <2>5. pp \in Page /\ pp \notin mem.free /\ NotTable(mem, pp)
    BY <2>1, <2>2, <2>3, MappedPage DEF page_lookup
  <2> HIDE DEF pp
  <2>6. Inserted(mem, n, dst, envs[dst].asid)
    BY <2>2, <2>3, <2>4, <2>5, PageInsert
  <2> HIDE DEF n
  <2> QED BY <2>1, <2>2, <2>6, RestInsert
<1> QED BY <1>1, <1>2

LEMMA RestMemUnmap ==
  ASSUME MemInv, NEW e \in Named(TRUE), NEW va \in UserVa, sys_mem_unmap(e, va)
  PROVE  MemRest'
<1>1. CASE Error
  BY <1>1, RestError
<1>2. CASE ~Error
  <2> DEFINE n == page_remove(mem, e, envs[e].asid, va)
  <2>1. UserRuns /\ e # NULL /\ Return(envs, env_sched_list, n) /\ Quiet
    BY <1>2 DEF sys_mem_unmap
  <2>2. e \in Env /\ envs[e].status # ENV_FREE
    BY <2>1, NamedLive
  <2>3. Core(mem) /\ Shape(mem) /\ envs[e].asid \in Asid
    BY <2>2 DEF MemInv, MemRest, Coherent, TypeOK, EnvRec
  <2>4. CASE mem.pt[e][va] = NoPte
    <3>1. n = mem
      BY <2>4 DEF page_remove, page_lookup
    <3>2. Frame(mem, mem, e, envs[e].asid)
      BY DEF Frame
    <3>3. Inserted(mem, n, e, envs[e].asid)
      BY <2>3, <3>1, <3>2 DEF Inserted
    <3> HIDE DEF n
    <3> QED BY <2>1, <2>2, <3>3, RestInsert
  <2>5. CASE mem.pt[e][va] # NoPte
    <3>1. Removed(mem, n, e, envs[e].asid, va)
      BY <2>2, <2>3, <2>5, PageRemove
    <3> HIDE DEF n
    <3>2. Inserted(mem, n, e, envs[e].asid)
      BY <3>1 DEF Removed, Inserted
    <3> QED BY <2>1, <2>2, <3>2, RestInsert
  <2> QED BY <2>4, <2>5
<1> QED BY <1>1, <1>2

LEMMA RestRefill ==
  ASSUME RefBound, MemInv, NEW va \in Va, do_tlb_refill(va)
  PROVE  MemRest'
<1> DEFINE filled == alloc_insert(mem, curenv, Me.asid, va, PTE_D)
           refill(m) == \E victim \in Victims(va) :
             mem' = tlbwr(m, Me.asid, va, page_lookup(m, curenv, va), victim)
<1>1. /\ UserRuns /\ curenv \in Env /\ envs[curenv].status # ENV_FREE
      /\ Me.asid = envs[curenv].asid /\ Me.asid \in Asid /\ TypeOK
  BY MeType DEF do_tlb_refill, MemInv, MemRest, Live, Me
<1>2. /\ mem \in Mem /\ envs \in [Env -> EnvRec] /\ asid_bitmap \in SUBSET Asid
      /\ Coherent(mem, envs, asid_bitmap)
  BY DEF MemInv, MemRest, TypeOK
<1>3. ASSUME mem.pt[curenv][va] = NoPte
      PROVE  Coherent(filled.mem, envs, asid_bitmap)
  <2>1. Core(mem) /\ Shape(mem) /\ mem.pt[curenv][PdVa] # NoPte
    BY <1>1, <1>2 DEF Coherent
  <2>2. va \in Va \ {PdVa} /\ PTE_D \in Perm
    BY <1>3, <2>1, PageAssumption
  <2>3. Inserted(mem, filled.mem, curenv, Me.asid)
    BY <1>1, <1>3, <2>1, <2>2, AllocInsert
  <2> HIDE DEF filled
  <2> QED BY <1>1, <1>2, <2>3, InsertCoherent
<1>4. ASSUME NEW m \in Mem, Coherent(m, envs, asid_bitmap), refill(m)
      PROVE  Coherent(mem', envs, asid_bitmap)
  <2>1. PICK victim \in Victims(va) :
             mem' = tlbwr(m, Me.asid, va, page_lookup(m, curenv, va), victim)
    BY <1>4
  <2>2. victim \in Asid \X Va
    BY <1>1, VictimType
  <2>3. Coherent(tlbwr(m, envs[curenv].asid, va, page_lookup(m, curenv, va), victim),
                 envs, asid_bitmap)
    BY <1>1, <1>2, <1>4, <2>2, RefillCoherent
  <2> QED BY <1>1, <2>1, <2>3
<1>5. /\ \/ refill(mem)
         \/ mem' = mem
         \/ mem.pt[curenv][va] = NoPte /\ refill(filled.mem)
         \/ mem.pt[curenv][va] = NoPte /\ mem' = filled.mem
      /\ UNCHANGED <<envs, env_free_list, asid_bitmap, curenv>>
      /\ kern' \notin {"boot", "cgetc"}
  BY <1>1 DEF do_tlb_refill, page_lookup, UserRuns
<1> HIDE DEF filled, refill
<1>6. Coherent(mem', envs, asid_bitmap)
  <2>1. mem.pt[curenv][va] = NoPte => filled.mem \in Mem
    BY <1>3 DEF Coherent, Core
  <2> QED BY <1>2, <1>3, <1>4, <1>5, <2>1
<1>7. Live' = Live /\ env_free_list = Env \ Live /\ curenv \in Live
  BY <1>1, <1>5 DEF Live, MemInv, MemRest
<1> QED BY <1>5, <1>6, <1>7 DEF MemRest

\* A slot that leaves the free list.
LEMMA AllocLive ==
  ASSUME TypeOK, env_free_list = Env \ Live, NEW e \in Env, NEW x,
         x.status # ENV_FREE, envs' = [envs EXCEPT ![e] = x],
         env_free_list' = env_free_list \ {e}
  PROVE  /\ env_free_list' = Env \ Live' /\ Live \subseteq Live'
         /\ e \in env_free_list => envs[e].status = ENV_FREE
<1>1. envs'[e] = x /\ \A f \in Env \ {e} : envs'[f] = envs[f]
  BY DEF TypeOK
<1>2. Live' = Live \union {e}
  BY <1>1 DEF Live
<1> QED BY <1>2 DEF Live

LEMMA RestEnvCreate == ASSUME RefBound, MemInv, EnvCreate PROVE MemRest'
<1> PICK e \in env_free_list, a \in asid_alloc, pri \in Pri,
         va \in IF ImageVa = {} THEN {NullVa} ELSE ImageVa : env_create(e, a, va, pri)
  BY DEF EnvCreate
<1> DEFINE m1 == env_setup_vm(mem, e)
           x == [env_alloc(e, a, NoId) EXCEPT !.pri = pri, !.status = ENV_RUNNABLE]
           fs == [envs EXCEPT ![e] = x]
           bm == asid_bitmap \union {a}
           load == alloc_insert(m1, e, a, va, PTE_D)
<1>1. /\ TypeOK /\ mem \in Mem /\ envs \in [Env -> EnvRec] /\ asid_bitmap \in SUBSET Asid
      /\ Coherent(mem, envs, asid_bitmap) /\ env_free_list = Env \ Live
  BY DEF MemInv, MemRest, TypeOK
<1>2. /\ e \in Env /\ a \in Asid \ asid_bitmap /\ bm \in SUBSET Asid
      /\ PTE_D \in Perm /\ NoId \in EnvId /\ envs[e].status = ENV_FREE
  BY <1>1, PageAssumption DEF asid_alloc, EnvId, Live
<1>3. /\ mem.free # {} /\ next_id < MaxId /\ kern = "boot" /\ kern' \notin {"up", "cgetc"}
      /\ mem' = m1 \/ (va # NullVa /\ mem' = load.mem)
      /\ envs' = fs /\ asid_bitmap' = bm /\ curenv' = curenv
      /\ env_free_list' = env_free_list \ {e}
  BY DEF env_create
<1>4. x.asid = a /\ x.status # ENV_FREE /\ x \in EnvRec
  <2>1. env_alloc(e, a, NoId) \in EnvRec
    BY <1>1, <1>2, <1>3, EnvAllocType
  <2>2. env_alloc(e, a, NoId).asid = a
    BY <1>1, <1>2 DEF env_alloc, EnvRec
  <2> QED BY <2>1, <2>2 DEF EnvRec, ENV_FREE, ENV_RUNNABLE
<1> HIDE DEF x
<1>5. Coherent(m1, fs, bm)
  BY <1>1, <1>2, <1>3, <1>4, AllocCoherent
<1>6. fs \in [Env -> EnvRec] /\ fs[e].asid = a /\ fs[e].status # ENV_FREE
  BY <1>1, <1>2, <1>4
<1> HIDE DEF fs, m1, bm
<1>7. ASSUME va # NullVa PROVE Coherent(load.mem, fs, bm)
  <2>1. Core(m1) /\ Shape(m1) /\ m1.pt[e][PdVa] # NoPte /\ m1 \in Mem
    BY <1>2, <1>5, <1>6 DEF Coherent, Core
  <2>2. va \in Va \ {PdVa} /\ va \notin PtVa
    BY <1>7, KernelAssumption, LayoutAssumption DEF Va
  <2>3. Inserted(m1, load.mem, e, a)
    BY <1>2, <2>1, <2>2, AllocInsert
  <2> HIDE DEF load
  <2> QED BY <1>2, <1>5, <1>6, <2>1, <2>3, InsertCoherent
<1>8. Coherent(mem', envs', asid_bitmap')
  BY <1>3, <1>5, <1>7
<1>9. env_free_list' = Env \ Live'
  BY <1>1, <1>2, <1>3, <1>4, AllocLive DEF fs
<1>10. ~UserRuns'
  BY <1>3 DEF UserRuns
<1>11. curenv' = NULL
  BY <1>3 DEF MemInv, MemRest
<1> QED BY <1>3, <1>8, <1>9, <1>10, <1>11 DEF MemRest

LEMMA RestExofork == ASSUME RefBound, MemInv, sys_exofork PROVE MemRest'
<1>1. CASE Error
  BY <1>1, RestError
<1>2. CASE Panic("no_asid")
  BY <1>2, RestPanic DEF Panics
<1>3. ASSUME NEW e \in env_free_list, NEW a \in asid_alloc,
             LET child == [env_alloc(e, a, Me.id)
                             EXCEPT !.status = ENV_NOT_RUNNABLE, !.pri = Me.pri]
             IN  /\ mem.free # {}
                 /\ Return([envs EXCEPT ![e] = child], env_sched_list,
                           env_setup_vm(mem, e))
                 /\ env_free_list' = env_free_list \ {e}
                 /\ asid_bitmap' = asid_bitmap \union {a}
                 /\ next_id' = next_id + 1
      PROVE  MemRest'
  <2> DEFINE x == [env_alloc(e, a, Me.id)
                     EXCEPT !.status = ENV_NOT_RUNNABLE, !.pri = Me.pri]
  <2>1. /\ TypeOK /\ mem \in Mem /\ envs \in [Env -> EnvRec]
        /\ asid_bitmap \in SUBSET Asid
        /\ Coherent(mem, envs, asid_bitmap) /\ env_free_list = Env \ Live
        /\ curenv \in Live /\ UserRuns
    BY DEF MemInv, MemRest, TypeOK, sys_exofork
  <2>2. e \in Env /\ a \in Asid \ asid_bitmap /\ envs[e].status = ENV_FREE
    BY <2>1 DEF asid_alloc, Live
  <2>3. /\ mem.free # {} /\ curenv' = curenv /\ kern' \notin {"boot", "cgetc"}
        /\ mem' = env_setup_vm(mem, e) /\ envs' = [envs EXCEPT ![e] = x]
        /\ asid_bitmap' = asid_bitmap \union {a}
        /\ env_free_list' = env_free_list \ {e}
    BY <1>3 DEF Return, Outcome
  <2>4. x.asid = a /\ x.status # ENV_FREE
    <3>1. Me.id \in EnvId /\ Me.pri \in Pri \union {0} /\ next_id < MaxId
      BY <2>1, MeType DEF sys_exofork
    <3>2. env_alloc(e, a, Me.id) \in EnvRec
      BY <2>1, <2>2, <3>1, EnvAllocType
    <3>3. env_alloc(e, a, Me.id).asid = a
      BY <2>1, <2>2 DEF env_alloc, EnvRec
    <3> QED BY <3>2, <3>3 DEF EnvRec, ENV_FREE, ENV_NOT_RUNNABLE
  <2> HIDE DEF x
  <2>5. Coherent(mem', envs', asid_bitmap')
    <3>1. Coherent(env_setup_vm(mem, e), [envs EXCEPT ![e] = x], asid_bitmap \union {a})
      BY <2>1, <2>2, <2>3, <2>4, AllocCoherent
    <3> QED BY <2>3, <3>1
  <2>6. env_free_list' = Env \ Live' /\ Live \subseteq Live'
    BY <2>1, <2>2, <2>3, <2>4, AllocLive
  <2> QED BY <2>1, <2>3, <2>5, <2>6 DEF MemRest
<1> QED BY <1>1, <1>2, <1>3 DEF sys_exofork

LEMMA RestDestroy ==
  ASSUME MemInv, NEW e \in Named(TRUE), sys_env_destroy(e)
  PROVE  MemRest'
<1>1. CASE Error
  BY <1>1, RestError
<1>2. CASE ~Error
  <2> DEFINE es == [envs EXCEPT ![e].status = ENV_FREE]
             q == TAILQ_REMOVE(env_sched_list, e)
             m == env_free_vm(mem, e, envs[e].asid)
  <2>1. /\ UserRuns /\ e # NULL
        /\ asid_bitmap' = asid_bitmap \ {envs[e].asid}
        /\ env_free_list' = env_free_list \union {e}
        /\ IF e = curenv THEN Switch(TRUE, NULL, es, q, m) ELSE Return(es, q, m)
    BY <1>2 DEF sys_env_destroy
  <2>2. e \in Env /\ envs[e].status # ENV_FREE
    BY <2>1, NamedLive
  <2>3. /\ TypeOK /\ mem \in Mem /\ envs \in [Env -> EnvRec]
        /\ asid_bitmap \in SUBSET Asid /\ env_sched_list \in Tailq
        /\ Coherent(mem, envs, asid_bitmap) /\ env_free_list = Env \ Live
        /\ curenv \in Live
    BY <2>1 DEF MemInv, MemRest, TypeOK
  <2>4. Coherent(m, es, asid_bitmap')
    BY <2>1, <2>2, <2>3, FreeCoherent
  <2>5. /\ es[e].status = ENV_FREE /\ \A f \in Env \ {e} : es[f] = envs[f]
        /\ es \in [Env -> EnvRec]
    BY <2>2, <2>3 DEF EnvRec
  <2>6. q \in Tailq /\ m \in Mem
    BY <2>2, <2>3, <2>4, TailqType DEF Coherent, Core
  <2> HIDE DEF es, q, m
  <2>7. /\ envs' = es /\ mem' = m /\ kern' \notin {"boot", "cgetc"}
        /\ UserRuns' => curenv' \in Env /\ es[curenv'].status # ENV_FREE
    <3>1. CASE e = curenv
      <4>1. Switch(TRUE, NULL, es, q, m)
        BY <2>1, <3>1
      <4> QED BY <2>3, <2>5, <2>6, <4>1, SwitchLive DEF ENV_RUNNABLE, ENV_FREE
    <3>2. CASE e # curenv
      BY <2>1, <2>3, <2>5, <3>2 DEF Return, Outcome, Live
    <3> QED BY <3>1, <3>2
  <2>8. Live' = Live \ {e}
    BY <2>5, <2>7 DEF Live
  <2>9. env_free_list' = Env \ Live'
    BY <2>1, <2>2, <2>3, <2>8
  <2>10. UserRuns' => curenv' \in Live'
    BY <2>7 DEF Live
  <2> QED BY <2>4, <2>7, <2>9, <2>10 DEF MemRest
<1> QED BY <1>1, <1>2

LEMMA RestSetStatus ==
  ASSUME MemInv, NEW e \in Named(TRUE), NEW status, sys_set_env_status(e, status)
  PROVE  MemRest'
<1>1. CASE Error
  BY <1>1, RestError
<1>2. CASE ~Error
  <2> DEFINE es == [envs EXCEPT ![e].status = status]
             q == IF status = ENV_RUNNABLE THEN TAILQ_INSERT_TAIL(env_sched_list, e)
                                           ELSE TAILQ_REMOVE(env_sched_list, e)
  <2>1. /\ UserRuns /\ e # NULL /\ status \in {ENV_RUNNABLE, ENV_NOT_RUNNABLE}
        /\ Return(es, q, mem) /\ Quiet
    BY <1>2 DEF sys_set_env_status, Quiet
  <2>2. e \in Env /\ envs[e].status # ENV_FREE
    BY <2>1, NamedLive
  <2>3. \A f \in Env : es[f].asid = envs[f].asid
                       /\ (es[f].status = ENV_FREE <=> envs[f].status = ENV_FREE)
    BY <2>1, <2>2 DEF MemInv, TypeOK, EnvRec, ENV_FREE, ENV_RUNNABLE, ENV_NOT_RUNNABLE
  <2> HIDE DEF es, q
  <2>4. Coherent(mem, es, asid_bitmap)
    BY <2>3, StatusCoherent DEF MemInv, MemRest
  <2> QED BY <2>1, <2>3, <2>4, ReturnRest
<1> QED BY <1>1, <1>2

LEMMA RestYield == ASSUME MemInv, sys_yield \/ handle_int PROVE MemRest'
<1>1. \/ Switch(TRUE, curenv, envs, env_sched_list, mem)
      \/ Switch(FALSE, curenv, envs, env_sched_list, mem)
  BY DEF sys_yield, handle_int
<1>2. Quiet
  BY DEF sys_yield, handle_int, Quiet
<1>3. /\ curenv \in Env \union {NULL} /\ envs \in [Env -> EnvRec]
      /\ env_sched_list \in Tailq /\ Coherent(mem, envs, asid_bitmap)
  BY DEF MemInv, MemRest, TypeOK
<1> QED BY <1>1, <1>2, <1>3, SwitchRest

LEMMA RestRecv ==
  ASSUME MemInv, NEW va \in IpcVa, sys_ipc_recv(va)
  PROVE  MemRest'
<1>1. CASE Error
  BY <1>1, RestError
<1>2. CASE ~Error
  <2> DEFINE es == [envs EXCEPT ![curenv].ipc_recving = TRUE,
                                ![curenv].ipc_dstva = va,
                                ![curenv].status = ENV_NOT_RUNNABLE]
             q == TAILQ_REMOVE(env_sched_list, curenv)
  <2>1. /\ UserRuns
        /\ va = NullVa \/ ~is_illegal_va(va)
        /\ Switch(TRUE, curenv, es, q, mem) /\ Quiet
    BY <1>2 DEF sys_ipc_recv
  <2>2. curenv \in Env /\ va \in UserVa /\ envs[curenv].status # ENV_FREE
    BY <2>1, NullVaType DEF is_illegal_va, MemInv, MemRest, Live
  <2>3. es \in [Env -> EnvRec]
    BY <2>2, WaitingType DEF MemInv
  <2>4. \A f \in Env : es[f].asid = envs[f].asid
                       /\ (es[f].status = ENV_FREE <=> envs[f].status = ENV_FREE)
    BY <2>2 DEF MemInv, TypeOK, EnvRec, ENV_FREE, ENV_RUNNABLE, ENV_NOT_RUNNABLE
  <2>5. q \in Tailq
    BY <2>2, TailqType DEF MemInv, TypeOK
  <2> HIDE DEF es, q
  <2>6. Coherent(mem, es, asid_bitmap)
    BY <2>4, StatusCoherent DEF MemInv, MemRest
  <2> QED BY <2>1, <2>2, <2>3, <2>4, <2>5, <2>6, SwitchRest
<1> QED BY <1>1, <1>2

LEMMA RestSend ==
  ASSUME RefBound, MemInv, NEW e \in Named(FALSE), NEW va \in IpcVa, NEW perm \in Perm,
         sys_ipc_try_send(e, va, perm)
  PROVE  MemRest'
<1>1. CASE Error
  BY <1>1, RestError
<1>2. CASE ~Error
  <2> DEFINE es == [envs EXCEPT ![e].ipc_recving = FALSE,
                                ![e].status = ENV_RUNNABLE]
             q == TAILQ_INSERT_TAIL(env_sched_list, e)
             pte == page_lookup(mem, curenv, va)
             m == page_insert(mem, e, envs[e].asid, pte.pp, envs[e].ipc_dstva, perm).mem
  <2>1. /\ UserRuns /\ e # NULL
        /\ va = NullVa \/ ~is_illegal_va(va)
        /\ Return(es, q, mem) \/ (pte # NoPte /\ Return(es, q, m))
        /\ Quiet
    BY <1>2 DEF sys_ipc_try_send
  <2>2. /\ e \in Env /\ envs[e].status # ENV_FREE /\ curenv \in Env
        /\ va \in UserVa
    BY <2>1, NamedLive, NullVaType DEF is_illegal_va, MemInv, MemRest, Live
  <2>3. /\ mem \in Mem /\ envs \in [Env -> EnvRec] /\ asid_bitmap \in SUBSET Asid
        /\ Coherent(mem, envs, asid_bitmap)
        /\ Core(mem) /\ Shape(mem) /\ mem.pt[e][PdVa] # NoPte
        /\ envs[e].asid \in Asid /\ envs[e].ipc_dstva \in UserVa
    BY <2>2 DEF MemInv, MemRest, Coherent, TypeOK, EnvRec
  <2>4. \A f \in Env : es[f].asid = envs[f].asid
                       /\ (es[f].status = ENV_FREE <=> envs[f].status = ENV_FREE)
    BY <2>2 DEF MemInv, TypeOK, EnvRec, ENV_FREE, ENV_RUNNABLE, ENV_NOT_RUNNABLE
  <2>5. ASSUME pte # NoPte PROVE Coherent(m, envs, asid_bitmap)
    <3>1. pte.pp \in Page /\ pte.pp \notin mem.free /\ NotTable(mem, pte.pp)
      BY <2>2, <2>3, <2>5, MappedPage DEF page_lookup
    <3>2. envs[e].ipc_dstva \in Va \ {PdVa} /\ envs[e].ipc_dstva \notin PtVa
      BY <2>3, LayoutAssumption DEF Va
    <3> HIDE DEF pte
    <3>3. Inserted(mem, m, e, envs[e].asid)
      BY <2>2, <2>3, <3>1, <3>2, PageInsert
    <3> HIDE DEF m
    <3> QED BY <2>2, <2>3, <3>3, InsertCoherent
  <2> HIDE DEF es, q, m, pte
  <2>6. Coherent(mem, es, asid_bitmap)
    BY <2>3, <2>4, StatusCoherent
  <2>7. pte # NoPte => Coherent(m, es, asid_bitmap)
    BY <2>4, <2>5, StatusCoherent
  <2> QED BY <2>1, <2>4, <2>6, <2>7, ReturnRest
<1> QED BY <1>1, <1>2

LEMMA MemInit == Init => MemInv
<1> SUFFICES ASSUME Init PROVE MemInv
  OBVIOUS
<1>1. TypeOK
  BY TypeInit
<1>2. mem = page_init /\ mem \in Mem
  BY <1>1 DEF Init, TypeOK
<1>3. /\ \A e \in Env, v \in Va : mem.pt[e][v] = NoPte
      /\ \A a \in Asid, v \in Va : mem.tlb[a][v] = NoPte
      /\ \A p \in Page : mem.ref[p] = 0
      /\ ~mem.assert_failed /\ mem.leaked = {}
  BY <1>2 DEF page_init
<1>4. \A p : Refs(mem, p) = {} /\ Lost(mem, p) = 0
  BY <1>3 DEF Refs, Lost
<1>5. Core(mem)
  BY <1>2, <1>3, <1>4, FS_EmptySet DEF Core, RefsExact, FreeUnmapped
<1>6. TableVa \subseteq Va
  BY DEF TableVa, Va
<1>7. Shape(mem)
  BY <1>3, <1>6 DEF Shape, TablesPrivate, TablesPresent, TableVa
<1>8. asid_bitmap = {} /\ \A e \in Env : envs[e].status = ENV_FREE
  BY DEF Init
<1>9. Coherent(mem, envs, asid_bitmap)
  BY <1>3, <1>5, <1>7, <1>8 DEF Coherent
<1>10. env_free_list = Env \ Live /\ ~UserRuns /\ curenv = NULL /\ kern # "cgetc"
  BY <1>8 DEF Init, Live, UserRuns
<1> QED BY <1>1, <1>9, <1>10 DEF MemInv, MemRest

LEMMA MemNext == ASSUME RefBound PROVE MemInv /\ [Next]_vars => MemInv'
<1> SUFFICES ASSUME MemInv, [Next]_vars PROVE MemRest'
  BY TypeNext DEF MemInv
<1>1. CASE UNCHANGED vars
  BY <1>1, RestError DEF Error
<1>2. CASE EnvCreate
  BY <1>2, RestEnvCreate
<1>3. CASE kclock_init
  <2>1. /\ kern = "boot" /\ kern' = "up"
        /\ UNCHANGED <<mem, envs, env_free_list, asid_bitmap, curenv>>
    BY <1>3 DEF kclock_init
  <2>2. curenv = NULL
    BY <2>1 DEF MemInv, MemRest
  <2> QED BY <2>1, <2>2 DEF MemInv, MemRest, Live, UserRuns
<1>4. CASE sys_exofork
  BY <1>4, RestExofork
<1>5. CASE sys_yield \/ handle_int
  BY <1>5, RestYield
<1>6. CASE MemSyscall
  BY <1>6, RestMemAlloc, RestMemMap, RestMemUnmap, RestRefill DEF MemSyscall
<1>7. CASE Ipc
  BY <1>7, RestRecv, RestSend DEF Ipc
<1>8. CASE \E e \in Named(TRUE) : sys_env_destroy(e)
  BY <1>8, RestDestroy
<1>9. CASE \E e \in Named(TRUE) : \E status : sys_set_env_status(e, status)
  BY <1>9, RestSetStatus
<1>10. CASE sys_cgetc \/ scancharc
  BY <1>10, ConsoleSteps DEF MemInv, MemRest, Live, UserRuns
<1> QED BY <1>1, <1>2, <1>3, <1>4, <1>5, <1>6, <1>7, <1>8, <1>9, <1>10 DEF Next, Common

-----------------------------------------------------------------------------
\* The memory invariant holds whatever system calls programs make.
THEOREM MemInvariance == ASSUME RefBound PROVE Spec => []MemInv
<1> QED BY MemInit, MemNext, PTL DEF Spec

\* The reference count of every page is exact after any sequence of system
\* calls, page faults and context switches, the one forgotten reference of a page
\* that env_free left mapped in the top of the UVPT window counted as well.
THEOREM PageRefsExactThm == ASSUME RefBound PROVE Spec => []PageRefsExact
<1>1. MemInv => PageRefsExact
  BY DEF MemInv, MemRest, Coherent, Core, PageRefsExact
<1> QED BY <1>1, MemInvariance, PTL

\* page_alloc never hands out a page that some address space still maps.
THEOREM FreePagesUnmappedThm == ASSUME RefBound PROVE Spec => []FreePagesUnmapped
<1>1. MemInv => FreePagesUnmapped
  BY DEF MemInv, MemRest, Coherent, Core, FreePagesUnmapped
<1> QED BY <1>1, MemInvariance, PTL

\* No program can map a page table or a page directory as its own memory, and
\* every mapping has its table.
THEOREM PageTablesSoundThm == ASSUME RefBound PROVE Spec => []PageTablesSound
<1>1. MemInv => PageTablesSound
  BY DEF MemInv, MemRest, Coherent, Shape, PageTablesSound
<1> QED BY <1>1, MemInvariance, PTL

\* The TLB never holds an entry that differs from the page table, nor one
\* under an ASID that may be given to another environment, except what env_free
\* left in the top of the UVPT window: that shows pages which page_alloc never
\* hands out again and no page table refers to.
THEOREM TlbCoherentThm == ASSUME RefBound PROVE Spec => []TlbCoherent
<1>1. MemInv => TlbCoherent
  BY DEF MemInv, MemRest, Coherent, TlbCoherent, Live
<1> QED BY <1>1, MemInvariance, PTL

\* asid_alloc never gives two living environments the same ASID.
THEOREM AsidsExactThm == ASSUME RefBound PROVE Spec => []AsidsExact
<1>1. MemInv => AsidsExact
  <2> SUFFICES ASSUME MemInv PROVE AsidsExact
    OBVIOUS
  <2>1. /\ \A e \in Live : envs[e].asid \in asid_bitmap
        /\ \A a \in asid_bitmap : \E e \in Live : envs[e].asid = a
        /\ \A e, f \in Live : envs[e].asid = envs[f].asid => e = f
    BY DEF MemInv, MemRest, Coherent, Live
  <2>2. asid_bitmap = {envs[e].asid : e \in Live}
    BY <2>1
  <2> QED BY <2>1, <2>2 DEF AsidsExact
<1> QED BY <1>1, MemInvariance, PTL

-----------------------------------------------------------------------------
(***************************************************************************)
(* The run queue under programs built on user/lib: "'env' in               *)
(* 'env_sched_list' iff. 'env->env_status' is 'RUNNABLE'" (kern/env.c), the*)
(* running environment is runnable, and no assertion of the kernel fails.  *)
(* The argument is that TAILQ_REMOVE and TAILQ_INSERT_TAIL are only called *)
(* with an environment that is, respectively is not, in the queue.         *)
(***************************************************************************)
\* q is a well-shaped queue of exactly the environments in S.
Queued(q, S) == \E s : Represents(q, s) /\ Elems(s) = S

RunnableIn(es) == {e \in Env : es[e].status = ENV_RUNNABLE}

\* What the scheduler needs beyond MemInv.
SchedRest ==
  /\ kern \in {"boot", "up", "cgetc"} => Queued(env_sched_list, Runnable)
  /\ \A e \in Env : envs[e].ipc_recving => envs[e].status = ENV_NOT_RUNNABLE
  /\ UserRuns => curenv \in Runnable
  /\ kern = "cgetc" => curenv \in Runnable
  /\ NoInternalPanic

\* The inductive invariant.
SchedInv == MemInv /\ SchedRest

-----------------------------------------------------------------------------
LEMMA QueuedInsertTail ==
  ASSUME NEW q \in Tailq, NEW S, Queued(q, S), NEW e \in Env, e \notin S
  PROVE  Queued(TAILQ_INSERT_TAIL(q, e), S \union {e})
<1>1. PICK s : Represents(q, s) /\ Elems(s) = S
  BY DEF Queued
<1>2. Represents(TAILQ_INSERT_TAIL(q, e), Append(s, e))
  BY <1>1, InsertTail
<1>3. s \in Seq(Env) /\ Len(s) \in Nat
  BY <1>1 DEF Represents
<1>4. /\ Len(Append(s, e)) = Len(s) + 1 /\ Append(s, e)[Len(s) + 1] = e
      /\ \A i \in 1..Len(s) : Append(s, e)[i] = s[i]
  BY <1>3
<1>5. Elems(Append(s, e)) = S \union {e}
  <2>1. ASSUME NEW x \in Elems(Append(s, e)) PROVE x \in S \union {e}
    <3>1. PICK i \in 1..(Len(s) + 1) : x = Append(s, e)[i]
      BY <1>4 DEF Elems
    <3>2. CASE i = Len(s) + 1
      BY <1>4, <3>1, <3>2
    <3>3. CASE i # Len(s) + 1
      <4>1. i \in 1..Len(s)
        BY <1>3, <3>3
      <4> QED BY <1>1, <1>4, <3>1, <4>1 DEF Elems
    <3> QED BY <3>2, <3>3
  <2>2. ASSUME NEW x \in S PROVE x \in Elems(Append(s, e))
    <3>1. PICK i \in 1..Len(s) : x = s[i]
      BY <1>1 DEF Elems
    <3>2. i \in 1..Len(Append(s, e)) /\ x = Append(s, e)[i]
      BY <1>3, <1>4, <3>1
    <3> QED BY <3>2 DEF Elems
  <2>3. e \in Elems(Append(s, e))
    <3>1. Len(s) + 1 \in 1..Len(Append(s, e))
      BY <1>3, <1>4
    <3> QED BY <1>4, <3>1 DEF Elems
  <2> QED BY <2>1, <2>2, <2>3
<1> QED BY <1>2, <1>5 DEF Queued

LEMMA QueuedInsertHead ==
  ASSUME NEW q \in Tailq, NEW S, Queued(q, S), NEW e \in Env, e \notin S
  PROVE  Queued(TAILQ_INSERT_HEAD(q, e), S \union {e})
<1>1. PICK s : Represents(q, s) /\ Elems(s) = S
  BY DEF Queued
<1> DEFINE t == <<e>> \o s
<1>2. Represents(TAILQ_INSERT_HEAD(q, e), t)
  BY <1>1, InsertHead
<1>3. s \in Seq(Env) /\ Len(s) \in Nat
  BY <1>1 DEF Represents
<1>4. Len(t) = Len(s) + 1 /\ t[1] = e /\ \A i \in 1..Len(s) : t[i + 1] = s[i]
  BY <1>3
<1> HIDE DEF t
<1>5. Elems(t) = S \union {e}
  <2>1. ASSUME NEW x \in Elems(t) PROVE x \in S \union {e}
    <3>1. PICK i \in 1..(Len(s) + 1) : x = t[i]
      BY <1>4 DEF Elems
    <3>2. CASE i = 1
      BY <1>4, <3>1, <3>2
    <3>3. CASE i # 1
      <4>1. i - 1 \in 1..Len(s) /\ i = (i - 1) + 1
        BY <1>3, <3>3
      <4>2. x = s[i - 1]
        BY <1>4, <3>1, <4>1
      <4> QED BY <1>1, <4>1, <4>2 DEF Elems
    <3> QED BY <3>2, <3>3
  <2>2. ASSUME NEW x \in S PROVE x \in Elems(t)
    <3>1. PICK i \in 1..Len(s) : x = s[i]
      BY <1>1 DEF Elems
    <3>2. i + 1 \in 1..Len(t) /\ x = t[i + 1]
      BY <1>3, <1>4, <3>1
    <3> QED BY <3>2 DEF Elems
  <2>3. e \in Elems(t)
    <3>1. 1 \in 1..Len(t)
      BY <1>3, <1>4
    <3> QED BY <1>4, <3>1 DEF Elems
  <2> QED BY <2>1, <2>2, <2>3
<1> QED BY <1>2, <1>5 DEF Queued

LEMMA QueuedRemove ==
  ASSUME NEW q \in Tailq, NEW S, Queued(q, S), NEW e \in S
  PROVE  Queued(TAILQ_REMOVE(q, e), S \ {e})
<1>1. PICK s : Represents(q, s) /\ Elems(s) = S
  BY DEF Queued
<1>2. Represents(TAILQ_REMOVE(q, e), Without(s, e))
  BY <1>1, Remove
<1>3. s \in Seq(Env) /\ NoDup(s)
  BY <1>1 DEF Represents
<1>4. PICK k \in 1..Len(s) : e = s[k]
  BY <1>1 DEF Elems
<1>5. Elems(Without(s, s[k])) = Elems(s) \ {s[k]}
  BY <1>3, WithoutElems
<1> QED BY <1>1, <1>2, <1>4, <1>5 DEF Queued

LEMMA QueuedFirst ==
  ASSUME NEW q, NEW S, Queued(q, S)
  PROVE  /\ ~q.fault
         /\ ~TAILQ_EMPTY(q) => TAILQ_FIRST(q) \in S
<1>1. PICK s : Represents(q, s) /\ Elems(s) = S
  BY DEF Queued
<1>2. CASE s = <<>>
  BY <1>1, <1>2 DEF Represents, TAILQ_EMPTY
<1>3. CASE s # <<>>
  <2>1. q.first = s[1] /\ ~q.fault /\ s \in Seq(Env)
    BY <1>1, <1>3 DEF Represents
  <2>2. 1 \in 1..Len(s)
    BY <1>3, <2>1
  <2> QED BY <1>1, <2>1, <2>2 DEF Elems, TAILQ_FIRST
<1> QED BY <1>2, <1>3

\* schedule() rotates a well-shaped queue of the runnable environments, and
\* gives the CPU to one of them.
LEMMA ScheduleQueued ==
  ASSUME TypeOK, NEW yield \in BOOLEAN, NEW e \in Env \union {NULL},
         NEW es \in [Env -> EnvRec], NEW q \in Tailq, Queued(q, RunnableIn(es))
  PROVE  LET s == schedule(yield, e, es, q)
         IN  /\ s.kern \in {"up", "no_runnable"}
             /\ s.kern = "up" => s.cur \in RunnableIn(es)
             /\ Queued(s.queue, RunnableIn(es))
<1> DEFINE runnable == e # NULL /\ es[e].status = ENV_RUNNABLE
           moved == IF runnable THEN TAILQ_INSERT_TAIL(TAILQ_REMOVE(q, e), e) ELSE q
           f == TAILQ_FIRST(moved)
           s == schedule(yield, e, es, q)
           S == RunnableIn(es)
<1>1. Queued(moved, S)
  <2>1. CASE runnable
    <3>1. e \in S /\ e \in Env
      BY <2>1 DEF RunnableIn
    <3> HIDE DEF S
    <3>2. Queued(TAILQ_REMOVE(q, e), S \ {e}) /\ TAILQ_REMOVE(q, e) \in Tailq
      BY <3>1, QueuedRemove, TailqType DEF S
    <3>3. Queued(TAILQ_INSERT_TAIL(TAILQ_REMOVE(q, e), e), (S \ {e}) \union {e})
      BY <3>1, <3>2, QueuedInsertTail
    <3>4. (S \ {e}) \union {e} = S
      BY <3>1
    <3> QED BY <2>1, <3>3, <3>4
  <2>2. CASE ~runnable
    BY <2>2
  <2> QED BY <2>1, <2>2
<1>2. \/ runnable /\ s = env_run(es, e, count - 1, q)
      \/ /\ moved.fault \/ TAILQ_EMPTY(moved)
         /\ s = [cur |-> e, count |-> count - 1, queue |-> moved,
                 kern |-> IF moved.fault THEN "null_link" ELSE "no_runnable"]
      \/ ~TAILQ_EMPTY(moved) /\ s = env_run(es, f, es[f].pri, moved)
  BY DEF schedule
<1> HIDE DEF moved, s
<1>3. ~moved.fault /\ (~TAILQ_EMPTY(moved) => f \in S)
  BY <1>1, QueuedFirst
<1>4. /\ s.kern \in {"up", "no_runnable"}
      /\ s.kern = "up" => s.cur \in S
      /\ Queued(s.queue, S)
  <2>1. CASE runnable /\ s = env_run(es, e, count - 1, q)
    BY <2>1 DEF env_run, RunnableIn
  <2>2. CASE s = [cur |-> e, count |-> count - 1, queue |-> moved,
                  kern |-> IF moved.fault THEN "null_link" ELSE "no_runnable"]
    BY <1>1, <1>3, <2>2
  <2>3. CASE ~TAILQ_EMPTY(moved) /\ s = env_run(es, f, es[f].pri, moved)
    <3>1. f \in S /\ es[f].status = ENV_RUNNABLE
      BY <1>3, <2>3 DEF RunnableIn
    <3> HIDE DEF S, f
    <3> QED BY <1>1, <2>3, <3>1 DEF env_run
  <2> QED BY <1>2, <2>1, <2>2, <2>3
<1> QED BY <1>4 DEF s

-----------------------------------------------------------------------------
(***************************************************************************)
(* Every handler preserves the invariant.  MemInv' comes from MemNext.     *)
(***************************************************************************)

\* A library program is a program.
LEMMA LibImpliesNext == ASSUME LibNext PROVE Next
<1>1. NoId \in EnvId /\ envid2env(NoId, TRUE) = curenv
  BY DEF EnvId, envid2env
<1>2. curenv \in Named(TRUE)
  BY <1>1 DEF Named
<1>3. FreshChild \subseteq Named(TRUE)
  BY DEF FreshChild
<1> QED BY <1>2, <1>3 DEF LibNext, Next

\* How a handler ends that has kept the queue right.
LEMMA SwitchSched ==
  ASSUME SchedInv, MemInv', NEW yield \in BOOLEAN, NEW e \in Env \union {NULL},
         NEW es \in [Env -> EnvRec], NEW q \in Tailq, NEW m \in Mem,
         Switch(yield, e, es, q, m), Queued(q, RunnableIn(es)),
         \A f \in Env : es[f].ipc_recving => es[f].status = ENV_NOT_RUNNABLE
  PROVE  SchedRest'
<1> DEFINE s == schedule(yield, e, es, q)
<1>1. mem' = m /\ envs' = es /\ ~m.assert_failed
  BY DEF Switch, MemInv, MemRest, Coherent, Core
<1>2. Outcome(q, m) = "up"
  BY <1>1, QueuedFirst DEF Outcome
<1>3. curenv' = s.cur /\ env_sched_list' = s.queue /\ kern' = s.kern
  BY <1>2 DEF Switch
<1>4. /\ s.kern \in {"up", "no_runnable"}
      /\ s.kern = "up" => s.cur \in RunnableIn(es)
      /\ Queued(s.queue, RunnableIn(es))
  BY ScheduleQueued DEF SchedInv, MemInv
<1> HIDE DEF s
<1>5. Runnable' = RunnableIn(es)
  BY <1>1 DEF Runnable, RunnableIn
<1>6. NoInternalPanic'
  BY <1>3, <1>4 DEF NoInternalPanic
<1>7. UserRuns' => curenv' \in Runnable'
  BY <1>3, <1>4, <1>5 DEF UserRuns
<1> QED BY <1>1, <1>3, <1>4, <1>5, <1>6, <1>7 DEF SchedRest

LEMMA ReturnSched ==
  ASSUME SchedInv, MemInv', UserRuns, NEW es, NEW q, NEW m,
         Return(es, q, m), Queued(q, RunnableIn(es)), curenv \in RunnableIn(es),
         \A f \in Env : es[f].ipc_recving => es[f].status = ENV_NOT_RUNNABLE
  PROVE  SchedRest'
<1>1. mem' = m /\ envs' = es /\ ~m.assert_failed
  BY DEF Return, MemInv, MemRest, Coherent, Core
<1>2. Outcome(q, m) = "up"
  BY <1>1, QueuedFirst DEF Outcome
<1>3. kern' = "up" /\ env_sched_list' = q /\ curenv' = curenv
  BY <1>2 DEF Return
<1>4. Runnable' = RunnableIn(es)
  BY <1>1 DEF Runnable, RunnableIn
<1>5. NoInternalPanic'
  BY <1>3 DEF NoInternalPanic
<1> QED BY <1>1, <1>3, <1>4, <1>5 DEF SchedRest

LEMMA SchedSame == Runnable = RunnableIn(envs)
BY DEF Runnable, RunnableIn

\* The facts every handler of a running environment starts from.
LEMMA SchedRuns ==
  ASSUME SchedInv, UserRuns
  PROVE  /\ TypeOK /\ curenv \in Env /\ curenv \in RunnableIn(envs)
         /\ envs[curenv].status = ENV_RUNNABLE
         /\ Queued(env_sched_list, RunnableIn(envs))
         /\ envs \in [Env -> EnvRec] /\ env_sched_list \in Tailq
         /\ \A f \in Env : envs[f].ipc_recving => envs[f].status = ENV_NOT_RUNNABLE
BY SchedSame, MeType DEF SchedInv, MemInv, SchedRest, UserRuns, TypeOK, RunnableIn

LEMMA SchedError == ASSUME SchedInv, Error PROVE SchedRest'
BY DEF SchedInv, SchedRest, Error, vars, Runnable, UserRuns, NoInternalPanic

\* A handler that leaves environments and queue alone.
LEMMA SchedReturnSame ==
  ASSUME SchedInv, MemInv', UserRuns, NEW m, Return(envs, env_sched_list, m)
  PROVE  SchedRest'
BY SchedRuns, ReturnSched

LEMMA SchedEnvCreate == ASSUME SchedInv, MemInv', EnvCreate PROVE SchedRest'
<1> PICK e \in env_free_list, a \in asid_alloc, pri \in Pri,
         va \in IF ImageVa = {} THEN {NullVa} ELSE ImageVa : env_create(e, a, va, pri)
  BY DEF EnvCreate
<1> DEFINE x == [env_alloc(e, a, NoId) EXCEPT !.pri = pri, !.status = ENV_RUNNABLE]
<1>1. /\ TypeOK /\ env_free_list = Env \ Live /\ Queued(env_sched_list, Runnable)
      /\ \A f \in Env : envs[f].ipc_recving => envs[f].status = ENV_NOT_RUNNABLE
      /\ curenv = NULL
  BY DEF SchedInv, MemInv, MemRest, SchedRest, env_create
<1>2. /\ e \in Env /\ envs[e].status = ENV_FREE /\ ~envs[e].ipc_recving
  BY <1>1 DEF Live, ENV_FREE, ENV_NOT_RUNNABLE, TypeOK
<1>3. x.status = ENV_RUNNABLE /\ x.ipc_recving = envs[e].ipc_recving
  <2>1. envs[e] \in EnvRec
    BY <1>1, <1>2 DEF TypeOK
  <2> QED BY <2>1 DEF env_alloc, EnvRec
<1>4. /\ envs' = [envs EXCEPT ![e] = x] /\ curenv' = curenv /\ kern' \in {"boot", "no_mem"}
      /\ env_sched_list' = TAILQ_INSERT_HEAD(env_sched_list, e)
  BY DEF env_create
<1> HIDE DEF x
<1>5. envs'[e] = x /\ \A f \in Env \ {e} : envs'[f] = envs[f]
  BY <1>1, <1>2, <1>4 DEF TypeOK
<1>6. Runnable' = Runnable \union {e} /\ e \notin Runnable
  BY <1>2, <1>3, <1>5 DEF Runnable, ENV_FREE, ENV_RUNNABLE
<1>7. Queued(env_sched_list', Runnable')
  BY <1>1, <1>2, <1>4, <1>6, QueuedInsertHead DEF TypeOK
<1>8. \A f \in Env : envs'[f].ipc_recving => envs'[f].status = ENV_NOT_RUNNABLE
  BY <1>1, <1>2, <1>3, <1>5
<1>9. ~UserRuns' /\ kern' # "cgetc" /\ NoInternalPanic'
  BY <1>4 DEF UserRuns, NoInternalPanic
<1> QED BY <1>7, <1>8, <1>9 DEF SchedRest

LEMMA SchedExofork == ASSUME SchedInv, MemInv', sys_exofork PROVE SchedRest'
<1>1. CASE Error
  BY <1>1, SchedError
<1>2. CASE Panic("no_asid")
  BY <1>2 DEF Panic, SchedInv, SchedRest, UserRuns, NoInternalPanic
<1>3. ASSUME NEW e \in env_free_list, NEW a \in asid_alloc,
             LET child == [env_alloc(e, a, Me.id)
                             EXCEPT !.status = ENV_NOT_RUNNABLE, !.pri = Me.pri]
             IN  Return([envs EXCEPT ![e] = child], env_sched_list, env_setup_vm(mem, e))
      PROVE  SchedRest'
  <2> DEFINE x == [env_alloc(e, a, Me.id)
                     EXCEPT !.status = ENV_NOT_RUNNABLE, !.pri = Me.pri]
             es == [envs EXCEPT ![e] = x]
  <2>1. /\ UserRuns /\ TypeOK /\ curenv \in RunnableIn(envs)
        /\ Queued(env_sched_list, RunnableIn(envs)) /\ env_free_list = Env \ Live
        /\ \A f \in Env : envs[f].ipc_recving => envs[f].status = ENV_NOT_RUNNABLE
    BY SchedRuns DEF sys_exofork, SchedInv, MemInv, MemRest
  <2>2. e \in Env /\ envs[e].status = ENV_FREE
    BY <2>1 DEF Live, TypeOK
  <2>3. x.status = ENV_NOT_RUNNABLE
    <3>1. envs[e] \in EnvRec
      BY <2>1, <2>2 DEF TypeOK
    <3> QED BY <3>1 DEF env_alloc, EnvRec
  <2>4. Return(es, env_sched_list, env_setup_vm(mem, e))
    BY <1>3
  <2> HIDE DEF x
  <2>5. es[e] = x /\ \A f \in Env \ {e} : es[f] = envs[f]
    BY <2>1, <2>2 DEF TypeOK
  <2> HIDE DEF es
  <2>6. RunnableIn(es) = RunnableIn(envs)
    BY <2>2, <2>3, <2>5 DEF RunnableIn, ENV_FREE, ENV_RUNNABLE, ENV_NOT_RUNNABLE
  <2>7. \A f \in Env : es[f].ipc_recving => es[f].status = ENV_NOT_RUNNABLE
    BY <2>1, <2>3, <2>5
  <2> QED BY <2>1, <2>4, <2>6, <2>7, ReturnSched
<1> QED BY <1>1, <1>2, <1>3 DEF sys_exofork

\* exit(): the caller is in the queue, so it can be unlinked.
LEMMA SchedDestroy ==
  ASSUME SchedInv, MemInv', sys_env_destroy(curenv)
  PROVE  SchedRest'
<1> DEFINE es == [envs EXCEPT ![curenv].status = ENV_FREE]
           q == TAILQ_REMOVE(env_sched_list, curenv)
           m == env_free_vm(mem, curenv, envs[curenv].asid)
<1>1. CASE Error
  BY <1>1, SchedError
<1>2. CASE ~Error
  <2>1. UserRuns /\ Switch(TRUE, NULL, es, q, m)
    BY <1>2 DEF sys_env_destroy
  <2>2. /\ TypeOK /\ curenv \in Env /\ curenv \in RunnableIn(envs)
        /\ envs[curenv].status = ENV_RUNNABLE
        /\ Queued(env_sched_list, RunnableIn(envs))
        /\ envs \in [Env -> EnvRec] /\ env_sched_list \in Tailq
        /\ \A f \in Env : envs[f].ipc_recving => envs[f].status = ENV_NOT_RUNNABLE
    BY <2>1, SchedRuns
  <2>3. /\ es[curenv].status = ENV_FREE /\ \A f \in Env \ {curenv} : es[f] = envs[f]
        /\ es[curenv].ipc_recving = envs[curenv].ipc_recving
        /\ es \in [Env -> EnvRec]
    BY <2>2 DEF EnvRec
  <2>4. q \in Tailq /\ Queued(q, RunnableIn(envs) \ {curenv})
    BY <2>2, TailqType, QueuedRemove
  <2>5. m \in Mem
    BY <2>2, FreeVmType DEF TypeOK, EnvRec
  <2> HIDE DEF es, q, m
  <2>6. RunnableIn(es) = RunnableIn(envs) \ {curenv}
    BY <2>2, <2>3 DEF RunnableIn, ENV_FREE, ENV_RUNNABLE
  <2>7. \A f \in Env : es[f].ipc_recving => es[f].status = ENV_NOT_RUNNABLE
    BY <2>2, <2>3 DEF ENV_RUNNABLE, ENV_NOT_RUNNABLE
  <2> QED BY <2>1, <2>3, <2>4, <2>5, <2>6, <2>7, SwitchSched
<1> QED BY <1>1, <1>2

\* fork() and spawn() start a child that is not in the queue.
LEMMA SchedStart ==
  ASSUME SchedInv, MemInv', UserRuns, NEW e \in FreshChild,
         sys_set_env_status(e, ENV_RUNNABLE)
  PROVE  SchedRest'
<1> DEFINE es == [envs EXCEPT ![e].status = ENV_RUNNABLE]
           q == TAILQ_INSERT_TAIL(env_sched_list, e)
<1>1. /\ TypeOK /\ curenv \in Env /\ curenv \in RunnableIn(envs)
      /\ Queued(env_sched_list, RunnableIn(envs))
      /\ envs \in [Env -> EnvRec] /\ env_sched_list \in Tailq
      /\ \A f \in Env : envs[f].ipc_recving => envs[f].status = ENV_NOT_RUNNABLE
  BY SchedRuns
<1>2. e \in Env /\ envs[e].status = ENV_NOT_RUNNABLE /\ ~envs[e].ipc_recving
  BY <1>1, NamedType DEF FreshChild
<1>3. Error \/ Return(es, q, mem)
  BY DEF sys_set_env_status
<1>4. /\ es[e].status = ENV_RUNNABLE /\ es[e].ipc_recving = envs[e].ipc_recving
      /\ \A f \in Env \ {e} : es[f] = envs[f]
  BY <1>1, <1>2 DEF EnvRec
<1>5. e \notin RunnableIn(envs)
  BY <1>2 DEF RunnableIn, ENV_RUNNABLE, ENV_NOT_RUNNABLE
<1>6. Queued(q, RunnableIn(envs) \union {e})
  BY <1>1, <1>2, <1>5, QueuedInsertTail
<1> HIDE DEF es, q
<1>7. RunnableIn(es) = RunnableIn(envs) \union {e}
  BY <1>2, <1>4 DEF RunnableIn
<1>8. \A f \in Env : es[f].ipc_recving => es[f].status = ENV_NOT_RUNNABLE
  BY <1>1, <1>2, <1>4
<1> QED BY <1>1, <1>3, <1>6, <1>7, <1>8, SchedError, ReturnSched

LEMMA SchedYield ==
  ASSUME SchedInv, MemInv', sys_yield \/ handle_int
  PROVE  SchedRest'
<1>1. \/ Switch(TRUE, curenv, envs, env_sched_list, mem)
      \/ Switch(FALSE, curenv, envs, env_sched_list, mem)
  BY DEF sys_yield, handle_int
<1>2. kern = "up"
  BY DEF sys_yield, handle_int, UserRuns
<1>3. /\ curenv \in Env \union {NULL} /\ envs \in [Env -> EnvRec]
      /\ env_sched_list \in Tailq /\ mem \in Mem
  BY DEF SchedInv, MemInv, TypeOK
<1>4. /\ Queued(env_sched_list, RunnableIn(envs))
      /\ \A f \in Env : envs[f].ipc_recving => envs[f].status = ENV_NOT_RUNNABLE
  BY <1>2, SchedSame DEF SchedInv, SchedRest
<1> QED BY <1>1, <1>3, <1>4, SwitchSched

LEMMA SchedRecv ==
  ASSUME SchedInv, MemInv', NEW va \in IpcVa, sys_ipc_recv(va)
  PROVE  SchedRest'
<1>1. CASE Error
  BY <1>1, SchedError
<1>2. CASE ~Error
  <2> DEFINE es == [envs EXCEPT ![curenv].ipc_recving = TRUE,
                                ![curenv].ipc_dstva = va,
                                ![curenv].status = ENV_NOT_RUNNABLE]
             q == TAILQ_REMOVE(env_sched_list, curenv)
  <2>1. /\ UserRuns
        /\ va = NullVa \/ ~is_illegal_va(va)
        /\ Switch(TRUE, curenv, es, q, mem)
    BY <1>2 DEF sys_ipc_recv
  <2>2. /\ TypeOK /\ curenv \in Env /\ curenv \in RunnableIn(envs)
        /\ Queued(env_sched_list, RunnableIn(envs))
        /\ envs \in [Env -> EnvRec] /\ env_sched_list \in Tailq
        /\ \A f \in Env : envs[f].ipc_recving => envs[f].status = ENV_NOT_RUNNABLE
    BY <2>1, SchedRuns
  <2>3. va \in UserVa
    BY <2>1, NullVaType DEF is_illegal_va
  <2>4. /\ es[curenv].status = ENV_NOT_RUNNABLE
        /\ \A f \in Env \ {curenv} : es[f] = envs[f]
        /\ es \in [Env -> EnvRec]
    <3> DEFINE r == [envs[curenv] EXCEPT !.ipc_recving = TRUE, !.ipc_dstva = va,
                                         !.status = ENV_NOT_RUNNABLE]
    <3>1. envs[curenv] \in EnvRec
      BY <2>2
    <3>2. r \in EnvRec /\ r.status = ENV_NOT_RUNNABLE
      BY <3>1, <2>3 DEF EnvRec
    <3>3. es = [envs EXCEPT ![curenv] = r]
      BY <2>2
    <3> HIDE DEF es, r
    <3> QED BY <3>2, <3>3, <2>2
  <2>5. q \in Tailq /\ Queued(q, RunnableIn(envs) \ {curenv})
    BY <2>2, TailqType, QueuedRemove
  <2> HIDE DEF es, q
  <2>6. RunnableIn(es) = RunnableIn(envs) \ {curenv}
    BY <2>2, <2>4 DEF RunnableIn, ENV_NOT_RUNNABLE, ENV_RUNNABLE
  <2>7. \A f \in Env : es[f].ipc_recving => es[f].status = ENV_NOT_RUNNABLE
    BY <2>2, <2>4
  <2>8. mem \in Mem
    BY <2>2 DEF TypeOK
  <2> QED BY <2>1, <2>2, <2>4, <2>5, <2>6, <2>7, <2>8, SwitchSched
<1> QED BY <1>1, <1>2

\* A receiver is blocked, hence not in the queue, when a message wakes it.
LEMMA SchedSend ==
  ASSUME SchedInv, MemInv', NEW e \in Named(FALSE), NEW va \in IpcVa, NEW perm \in Perm,
         sys_ipc_try_send(e, va, perm)
  PROVE  SchedRest'
<1>1. CASE Error
  BY <1>1, SchedError
<1>2. CASE ~Error
  <2> DEFINE es == [envs EXCEPT ![e].ipc_recving = FALSE,
                                ![e].status = ENV_RUNNABLE]
             q == TAILQ_INSERT_TAIL(env_sched_list, e)
  <2>1. UserRuns /\ e # NULL /\ envs[e].ipc_recving /\ \E m : Return(es, q, m)
    BY <1>2 DEF sys_ipc_try_send
  <2>2. /\ TypeOK /\ curenv \in Env /\ curenv \in RunnableIn(envs)
        /\ Queued(env_sched_list, RunnableIn(envs))
        /\ envs \in [Env -> EnvRec] /\ env_sched_list \in Tailq
        /\ \A f \in Env : envs[f].ipc_recving => envs[f].status = ENV_NOT_RUNNABLE
    BY <2>1, SchedRuns
  <2>3. e \in Env /\ envs[e].status = ENV_NOT_RUNNABLE
    BY <2>1, <2>2, NamedType
  <2>4. /\ es[e].status = ENV_RUNNABLE /\ ~es[e].ipc_recving
        /\ \A f \in Env \ {e} : es[f] = envs[f]
    BY <2>2, <2>3 DEF EnvRec
  <2>5. e \notin RunnableIn(envs)
    BY <2>3 DEF RunnableIn, ENV_RUNNABLE, ENV_NOT_RUNNABLE
  <2>6. Queued(q, RunnableIn(envs) \union {e})
    BY <2>2, <2>3, <2>5, QueuedInsertTail
  <2> HIDE DEF es, q
  <2>7. RunnableIn(es) = RunnableIn(envs) \union {e}
    BY <2>3, <2>4 DEF RunnableIn
  <2>8. \A f \in Env : es[f].ipc_recving => es[f].status = ENV_NOT_RUNNABLE
    BY <2>2, <2>4
  <2>9. curenv \in RunnableIn(es)
    BY <2>2, <2>7
  <2>10. PICK m : Return(es, q, m)
    BY <2>1
  <2> QED BY <2>1, <2>6, <2>7, <2>8, <2>9, <2>10, ReturnSched
<1> QED BY <1>1, <1>2

LEMMA SchedMemSyscall ==
  ASSUME SchedInv, MemInv', MemSyscall
  PROVE  SchedRest'
<1>1. UserRuns
  BY DEF MemSyscall
<1>2. CASE Error
  BY <1>2, SchedError
<1>3. CASE \E m : Return(envs, env_sched_list, m)
  BY <1>1, <1>3, SchedReturnSame
<1>4. CASE \E va \in Va : do_tlb_refill(va)
  <2>1. /\ UNCHANGED <<envs, env_sched_list, curenv>>
        /\ kern' \in {kern, "bad_va", "no_mem"}
    BY <1>4 DEF do_tlb_refill
  <2> QED BY <1>1, <2>1 DEF SchedInv, SchedRest, Runnable, UserRuns, NoInternalPanic
<1>5. CASE \E e \in Named(TRUE), va \in UserVa, perm \in Perm : sys_mem_alloc(e, va, perm)
  <2>1. Error \/ \E m : Return(envs, env_sched_list, m)
    BY <1>5 DEF sys_mem_alloc
  <2> QED BY <1>2, <1>3, <2>1
<1>6. CASE \E src, dst \in Named(TRUE), va, va2 \in UserVa, perm \in Perm :
             sys_mem_map(src, va, dst, va2, perm)
  <2>1. Error \/ \E m : Return(envs, env_sched_list, m)
    BY <1>6 DEF sys_mem_map
  <2> QED BY <1>2, <1>3, <2>1
<1>7. CASE \E e \in Named(TRUE), va \in UserVa : sys_mem_unmap(e, va)
  <2>1. Error \/ \E m : Return(envs, env_sched_list, m)
    BY <1>7 DEF sys_mem_unmap
  <2> QED BY <1>2, <1>3, <2>1
<1> QED BY <1>4, <1>5, <1>6, <1>7 DEF MemSyscall

LEMMA SchedInit == Init => SchedInv
<1> SUFFICES ASSUME Init PROVE SchedInv
  OBVIOUS
<1>1. MemInv
  BY MemInit
<1>2. Runnable = {}
  BY DEF Init, Runnable, ENV_FREE, ENV_RUNNABLE
<1>3. Queued(env_sched_list, {})
  <2>1. Elems(<<>>) = {}
    BY DEF Elems
  <2> QED BY <2>1, InitRepresents DEF Init, Queued
<1>4. /\ \A e \in Env : ~envs[e].ipc_recving
      /\ ~UserRuns /\ kern # "cgetc" /\ NoInternalPanic
  BY DEF Init, UserRuns, NoInternalPanic
<1> QED BY <1>1, <1>2, <1>3, <1>4 DEF SchedInv, SchedRest

LEMMA SchedNext == ASSUME RefBound PROVE SchedInv /\ [LibNext]_vars => SchedInv'
<1> SUFFICES ASSUME SchedInv, [LibNext]_vars PROVE SchedInv'
  OBVIOUS
<1>1. MemInv'
  BY MemNext, LibImpliesNext DEF SchedInv
<1>2. SchedRest'
  <2>1. CASE UNCHANGED vars
    BY <2>1, SchedError DEF Error
  <2>2. CASE EnvCreate
    BY <1>1, <2>2, SchedEnvCreate
  <2>3. CASE kclock_init
    <3>1. /\ kern = "boot" /\ kern' = "up" /\ UNCHANGED <<envs, env_sched_list, curenv>>
      BY <2>3 DEF kclock_init
    <3>2. curenv = NULL
      BY <3>1 DEF SchedInv, MemInv, MemRest
    <3> QED BY <3>1, <3>2 DEF SchedInv, SchedRest, Runnable, UserRuns, NoInternalPanic
  <2>4. CASE sys_exofork
    BY <1>1, <2>4, SchedExofork
  <2>5. CASE sys_yield \/ handle_int
    BY <1>1, <2>5, SchedYield
  <2>6. CASE MemSyscall
    BY <1>1, <2>6, SchedMemSyscall
  <2>7. CASE Ipc
    BY <1>1, <2>7, SchedRecv, SchedSend DEF Ipc
  <2>8. CASE sys_env_destroy(curenv)
    BY <1>1, <2>8, SchedDestroy
  <2>9. CASE UserRuns /\ \E e \in FreshChild : sys_set_env_status(e, ENV_RUNNABLE)
    BY <1>1, <2>9, SchedStart
  <2>10. CASE sys_cgetc \/ scancharc
    BY <2>10, ConsoleSteps DEF SchedInv, SchedRest, Runnable, UserRuns, NoInternalPanic
  <2> QED BY <2>1, <2>2, <2>3, <2>4, <2>5, <2>6, <2>7, <2>8, <2>9, <2>10
      DEF LibNext, Common
<1> QED BY <1>1, <1>2 DEF SchedInv

-----------------------------------------------------------------------------
THEOREM SchedInvariance == ASSUME RefBound PROVE LibSpec => []SchedInv
<1> QED BY SchedInit, SchedNext, PTL DEF LibSpec

\* The running environment is runnable, so schedule() always rotates it.
THEOREM CurenvRunnableThm == ASSUME RefBound PROVE LibSpec => []CurenvRunnable
<1>1. SchedInv => CurenvRunnable
  BY DEF SchedInv, SchedRest, CurenvRunnable
<1> QED BY <1>1, SchedInvariance, PTL

\* No assertion of page_decref, page_free or env_run fails, and no null link
\* of the run queue is followed.
THEOREM NoInternalPanicThm == ASSUME RefBound PROVE LibSpec => []NoInternalPanic
<1>1. SchedInv => NoInternalPanic
  BY DEF SchedInv, SchedRest
<1> QED BY <1>1, SchedInvariance, PTL

\* A sequence without duplicates is no longer than the set of its elements.
LEMMA NoDupLength ==
  ASSUME NEW s \in Seq(Env), NoDup(s), NEW S, Elems(s) = S, IsFiniteSet(S)
  PROVE  s \in [1..Len(s) -> S] /\ Len(s) \in 0..Cardinality(S)
<1>1. Len(s) \in Nat /\ s \in [1..Len(s) -> Env]
  OBVIOUS
<1>2. \A i \in 1..Len(s) : s[i] \in S
  BY DEF Elems
<1>3. s \in [1..Len(s) -> S]
  BY <1>1, <1>2
<1>4. s \in Injection(1..Len(s), S)
  BY <1>3 DEF Injection, IsInjective, NoDup
<1>5. Cardinality(1..Len(s)) <= Cardinality(S)
  BY <1>4, FS_Injection
<1>6. Cardinality(1..Len(s)) = Len(s)
  BY <1>1, FS_Interval
<1>7. Cardinality(S) \in Nat
  BY FS_CardinalityType
<1> QED BY <1>1, <1>3, <1>5, <1>6, <1>7

\* An environment is in env_sched_list if and only if it is runnable.
THEOREM SchedListInvariantThm == ASSUME RefBound PROVE LibSpec => []SchedListInvariant
<1>1. SchedInv => SchedListInvariant
  <2> SUFFICES ASSUME SchedInv, kern \in {"boot", "up", "cgetc"}
               PROVE  \E s \in UNION {[1..n -> Runnable] : n \in 0..Cardinality(Runnable)} :
                        Represents(env_sched_list, s) /\ Elems(s) = Runnable
    BY DEF SchedListInvariant
  <2>1. PICK s : Represents(env_sched_list, s) /\ Elems(s) = Runnable
    BY DEF SchedInv, SchedRest, Queued
  <2>2. s \in Seq(Env) /\ NoDup(s)
    BY <2>1 DEF Represents
  <2>3. IsFiniteSet(Runnable)
    <3>1. Runnable \in SUBSET Env
      BY DEF Runnable
    <3> QED BY <3>1, EnvAssumption, FS_Subset
  <2>4. s \in [1..Len(s) -> Runnable] /\ Len(s) \in 0..Cardinality(Runnable)
    BY <2>1, <2>2, <2>3, NoDupLength
  <2> QED BY <2>1, <2>4
<1> QED BY <1>1, SchedInvariance, PTL

\* What a step may do to the waiting environment e.
WaitsOn(e) ==
  envs'[e].ipc_recving /\ e \in Live'
    => \/ e = curenv
       \/ e \in Live /\ envs[e].ipc_recving /\ envs'[e].id = envs[e].id

LEMMA WaitsSame ==
  ASSUME NEW e \in Env, envs'[e] = envs[e]
  PROVE  WaitsOn(e)
BY DEF WaitsOn, Live

\* A new environment does not wait: who waited in its slot was not runnable, and is
\* still there.
LEMMA WaitsAlloc ==
  ASSUME SchedInv, NEW x \in Env, envs[x].status = ENV_FREE, NEW r, envs' = [envs EXCEPT ![x] = r],
         r.ipc_recving = envs[x].ipc_recving, NEW e \in Env
  PROVE  WaitsOn(e)
<1>1. envs \in [Env -> EnvRec] /\ ~envs[x].ipc_recving
  <2>1. TypeOK /\ (envs[x].ipc_recving => envs[x].status = ENV_NOT_RUNNABLE)
    BY DEF SchedInv, MemInv, SchedRest
  <2>2. envs \in [Env -> EnvRec]
    BY <2>1 DEF TypeOK
  <2> QED BY <2>1, <2>2 DEF ENV_FREE, ENV_NOT_RUNNABLE
<1>2. CASE e = x
  BY <1>1, <1>2 DEF WaitsOn
<1>3. CASE e # x
  <2>1. envs'[e] = envs[e]
    BY <1>1, <1>3
  <2> QED BY <2>1, WaitsSame
<1> QED BY <1>2, <1>3

LEMMA WaitsEnvCreate ==
  ASSUME SchedInv, EnvCreate, NEW e \in Env
  PROVE  WaitsOn(e)
<1>1. PICK x \in env_free_list, a \in asid_alloc, pri \in Pri,
           va \in (IF ImageVa = {} THEN {NullVa} ELSE ImageVa) : env_create(x, a, va, pri)
  BY DEF EnvCreate
<1> DEFINE r == [env_alloc(x, a, NoId) EXCEPT !.pri = pri, !.status = ENV_RUNNABLE]
<1>2. envs' = [envs EXCEPT ![x] = r]
  BY <1>1 DEF env_create
<1>3. TypeOK /\ env_free_list = Env \ Live
  BY DEF SchedInv, MemInv, MemRest
<1>4. x \in Env /\ envs[x].status = ENV_FREE /\ envs[x] \in EnvRec
  BY <1>3 DEF Live, TypeOK
<1>5. r.ipc_recving = envs[x].ipc_recving
  BY <1>4 DEF env_alloc, EnvRec
<1> HIDE DEF r
<1> QED BY <1>2, <1>4, <1>5, WaitsAlloc

LEMMA WaitsExofork ==
  ASSUME SchedInv, sys_exofork, NEW e \in Env
  PROVE  WaitsOn(e)
<1>1. CASE UNCHANGED envs
  BY <1>1, WaitsSame
<1>2. ASSUME NEW x \in env_free_list, NEW a \in asid_alloc,
             envs' = [envs EXCEPT ![x] = [env_alloc(x, a, Me.id)
                        EXCEPT !.status = ENV_NOT_RUNNABLE, !.pri = Me.pri]]
      PROVE  WaitsOn(e)
  <2> DEFINE r == [env_alloc(x, a, Me.id) EXCEPT !.status = ENV_NOT_RUNNABLE, !.pri = Me.pri]
  <2>1. TypeOK /\ env_free_list = Env \ Live
    BY DEF SchedInv, MemInv, MemRest
  <2>2. x \in Env /\ envs[x].status = ENV_FREE /\ envs[x] \in EnvRec
    BY <2>1 DEF Live, TypeOK
  <2>3. r.ipc_recving = envs[x].ipc_recving
    BY <2>2 DEF env_alloc, EnvRec
  <2>4. envs' = [envs EXCEPT ![x] = r]
    BY <1>2
  <2> HIDE DEF r
  <2> QED BY <2>2, <2>3, <2>4, WaitsAlloc
<1> QED BY <1>1, <1>2 DEF sys_exofork, Return, Error, Panic, vars

LEMMA WaitsDestroy ==
  ASSUME SchedInv, UserRuns, sys_env_destroy(curenv), NEW e \in Env
  PROVE  WaitsOn(e)
<1>1. CASE e = curenv
  BY <1>1 DEF WaitsOn
<1>2. CASE e # curenv
  <2>1. TypeOK
    BY DEF SchedInv, MemInv
  <2>2. envs' = [envs EXCEPT ![curenv].status = ENV_FREE] \/ envs' = envs
    BY DEF sys_env_destroy, Switch, Return, Error, vars
  <2>3. envs'[e] = envs[e]
    BY <1>2, <2>1, <2>2 DEF TypeOK
  <2> QED BY <2>3, WaitsSame
<1> QED BY <1>1, <1>2

LEMMA WaitsStart ==
  ASSUME SchedInv, NEW x \in FreshChild, UserRuns, sys_set_env_status(x, ENV_RUNNABLE),
         NEW e \in Env
  PROVE  WaitsOn(e)
<1>1. TypeOK
  BY DEF SchedInv, MemInv
<1>2. envs' = [envs EXCEPT ![x].status = ENV_RUNNABLE] \/ envs' = envs
  BY DEF sys_set_env_status, Return, Error, vars
<1>3. CASE e = x
  <2>1. ~envs[x].ipc_recving /\ envs[x] \in EnvRec
    BY <1>1, <1>3 DEF FreshChild, TypeOK
  <2>2. envs'[x] = envs[x] \/ envs'[x] = [envs[x] EXCEPT !.status = ENV_RUNNABLE]
    BY <1>1, <1>2, <1>3 DEF TypeOK
  <2>3. ~envs'[x].ipc_recving
    BY <2>1, <2>2 DEF EnvRec
  <2> QED BY <1>3, <2>3 DEF WaitsOn
<1>4. CASE e # x
  <2>1. envs'[e] = envs[e]
    BY <1>1, <1>2, <1>4 DEF TypeOK
  <2> QED BY <2>1, WaitsSame
<1> QED BY <1>3, <1>4

LEMMA WaitsRecv ==
  ASSUME SchedInv, NEW va, sys_ipc_recv(va), NEW e \in Env
  PROVE  WaitsOn(e)
<1>1. CASE e = curenv
  BY <1>1 DEF WaitsOn
<1>2. CASE e # curenv
  <2>1. TypeOK
    BY DEF SchedInv, MemInv
  <2>2. \/ envs' = envs
        \/ envs' = [envs EXCEPT ![curenv].ipc_recving = TRUE, ![curenv].ipc_dstva = va,
                                ![curenv].status = ENV_NOT_RUNNABLE]
    BY DEF sys_ipc_recv, Switch, Error, vars
  <2>3. envs'[e] = envs[e]
    BY <1>2, <2>1, <2>2 DEF TypeOK
  <2> QED BY <2>3, WaitsSame
<1> QED BY <1>1, <1>2

LEMMA WaitsSend ==
  ASSUME SchedInv, NEW x, NEW va, NEW perm, sys_ipc_try_send(x, va, perm), NEW e \in Env
  PROVE  WaitsOn(e)
<1>1. envs \in [Env -> EnvRec]
  BY DEF SchedInv, MemInv, TypeOK
<1>2. \/ envs' = envs
      \/ envs' = [envs EXCEPT ![x].ipc_recving = FALSE, ![x].status = ENV_RUNNABLE]
  BY DEF sys_ipc_try_send, Return, Error, vars
<1>3. CASE envs' = envs
  BY <1>3, WaitsSame
<1>4. CASE e = x /\ envs' = [envs EXCEPT ![x].ipc_recving = FALSE, ![x].status = ENV_RUNNABLE]
  <2>1. ~envs'[e].ipc_recving
    <3>1. envs[e] \in EnvRec
      BY <1>1
    <3>2. envs'[e] = [envs[e] EXCEPT !.ipc_recving = FALSE, !.status = ENV_RUNNABLE]
      BY <1>1, <1>4
    <3> QED BY <3>1, <3>2 DEF EnvRec
  <2> QED BY <2>1 DEF WaitsOn
<1>5. CASE e # x /\ envs' = [envs EXCEPT ![x].ipc_recving = FALSE, ![x].status = ENV_RUNNABLE]
  <2>1. envs'[e] = envs[e]
    BY <1>1, <1>5
  <2> QED BY <2>1, WaitsSame
<1> QED BY <1>2, <1>3, <1>4, <1>5

LEMMA WaitsStep ==
  ASSUME SchedInv, [LibNext]_vars, NEW e \in Env
  PROVE  WaitsOn(e)
<1>1. CASE UNCHANGED envs
  BY <1>1, WaitsSame
<1>2. CASE kclock_init \/ sys_yield \/ handle_int \/ sys_cgetc \/ scancharc \/ MemSyscall
  <2>1. UNCHANGED envs
    <3>1. CASE kclock_init
      BY <3>1 DEF kclock_init
    <3>2. CASE sys_yield \/ handle_int
      BY <3>2 DEF sys_yield, handle_int, Switch
    <3>3. ASSUME NEW a, NEW va, NEW perm, sys_mem_alloc(a, va, perm)
          PROVE  UNCHANGED envs
      BY <3>3 DEF sys_mem_alloc, Return, Error, vars
    <3>4. ASSUME NEW a, NEW b, NEW va, NEW va2, NEW perm, sys_mem_map(a, va, b, va2, perm)
          PROVE  UNCHANGED envs
      BY <3>4 DEF sys_mem_map, Return, Error, vars
    <3>5. ASSUME NEW a, NEW va, sys_mem_unmap(a, va)
          PROVE  UNCHANGED envs
      BY <3>5 DEF sys_mem_unmap, Return, Error, vars
    <3>6. ASSUME NEW va, do_tlb_refill(va)
          PROVE  UNCHANGED envs
      BY <3>6 DEF do_tlb_refill
    <3>7. CASE MemSyscall
      BY <3>3, <3>4, <3>5, <3>6, <3>7 DEF MemSyscall
    <3>8. CASE sys_cgetc \/ scancharc
      BY <3>8, ConsoleSteps
    <3> QED BY <1>2, <3>1, <3>2, <3>7, <3>8
  <2> QED BY <1>1, <2>1
<1>3. CASE Ipc
  BY <1>3, WaitsRecv, WaitsSend DEF Ipc
<1>4. CASE UserRuns /\ \E x \in FreshChild : sys_set_env_status(x, ENV_RUNNABLE)
  BY <1>4, WaitsStart
<1> QED
  BY <1>1, <1>2, <1>3, <1>4, WaitsEnvCreate, WaitsExofork, WaitsDestroy DEF LibNext, Common, vars

\* An environment begins to wait for a message only by its own sys_ipc_recv.  env_alloc
\* does not clear the flag that the previous occupant of the slot left behind; under
\* library programs there is none, since only who runs is destroyed and who waits does
\* not run.
THEOREM WaitsOnlyByOwnCallThm == ASSUME RefBound PROVE LibSpec => WaitsOnlyByOwnCall
<1>1. SchedInv /\ [LibNext]_vars =>
        [\A e \in Env : (envs'[e].ipc_recving /\ e \in Live')
           => \/ e = curenv
              \/ e \in Live /\ envs[e].ipc_recving /\ envs'[e].id = envs[e].id]_vars
  BY WaitsStep DEF WaitsOn
<1> QED BY <1>1, SchedInvariance, PTL DEF LibSpec, WaitsOnlyByOwnCall
=============================================================================
