-------------------------------- MODULE Pmap --------------------------------
(***************************************************************************)
(* kern/pmap.c and kern/tlb_asm.S: physical pages, two-level page tables   *)
(* and the TLB.  The whole memory state is one record so that a handler is *)
(* written as the composition of the calls it makes:                       *)
(*   ref   pp_ref, a u_short that wraps at RefMod                          *)
(*   free  page_free_list.  Free pages are all alike (page_alloc clears the *)
(*         page it returns), so the order of the list is left out and      *)
(*         LIST_FIRST is some fixed member                                 *)
(*   pt    the valid entries of every address space, by virtual page       *)
(*   tlb   the valid TLB entries, by ASID and virtual page                 *)
(*   assert_failed  an assert() of pmap.c did not hold                     *)
(*   leaked  a history variable: the pages an environment had in HighVa    *)
(*         when it was freed, whose count nobody will ever drop            *)
(* The tables that base_pgdir shares with every environment (UENVS,        *)
(* UPAGES) never change after boot and are left out.                       *)
(***************************************************************************)
EXTENDS MosBase

CONSTANTS
  Page,     \* physical pages handed to page_init's free list
  NASID,    \* number of address space identifiers of the TLB
  Perm,     \* permission bits of an entry, PTE_V apart
  PTE_D,    \* writable
  PTE_R,    \* no permission bit: read-only
  NoPage,   \* the outcome of page_alloc when no page is free
  NoPte,    \* an entry without PTE_V
  RefMod    \* number of values of pp_ref

Asid == 0..(NASID - 1)

ASSUME PageAssumption ==
  /\ IsFiniteSet(Page)
  /\ NASID \in Nat \ {0}
  /\ NoPage \notin Page
  /\ PTE_D \in Perm /\ PTE_R \in Perm
  /\ RefMod \in Nat \ {0, 1}

Pte == [pp : Page, perm : Perm]

ASSUME PteAssumption == NoPte \notin Pte

Entry == Pte \union {NoPte}

Mem == [ref  : [Page -> 0..(RefMod - 1)],
        free : SUBSET Page,
        pt   : [Env -> [Va -> Entry]],
        tlb  : [Asid -> [Va -> Entry]],
        assert_failed : BOOLEAN,
        leaked : SUBSET Page]

\* page_init: every page that alloc() did not take is on the free list.
page_init == [ref  |-> [p \in Page |-> 0],
              free |-> Page,
              pt   |-> [e \in Env |-> [v \in Va |-> NoPte]],
              tlb  |-> [a \in Asid |-> [v \in Va |-> NoPte]],
              assert_failed |-> FALSE,
              leaked |-> {}]

LIST_FIRST(S) == CHOOSE p \in S : TRUE

\* Mutant of page_take: LIST_REMOVE is forgotten.
page_take_keep(m) == m

\* The page page_alloc returns, NoPage standing for -E_NO_MEM, and the memory
\* it leaves behind.
page_alloc(m) == IF m.free = {} THEN NoPage ELSE LIST_FIRST(m.free)
page_take(m)  == [m EXCEPT !.free = @ \ {page_alloc(m)}]

page_incref(m, p) == [m EXCEPT !.ref[p] = (@ + 1) % RefMod]

page_free(m, p) ==
  IF m.ref[p] = 0 THEN [m EXCEPT !.free = @ \union {p}]
                  ELSE [m EXCEPT !.assert_failed = TRUE]

page_decref(m, p) ==
  IF m.ref[p] = 0 THEN [m EXCEPT !.assert_failed = TRUE]
  ELSE LET m1 == [m EXCEPT !.ref[p] = @ - 1]
       IN  IF m1.ref[p] = 0 THEN page_free(m1, p) ELSE m1

tlb_invalidate(m, a, va) == [m EXCEPT !.tlb[a][va] = NoPte]

page_lookup(m, e, va) == m.pt[e][va]

\* '*pte = page2pa(pp) | perm | PTE_V' with the 'pp_ref++' that goes with it.
set_pte(m, e, va, pp, perm) ==
  [page_incref(m, pp) EXCEPT !.pt[e][va] = [pp |-> pp, perm |-> perm]]

\* pgdir_walk with 'create': whether it can, and its effect if it can.
table_missing(m, e, va) == m.pt[e][Table(va)] = NoPte

\* Mutant of pgdir_walk: 'pp->pp_ref++' is forgotten.
pgdir_walk_no_ref(m, e, va) ==
  IF ~table_missing(m, e, va) THEN m
  ELSE [page_take(m) EXCEPT !.pt[e][Table(va)] =
                              [pp |-> page_alloc(m), perm |-> PTE_D]]

pgdir_walk(m, e, va) ==
  IF ~table_missing(m, e, va) THEN m
  ELSE set_pte(page_take(m), e, Table(va), page_alloc(m), PTE_D)

\* Mutant of page_remove: tlb_invalidate is forgotten.
page_remove_no_tlb(m, e, a, va) ==
  IF page_lookup(m, e, va) = NoPte THEN m
  ELSE [page_decref(m, m.pt[e][va].pp) EXCEPT !.pt[e][va] = NoPte]

page_remove(m, e, a, va) ==
  IF page_lookup(m, e, va) = NoPte THEN m
  ELSE [tlb_invalidate(page_decref(m, m.pt[e][va].pp), a, va)
          EXCEPT !.pt[e][va] = NoPte]

\* Mutant of page_insert: the page that was mapped at 'va' is not removed.
page_insert_keep_old(m, e, a, pp, va, perm) ==
  LET m1 == tlb_invalidate(m, a, va)
  IN  IF table_missing(m1, e, va) /\ page_alloc(m1) = NoPage
        THEN [mem |-> m1, ret |-> "E_NO_MEM"]
      ELSE [mem |-> set_pte(pgdir_walk(m1, e, va), e, va, pp, perm),
            ret |-> "ok"]

\* Mutant of page_insert: the case of the same page, whose reference must not
\* drop to 0 on the way, is forgotten.
page_insert_no_same(m, e, a, pp, va, perm) ==
  LET m1 == tlb_invalidate(page_remove(m, e, a, va), a, va)
  IN  IF table_missing(m1, e, va) /\ page_alloc(m1) = NoPage
        THEN [mem |-> m1, ret |-> "E_NO_MEM"]
      ELSE [mem |-> set_pte(pgdir_walk(m1, e, va), e, va, pp, perm),
            ret |-> "ok"]

page_insert(m, e, a, pp, va, perm) ==
  LET new == [pp |-> pp, perm |-> perm]
      m1  == tlb_invalidate(page_remove(m, e, a, va), a, va)
  IN  IF m.pt[e][va] # NoPte /\ m.pt[e][va].pp = pp
        THEN [mem |-> [tlb_invalidate(m, a, va) EXCEPT !.pt[e][va] = new],
              ret |-> "ok"]
      ELSE IF table_missing(m1, e, va) /\ page_alloc(m1) = NoPage
        THEN [mem |-> m1, ret |-> "E_NO_MEM"]
      ELSE [mem |-> set_pte(pgdir_walk(m1, e, va), e, va, pp, perm),
            ret |-> "ok"]

\* env_setup_vm, when a page is free: it becomes the page directory, which
\* maps itself at UVPT.
env_setup_vm(m, e) ==
  set_pte(page_take(m), e, PdVa, page_alloc(m), PTE_R)

\* page_alloc followed by page_insert of the page, as in sys_mem_alloc,
\* load_icode_mapper and passive_alloc; the page is lost if the table for 'va'
\* cannot be created.
alloc_insert(m, e, a, va, perm) ==
  IF page_alloc(m) = NoPage THEN [mem |-> m, ret |-> "E_NO_MEM"]
  ELSE page_insert(page_take(m), e, a, page_alloc(m), va, perm)

\* The places that refer to page p: one <<environment, virtual page>> per
\* valid entry.
Refs(m, p) == {x \in Env \X Va : /\ m.pt[x[1]][x[2]] # NoPte
                                 /\ m.pt[x[1]][x[2]].pp = p}

\* The references env_free finds, and the pages it does not look at.
Found(m, e, p) == {x \in Refs(m, p) : x[1] = e /\ x[2] \notin HighVa}
Missed(m, e)   == {p \in Page : \E v \in HighVa : <<e, v>> \in Refs(m, p)}

\* Mutant of env_free_vm: the tlb_invalidate calls for the page tables and the
\* directory are forgotten.
env_free_vm_no_tables(m, e, a) ==
  LET left(p) == m.ref[p] - Cardinality(Found(m, e, p))
      gone    == {p \in Page : Found(m, e, p) # {} /\ left(p) = 0}
  IN  [m EXCEPT !.ref  = [p \in Page |-> left(p)],
                !.free = @ \union gone,
                !.leaked = @ \union Missed(m, e),
                !.pt[e] = [v \in Va |-> NoPte],
                !.tlb[a] = [v \in Va |-> IF v \in UserVa THEN NoPte ELSE @[v]]]

(***************************************************************************)
(* The memory half of env_free: page_remove for every user page, then      *)
(* every page table, then the directory, each followed by a decrement and  *)
(* a tlb_invalidate.  The decrements commute, so they are taken at once:   *)
(* a page loses one reference per entry of e that names it.  The loop ends *)
(* at PDX(UTOP): the pages in HighVa keep their count and their TLB entry  *)
(* and go down with the directory that names them.                         *)
(***************************************************************************)
env_free_vm(m, e, a) ==
  LET left(p) == m.ref[p] - Cardinality(Found(m, e, p))
      gone    == {p \in Page : Found(m, e, p) # {} /\ left(p) = 0}
  IN  IF \E p \in Page : left(p) < 0 THEN [m EXCEPT !.assert_failed = TRUE]
      ELSE [m EXCEPT !.ref  = [p \in Page |-> left(p)],
                     !.free = @ \union gone,
                     !.leaked = @ \union Missed(m, e),
                     !.pt[e] = [v \in Va |-> NoPte],
                     !.tlb[a] = [v \in Va |->
                        IF m.pt[e][v] # NoPte /\ v \notin HighVa
                          THEN NoPte ELSE @[v]]]

\* tlbwr: the entry goes to a random slot, which evicts whatever it held.
tlbwr(m, a, va, entry, victim) ==
  [[m EXCEPT !.tlb[victim[1]][victim[2]] = NoPte] EXCEPT !.tlb[a][va] = entry]

-----------------------------------------------------------------------------
(***************************************************************************)
(* What makes the memory state correct.                                    *)
(***************************************************************************)

\* pp_ref "is the count of pointers (usually in page table entries) to this
\* page" (include/pmap.h), except that a leaked page is counted once for the
\* entry that is gone.
Lost(m, p) == IF p \in m.leaked THEN 1 ELSE 0
RefsExact(m) == \A p \in Page : m.ref[p] = Cardinality(Refs(m, p)) + Lost(m, p)

\* A page on the free list is in no address space, and a leaked page is on the
\* free list no more than in an address space.
FreeUnmapped(m) ==
  /\ \A p \in m.free : Refs(m, p) = {}
  /\ \A p \in m.leaked : Refs(m, p) = {} /\ p \notin m.free

\* The page that holds a page table or a page directory is referred to from
\* nowhere else: no environment maps it as ordinary memory.
TablesPrivate(m) ==
  \A e \in Env : \A v \in PtVa \union {PdVa} :
    m.pt[e][v] # NoPte => Refs(m, m.pt[e][v].pp) = {<<e, v>>}

\* A page can only be mapped through an existing page table.
TablesPresent(m) ==
  \A e \in Env : \A v \in Va : m.pt[e][v] # NoPte => m.pt[e][Table(v)] # NoPte
=============================================================================
